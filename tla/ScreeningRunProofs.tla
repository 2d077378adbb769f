------------------------ MODULE ScreeningRunProofs ------------------------
(***************************************************************************)
(* Theorems about ScreeningRun, for every plan, number of workers, limits  *)
(* and number of sessions; about Continuation, for every number of runs;   *)
(* and about VmCost, for every number of attempts and threads.             *)
(*                                                                         *)
(* The inductive invariant follows the trials that the main thread has in  *)
(* hand: at work, in the batch, being settled or given up.  They are apart *)
(* from each other, they are the ones that the database calls running, and *)
(* with the open workers they make up the pool; from this count follows    *)
(* that a loop which ends without a stop has nothing planned left.         *)
(***************************************************************************)
EXTENDS ScreeningRun, Continuation, VmCost, FiniteLemmas

TrialRows == [state : {"planned", "running", "paused", "completed", "resolved"}, recorded : Nat]
LoopRecords ==
    [accepting : BOOLEAN, free : Nat, batch : SUBSET Trials, current : Trials \cup {NoTrial},
     counted : Nat, incomplete : SUBSET Trials, stop : BOOLEAN,
     status : {"running", "stopped", "interrupted", "complete", "retrieval_pending"}]

TypeOK ==
    /\ db \in [Trials -> TrialRows]
    /\ spool \in [Items -> {"absent", "pending", "uploaded", "failed"}]
    /\ saved \in {"none", "running", "stopped", "interrupted", "complete", "retrieval_pending"}
    /\ reported \in BOOLEAN
    /\ sessions \in Nat
    /\ pc \in {"down", "inputs", "raised", "closing", "flushing"} \cup InTheLoop
    /\ loop \in LoopRecords
    /\ work \in [Trials -> {"idle", "running", "done"}]
    /\ spent \in [Trials -> Nat]
    /\ left \in [Trials -> [waiting : Nat, served : Nat]]

\* The trial being settled, and whether its result is already recorded.
InHand == IF pc \in {"recording", "verifying", "checkpointing", "confirming"}
          THEN {loop.current} ELSE {}
Committed == pc \in {"checkpointing", "confirming"}
Held == Active \cup loop.batch \cup InHand \cup loop.incomplete

AllDone == \A t \in Trials : db[t].state \in {"completed", "resolved"}

\* Before the first session nothing has happened, and between the loops the
\* pool is empty.
Quiet ==
    /\ sessions = 0 => /\ pc = "down"
                       /\ \A t \in Trials : db[t].state = "planned"
    /\ pc \in {"down", "inputs", "closing", "flushing"} => Active = {}
    /\ pc \in {"inputs", "closing", "flushing"} => InState("running") = {}
    /\ pc = "inputs" => loop = FreshLoop

\* The four parts of what is held are apart from each other.
Apart ==
    pc \in InTheLoop =>
       /\ loop.batch \cap Active = {} /\ loop.incomplete \cap (Active \cup loop.batch) = {}
       /\ InHand \subseteq Trials
       /\ InHand \cap (Active \cup loop.batch \cup loop.incomplete) = {}
       /\ pc \in {"filling", "waiting"} => loop.batch = {}

\* What is held is what the database calls running, but for a trial whose
\* result has just been recorded.
HeldIsRunning ==
    /\ \A t \in Active : db[t].state = "running"
    /\ pc \in InTheLoop =>
          /\ InState("running") = IF Committed THEN Held \ InHand ELSE Held
          /\ Committed => db[loop.current].state = "completed"

\* What is held and the open workers make up the pool, until a result stays
\* unverified.
PoolAddsUp ==
    /\ Cardinality(Active) + loop.free <= Concurrency
    /\ pc \in InTheLoop =>
          /\ Cardinality(Held) + loop.free <= Concurrency
          /\ ~loop.stop => Cardinality(Held) + loop.free = Concurrency

\* A loop that waits had nothing to claim, no open worker or a stop.
LoopState ==
    /\ pc \in InTheLoop =>
          /\ loop.status = "running"
          /\ loop.accepting = ~loop.stop
    /\ pc = "waiting" => loop.stop \/ loop.free = 0 \/ InState("planned") = {}
    /\ pc \in InTheLoop \cup {"inputs", "raised"} => InState("paused") = {}
    /\ pc = "raised" => loop.status # "complete"
    /\ loop.status = "complete" => AllDone

\* What the provider served and the database knows.  The requests that an
\* attempt left behind end before the session does, and what one of them costs
\* after the classification comes on top of what was counted.
Costs ==
    /\ \A t \in Trials : spent[t] > 0 \/ left[t].served > 0 \/ left[t].waiting > 0
                          => db[t].state # "planned"
    /\ \A t \in Trials : db[t].state = "planned" => db[t].recorded = 0
    /\ pc \notin {"down", "inputs"} => spool[Inputs] = "uploaded"
    /\ pc \in {"down", "inputs", "flushing"} => \A t \in Trials : left[t].waiting = 0
    /\ pc \in {"recording", "verifying"} =>
          /\ spent[loop.current] <= loop.counted
          /\ loop.counted <= spent[loop.current] + left[loop.current].served
    /\ pc = "verifying" => db[loop.current].recorded = loop.counted

IInv ==
    /\ TypeOK
    /\ Quiet
    /\ Apart
    /\ HeldIsRunning
    /\ PoolAddsUp
    /\ LoopState
    /\ Costs
    /\ ResultsAreBacked

-----------------------------------------------------------------------------
(* What the steps take and leave                                           *)

\* The trials in hand are trials of the plan, so that they can be counted.
LEMMA HeldFinite ==
    ASSUME IInv
    PROVE  Held \in SUBSET Trials /\ IsFiniteSet(Held) /\ Active \in SUBSET Held /\ IsFiniteSet(Active)
<1>1. Held \in SUBSET Trials /\ Active \in SUBSET Held
  BY DEF IInv, TypeOK, LoopRecords, Apart, Held, Active, InHand, InTheLoop
<1> QED
  BY <1>1, FS_Subset, RunAssumption

\* The trial that is claimed is a planned one.
LEMMA ClaimTakesPlanned ==
    ASSUME Claim
    PROVE  \E t \in Trials :
              /\ db[t].state = "planned"
              /\ db' = [db EXCEPT ![t].state = "running"]
              /\ work' = [work EXCEPT ![t] = "running"]
<1>1. InState("planned") \subseteq Nat /\ InState("planned") # {}
  BY RunAssumption DEF Claim, InState
<1>2. Min(InState("planned")) \in InState("planned")
  BY <1>1, LeastOf
<1> QED
  BY <1>2 DEF Claim, InState

\* The trial that is settled next is one of the batch.
LEMMA SettleTakesOne ==
    ASSUME TypeOK, SettleNext
    PROVE  \E t \in loop.batch : loop' = [loop EXCEPT !.current = t, !.batch = @ \ {t},
                                                     !.counted = spent[t] + left[t].served]
<1>1. loop.batch \subseteq Nat /\ loop.batch # {}
  BY RunAssumption DEF SettleNext, TypeOK, LoopRecords
<1>2. Min(loop.batch) \in loop.batch
  BY <1>1, LeastOf
<1> QED
  BY <1>2 DEF SettleNext

\* A checkpoint is neither the inputs nor the evidence of a trial.
LEMMA CheckpointsAreNew ==
    /\ Inputs \in Items /\ Inputs # NewCheckpoint
    /\ \A t \in Trials : Evidence(t) \in Items /\ Evidence(t) # NewCheckpoint
BY DEF Items, Inputs, Evidence, NewCheckpoint

-----------------------------------------------------------------------------
(* The initial state                                                       *)

\* Before the first session the pool is empty and nothing is held.
LEMMA InitInvariant == Init => IInv
<1> SUFFICES ASSUME Init PROVE IInv
  OBVIOUS
<1>1. Active = {} /\ pc = "down" /\ loop.free = Concurrency /\ loop.status = "running"
  BY DEF Init, Active, FreshLoop
<1>2. TypeOK
  BY RunAssumption DEF Init, FreshLoop, TypeOK, TrialRows, LoopRecords
<1>3. Quiet
  BY <1>1 DEF Init, Quiet
<1>4. Apart /\ LoopState
  BY <1>1 DEF Apart, LoopState, InTheLoop
<1>5. HeldIsRunning
  BY <1>1 DEF HeldIsRunning, InTheLoop
<1>6. PoolAddsUp
  BY <1>1, FS_EmptySet, RunAssumption DEF PoolAddsUp, InTheLoop
<1>7. Costs
  BY <1>1 DEF Init, Costs
<1>8. ResultsAreBacked
  BY DEF Init, ResultsAreBacked, EvidenceBeforeResult, CostOfResultsKept
<1> QED
  BY <1>2, <1>3, <1>4, <1>5, <1>6, <1>7, <1>8 DEF IInv

-----------------------------------------------------------------------------
(* Each step keeps the invariant                                           *)

\* execute_screening of a new run begins with everything planned.
LEMMA StartKeeps ==
    ASSUME IInv, Start
    PROVE  IInv'
<1> USE DEF IInv, TrialRows, LoopRecords
<1>1. TypeOK'
  BY RunAssumption DEF Start, TypeOK, InTheLoop, Moves, FreshLoop, NoTrial
<1>2. Quiet'
  <2>1. \A t \in Trials : db'[t].state = "planned" /\ work'[t] = "idle"
    BY DEF Start, Moves, Quiet, Active
  <2>2. pc' = "inputs" /\ sessions' = 1 /\ loop' = FreshLoop
    BY DEF Start, Moves
  <2> QED
    BY <2>1, <2>2 DEF Quiet, InState, Active
<1>3. Apart'
  BY DEF Start, Apart, TypeOK, InTheLoop, Active, InHand, Moves, FreshLoop, NoTrial
<1>4. HeldIsRunning'
  BY DEF Start, HeldIsRunning, Held, TypeOK, InTheLoop, InState, Active, InHand, Committed,
     Apart, Moves, FreshLoop, NoTrial
<1>5. PoolAddsUp'
  <2>1. Active' = {} /\ loop'.free = Concurrency /\ pc' = "inputs"
    BY DEF Start, Moves, Quiet, Active, FreshLoop
  <2> QED
    BY <2>1, FS_EmptySet, RunAssumption DEF PoolAddsUp, InTheLoop
<1>6. LoopState'
  <2>1. \A t \in Trials : db'[t].state = "planned"
    BY DEF Start, Moves, Quiet
  <2>2. pc' = "inputs" /\ loop'.status = "running"
    BY DEF Start, Moves, FreshLoop
  <2>3. InState("paused")' = {}
    BY <2>1 DEF InState
  <2> QED
    BY <2>2, <2>3 DEF LoopState, InTheLoop
<1>7. Costs'
  BY DEF Start, Costs, TypeOK, InTheLoop, InState, Active, HeldIsRunning, Moves, FreshLoop,
     NoTrial
<1>8. ResultsAreBacked'
  <2>1. \A t \in Trials : db[t].state = "planned" /\ ~(spent[t] > 0) /\ ~(left[t].served > 0)
    BY DEF Start, Quiet, Costs
  <2>2. \A t \in Trials : ~(spent[t] + left[t].served > 0)
    BY <2>1 DEF TypeOK
  <2>3. UNCHANGED <<db, saved, spent, left>>
    BY DEF Start
  <2> QED
    BY <2>1, <2>2, <2>3 DEF ResultsAreBacked, EvidenceBeforeResult, CostOfResultsKept
<1> QED
  BY <1>1, <1>2, <1>3, <1>4, <1>5, <1>6, <1>7, <1>8

\* A refused resume pauses what was running and ends the session.
LEMMA ResumeRefusedKeeps ==
    ASSUME IInv, ResumeRefused
    PROVE  IInv'
<1> USE DEF IInv, TrialRows, LoopRecords
<1>1. TypeOK'
  BY DEF ResumeRefused, TypeOK, InTheLoop, Paused, NoTrial
<1>2. Quiet'
  BY DEF ResumeRefused, Quiet, TypeOK, InTheLoop, InState, Active, FreshLoop, Paused,
     NoTrial
<1>3. Apart'
  BY DEF ResumeRefused, Apart, TypeOK, InTheLoop, Active, InHand, Paused, NoTrial
<1>4. HeldIsRunning'
  <2>1. Active = {} /\ pc' \notin InTheLoop /\ UNCHANGED work
    BY DEF ResumeRefused, Quiet, InTheLoop
  <2> QED
    BY <2>1 DEF HeldIsRunning, Active
<1>5. PoolAddsUp'
  BY DEF ResumeRefused, PoolAddsUp, Held, TypeOK, InTheLoop, Active, InHand, Paused,
     NoTrial
<1>6. LoopState'
  BY DEF ResumeRefused, LoopState, TypeOK, InTheLoop, InState, AllDone, Paused, NoTrial
<1>7. Costs'
  BY DEF ResumeRefused, Costs, TypeOK, InTheLoop, InState, Active, HeldIsRunning, Paused,
     NoTrial
<1>8. ResultsAreBacked'
  BY DEF ResumeRefused, ResultsAreBacked, EvidenceBeforeResult, CostOfResultsKept, Costs,
     TypeOK, HeldIsRunning, Active, InTheLoop, Paused, NoTrial
<1> QED
  BY <1>1, <1>2, <1>3, <1>4, <1>5, <1>6, <1>7, <1>8

\* A resume that is granted meets nothing running and nothing paused.
LEMMA ResumeKeeps ==
    ASSUME IInv, Resume
    PROVE  IInv'
<1> USE DEF IInv, TrialRows, LoopRecords
<1>1. TypeOK'
  BY RunAssumption DEF Resume, TypeOK, InTheLoop, Moves, FreshLoop, NoTrial
<1>2. Quiet'
  BY DEF Resume, Quiet, TypeOK, InTheLoop, InState, Active, Moves, FreshLoop, NoTrial
<1>3. Apart'
  BY DEF Resume, Apart, TypeOK, InTheLoop, Active, InHand, Moves, FreshLoop, NoTrial
<1>4. HeldIsRunning'
  BY DEF Resume, HeldIsRunning, Held, TypeOK, InTheLoop, InState, Active, InHand,
     Committed, Apart, Moves, FreshLoop, NoTrial
<1>5. PoolAddsUp'
  <2>1. Active' = {} /\ loop'.free = Concurrency /\ pc' = "inputs"
    BY DEF Resume, Moves, Quiet, Active, FreshLoop
  <2> QED
    BY <2>1, FS_EmptySet, RunAssumption DEF PoolAddsUp, InTheLoop
<1>6. LoopState'
  BY DEF Resume, LoopState, TypeOK, InTheLoop, InState, AllDone, Moves, FreshLoop, NoTrial
<1>7. Costs'
  BY DEF Resume, Costs, TypeOK, InTheLoop, InState, Active, HeldIsRunning, Moves,
     FreshLoop, NoTrial
<1>8. ResultsAreBacked'
  <2>1. \A i \in Items : spool[i] = "uploaded" => spool'[i] = "uploaded"
    BY DEF Resume
  <2>2. Inputs \in Items /\ \A t \in Trials : Evidence(t) \in Items
    BY DEF Items
  <2> QED
    BY <2>1, <2>2 DEF Resume, ResultsAreBacked, EvidenceBeforeResult, CostOfResultsKept
<1> QED
  BY <1>1, <1>2, <1>3, <1>4, <1>5, <1>6, <1>7, <1>8

\* The inputs are in the store, and the loop begins with an empty pool.
LEMMA InputsVerifiedKeeps ==
    ASSUME IInv, InputsVerified
    PROVE  IInv'
<1> USE DEF IInv, TrialRows, LoopRecords
<1>1. TypeOK'
  BY DEF InputsVerified, TypeOK, InTheLoop, Moves, NoTrial
<1>2. Quiet'
  BY DEF InputsVerified, Quiet, TypeOK, InTheLoop, InState, Active, Moves, FreshLoop,
     NoTrial
<1>3. Apart'
  <2>1. loop' = FreshLoop /\ pc' = "filling" /\ Active' = {} /\ InState("running")' = {}
    BY DEF InputsVerified, Moves, Quiet, Active, InState
  <2> QED
    BY <2>1 DEF Apart, InHand, FreshLoop
<1>4. HeldIsRunning'
  <2>1. loop' = FreshLoop /\ pc' = "filling" /\ Active' = {} /\ InState("running")' = {}
    BY DEF InputsVerified, Moves, Quiet, Active, InState
  <2> QED
    BY <2>1 DEF HeldIsRunning, Held, InHand, Committed, FreshLoop, Active
<1>5. PoolAddsUp'
  <2>1. loop' = FreshLoop /\ pc' = "filling" /\ Active' = {} /\ InState("running")' = {}
    BY DEF InputsVerified, Moves, Quiet, Active, InState
  <2>2. Held' = {} /\ loop'.free = Concurrency
    BY <2>1 DEF Held, InHand, FreshLoop
  <2> QED
    BY <2>1, <2>2, FS_EmptySet, RunAssumption DEF PoolAddsUp
<1>6. LoopState'
  <2>1. loop' = FreshLoop /\ pc = "inputs" /\ pc' = "filling" /\ UNCHANGED db
    BY DEF InputsVerified, Moves, Quiet
  <2> QED
    BY <2>1 DEF LoopState, InState, FreshLoop, InTheLoop
<1>7. Costs'
  BY DEF InputsVerified, Costs, TypeOK, InTheLoop, InState, Active, HeldIsRunning, Moves,
     FreshLoop, NoTrial
<1>8. ResultsAreBacked'
  BY DEF InputsVerified, ResultsAreBacked, EvidenceBeforeResult, CostOfResultsKept, Costs,
     TypeOK, HeldIsRunning, Active, InTheLoop, Moves, FreshLoop, NoTrial
<1> QED
  BY <1>1, <1>2, <1>3, <1>4, <1>5, <1>6, <1>7, <1>8

\* The run ends before its loop, with its trials untouched.
LEMMA InputsNotVerifiedKeeps ==
    ASSUME IInv, InputsNotVerified
    PROVE  IInv'
<1> USE DEF IInv, TrialRows, LoopRecords
<1>1. TypeOK'
  BY DEF InputsNotVerified, TypeOK, InTheLoop, Moves, NoTrial
<1>2. Quiet'
  BY DEF InputsNotVerified, Quiet, TypeOK, InTheLoop, InState, Active, Moves, FreshLoop,
     NoTrial
<1>3. Apart'
  BY DEF InputsNotVerified, Apart, TypeOK, InTheLoop, Active, InHand, Moves, NoTrial
<1>4. HeldIsRunning'
  BY DEF InputsNotVerified, HeldIsRunning, Held, TypeOK, InTheLoop, InState, Active,
     InHand, Committed, Apart, Moves, NoTrial
<1>5. PoolAddsUp'
  BY DEF InputsNotVerified, PoolAddsUp, Held, TypeOK, InTheLoop, Active, InHand, Moves,
     NoTrial
<1>6. LoopState'
  BY DEF InputsNotVerified, LoopState, TypeOK, InTheLoop, InState, AllDone, Moves, NoTrial
<1>7. Costs'
  BY DEF InputsNotVerified, Costs, TypeOK, InTheLoop, InState, Active, HeldIsRunning,
     Moves, NoTrial
<1>8. ResultsAreBacked'
  BY DEF InputsNotVerified, ResultsAreBacked, EvidenceBeforeResult, CostOfResultsKept,
     Costs, TypeOK, HeldIsRunning, Active, InTheLoop, Moves, NoTrial
<1> QED
  BY <1>1, <1>2, <1>3, <1>4, <1>5, <1>6, <1>7, <1>8

\* A claim moves one open worker and one planned trial into the pool.
LEMMA ClaimKeeps ==
    ASSUME IInv, Claim
    PROVE  IInv'
<1> USE DEF IInv, TrialRows, LoopRecords
<1>1. PICK t \in Trials : /\ db[t].state = "planned"
                          /\ db' = [db EXCEPT ![t].state = "running"]
                          /\ work' = [work EXCEPT ![t] = "running"]
  BY ClaimTakesPlanned
<1>2. /\ pc = "filling" /\ pc' = "filling"
      /\ loop.free > 0 /\ loop' = [loop EXCEPT !.free = @ - 1]
      /\ UNCHANGED <<spool, saved, reported, sessions, spent, left>>
  BY DEF Claim, Moves
<1>3. Held = InState("running") /\ InHand = {} /\ InHand' = {}
  BY <1>2 DEF HeldIsRunning, InHand, Committed, InTheLoop
<1>4. t \notin Held /\ t \notin Active /\ Active' = Active \cup {t}
  BY <1>1, <1>3 DEF InState, Held, TypeOK, Active
<1>5. Held' = Held \cup {t}
  BY <1>2, <1>3, <1>4 DEF Held, TypeOK
<1>6. TypeOK'
  <2>1. loop.free - 1 \in Nat
    BY <1>2 DEF TypeOK
  <2>2. loop.free \in Nat /\ loop' = [loop EXCEPT !.free = loop.free - 1]
    BY <1>2 DEF TypeOK
  <2>3. loop' \in LoopRecords
    BY <2>1, <2>2 DEF TypeOK, LoopRecords
  <2>4. db' \in [Trials -> TrialRows]
    BY <1>1 DEF TypeOK, TrialRows
  <2>5. work' \in [Trials -> {"idle", "running", "done"}]
    BY <1>1 DEF TypeOK
  <2> QED
    BY <1>2, <2>3, <2>4, <2>5 DEF TypeOK
<1>7. Quiet'
  BY <1>2 DEF Quiet
<1>8. Apart'
  BY <1>2, <1>3, <1>4 DEF Apart, Held, TypeOK, InTheLoop
<1>9. HeldIsRunning'
  <2>1. InState("running")' = InState("running") \cup {t}
    BY <1>1 DEF InState, TypeOK
  <2> QED
    BY <1>1, <1>2, <1>3, <1>4, <1>5, <2>1 DEF HeldIsRunning, Committed, TypeOK
<1>10. PoolAddsUp'
  <2>1. /\ Cardinality(Held') = Cardinality(Held) + 1 /\ Cardinality(Held) \in Nat
        /\ Cardinality(Active') = Cardinality(Active) + 1 /\ Cardinality(Active) \in Nat
    BY <1>4, <1>5, HeldFinite, FS_AddElement, FS_CardinalityType
  <2>2. loop'.free = loop.free - 1 /\ loop.free \in Nat /\ loop'.stop = loop.stop
    BY <1>2 DEF TypeOK
  <2> QED
    BY <1>2, <2>1, <2>2 DEF PoolAddsUp, InTheLoop
<1>11. LoopState'
  <2>1. loop'.accepting = loop.accepting /\ loop'.stop = loop.stop /\ loop'.status = "running"
    BY <1>2 DEF TypeOK, LoopState, InTheLoop
  <2>2. InState("paused")' = {}
    BY <1>1, <1>2 DEF LoopState, TypeOK, InState, InTheLoop
  <2> QED
    BY <1>2, <2>1, <2>2 DEF LoopState, InTheLoop
<1>12. Costs'
  BY <1>1, <1>2 DEF Costs, TypeOK
<1>13. ResultsAreBacked'
  BY <1>1, <1>2 DEF TypeOK, ResultsAreBacked, EvidenceBeforeResult, CostOfResultsKept
<1> QED
  BY <1>6, <1>7, <1>8, <1>9, <1>10, <1>11, <1>12, <1>13

\* The claims end when a stop, a full pool or an empty plan ends them.
LEMMA FilledKeeps ==
    ASSUME IInv, Filled
    PROVE  IInv'
<1> USE DEF IInv, TrialRows, LoopRecords
<1>1. TypeOK'
  BY DEF Filled, TypeOK, InTheLoop, Moves, NoTrial
<1>2. Quiet'
  BY DEF Filled, Quiet, TypeOK, InTheLoop, InState, Active, Moves, FreshLoop, NoTrial
<1>3. Apart'
  BY DEF Filled, Apart, TypeOK, InTheLoop, Active, InHand, Moves, NoTrial
<1>4. HeldIsRunning'
  BY DEF Filled, HeldIsRunning, Held, TypeOK, InTheLoop, InState, Active, InHand,
     Committed, Apart, Moves, NoTrial
<1>5. PoolAddsUp'
  BY DEF Filled, PoolAddsUp, Held, TypeOK, InTheLoop, Active, InHand, Moves, NoTrial
<1>6. LoopState'
  BY DEF Filled, LoopState, TypeOK, InTheLoop, InState, AllDone, Moves, NoTrial
<1>7. Costs'
  BY DEF Filled, Costs, TypeOK, InTheLoop, InState, Active, HeldIsRunning, Moves, NoTrial
<1>8. ResultsAreBacked'
  BY DEF Filled, ResultsAreBacked, EvidenceBeforeResult, CostOfResultsKept, Costs, TypeOK,
     HeldIsRunning, Active, InTheLoop, Moves, NoTrial
<1> QED
  BY <1>1, <1>2, <1>3, <1>4, <1>5, <1>6, <1>7, <1>8

\* What is done leaves the pool for the batch, and is still held.
LEMMA CollectKeeps ==
    ASSUME IInv, Collect
    PROVE  IInv'
<1> USE DEF IInv, TrialRows, LoopRecords
<1>1. TypeOK'
  BY DEF Collect, TypeOK, InTheLoop, Moves, NoTrial
<1>2. Quiet'
  BY DEF Collect, Quiet, TypeOK, InTheLoop, InState, Active, Moves, FreshLoop, NoTrial
<1>3. Apart'
  BY DEF Collect, Apart, TypeOK, InTheLoop, Active, InHand, Moves, NoTrial
<1>4. HeldIsRunning'
  BY DEF Collect, HeldIsRunning, Held, TypeOK, InTheLoop, InState, Active, InHand,
     Committed, Apart, Moves, NoTrial
<1>5. PoolAddsUp'
  <2> DEFINE done == {t \in Trials : work[t] = "done"}
  <2>1. Active' = Active \ done /\ done \subseteq Active /\ loop.batch = {}
    BY DEF Collect, Moves, TypeOK, Active, Apart, InTheLoop
  <2>2. Held' = Held
    BY <2>1 DEF Collect, Moves, TypeOK, Held, InHand
  <2>3. Cardinality(Active') <= Cardinality(Active)
    BY <2>1, HeldFinite, FS_Subset
  <2>4. Cardinality(Active) \in Nat /\ Cardinality(Active') \in Nat
    BY <2>1, HeldFinite, FS_Subset, FS_CardinalityType
  <2>5. UNCHANGED <<loop.free, loop.stop>> /\ pc = "waiting" /\ loop.free \in Nat
    BY DEF Collect, Moves, TypeOK
  <2> QED
    BY <2>2, <2>3, <2>4, <2>5, RunAssumption DEF PoolAddsUp, InTheLoop
<1>6. LoopState'
  BY DEF Collect, LoopState, TypeOK, InTheLoop, InState, AllDone, Moves, NoTrial
<1>7. Costs'
  BY DEF Collect, Costs, TypeOK, InTheLoop, InState, Active, HeldIsRunning, Moves, NoTrial
<1>8. ResultsAreBacked'
  BY DEF Collect, ResultsAreBacked, EvidenceBeforeResult, CostOfResultsKept, Costs, TypeOK,
     HeldIsRunning, Active, InTheLoop, Moves, NoTrial
<1> QED
  BY <1>1, <1>2, <1>3, <1>4, <1>5, <1>6, <1>7, <1>8

\* One trial of the batch comes to hand.
LEMMA SettleNextKeeps ==
    ASSUME IInv, SettleNext
    PROVE  IInv'
<1> USE DEF IInv, TrialRows, LoopRecords
<1>1. PICK t \in loop.batch : loop' = [loop EXCEPT !.current = t, !.batch = @ \ {t},
                                                   !.counted = spent[t] + left[t].served]
  BY SettleTakesOne
<1>2. /\ pc = "settling" /\ pc' = "recording"
      /\ UNCHANGED <<db, spool, saved, reported, sessions, work, spent, left>>
  BY DEF SettleNext, Moves
<1>3. InHand = {} /\ InHand' = {t} /\ loop'.batch = loop.batch \ {t} /\ t \in Trials
  BY <1>1, <1>2 DEF InHand, TypeOK
<1>4. UNCHANGED <<loop.free, loop.stop, loop.accepting, loop.status, loop.incomplete, Active>>
  BY <1>1, <1>2 DEF TypeOK, Active
<1>5. Held' = Held
  BY <1>3, <1>4 DEF Held
<1>6. TypeOK'
  <2>1. spent[t] \in Nat /\ left[t].served \in Nat
    BY <1>3 DEF TypeOK
  <2>2. loop.batch \ {t} \subseteq Trials /\ spent[t] + left[t].served \in Nat
    BY <2>1 DEF TypeOK
  <2>3. PICK b, n : /\ b \subseteq Trials /\ n \in Nat
                    /\ loop' = [loop EXCEPT !.current = t, !.batch = b, !.counted = n]
    BY <1>1, <2>2
  <2>4. loop' \in LoopRecords
    BY <1>3, <2>3 DEF TypeOK, LoopRecords
  <2> QED
    BY <1>2, <2>4 DEF TypeOK, InTheLoop
<1>7. Quiet'
  BY <1>2 DEF Quiet
<1>8. Apart'
  BY <1>2, <1>3, <1>4 DEF Apart, InTheLoop
<1>9. HeldIsRunning'
  BY <1>2, <1>4, <1>5 DEF HeldIsRunning, Committed, InState, InTheLoop
<1>10. PoolAddsUp'
  BY <1>2, <1>4, <1>5 DEF PoolAddsUp, InTheLoop
<1>11. LoopState'
  BY <1>2, <1>4 DEF LoopState, InTheLoop, InState, AllDone
<1>12. Costs'
  <2>1. spent[t] \in Nat /\ left[t].served \in Nat
    BY <1>3 DEF TypeOK
  <2>2. loop'.current = t /\ loop'.counted = spent[t] + left[t].served
    BY <1>1 DEF TypeOK
  <2> QED
    BY <1>2, <2>1, <2>2 DEF Costs
<1>13. ResultsAreBacked'
  BY <1>2 DEF ResultsAreBacked, EvidenceBeforeResult, CostOfResultsKept
<1> QED
  BY <1>6, <1>7, <1>8, <1>9, <1>10, <1>11, <1>12, <1>13

\* The batch is empty, and the claims begin again.
LEMMA BatchSettledKeeps ==
    ASSUME IInv, BatchSettled
    PROVE  IInv'
<1> USE DEF IInv, TrialRows, LoopRecords
<1>1. TypeOK'
  BY DEF BatchSettled, TypeOK, InTheLoop, Moves, NoTrial
<1>2. Quiet'
  BY DEF BatchSettled, Quiet, TypeOK, InTheLoop, InState, Active, Moves, FreshLoop, NoTrial
<1>3. Apart'
  BY DEF BatchSettled, Apart, TypeOK, InTheLoop, Active, InHand, Moves, NoTrial
<1>4. HeldIsRunning'
  BY DEF BatchSettled, HeldIsRunning, Held, TypeOK, InTheLoop, InState, Active, InHand,
     Committed, Apart, Moves, NoTrial
<1>5. PoolAddsUp'
  <2>1. /\ pc = "settling" /\ pc' = "filling" /\ UNCHANGED <<work, loop.free, loop.stop>>
        /\ UNCHANGED <<loop.batch, loop.incomplete>>
    BY DEF BatchSettled, Moves, TypeOK
  <2>2. Active' = Active /\ Held' = Held
    BY <2>1 DEF Active, Held, InHand
  <2> QED
    BY <2>1, <2>2 DEF PoolAddsUp, InTheLoop
<1>6. LoopState'
  BY DEF BatchSettled, LoopState, TypeOK, InTheLoop, InState, AllDone, Moves, NoTrial
<1>7. Costs'
  BY DEF BatchSettled, Costs, TypeOK, InTheLoop, InState, Active, HeldIsRunning, Moves,
     NoTrial
<1>8. ResultsAreBacked'
  BY DEF BatchSettled, ResultsAreBacked, EvidenceBeforeResult, CostOfResultsKept, Costs,
     TypeOK, HeldIsRunning, Active, InTheLoop, Moves, NoTrial
<1> QED
  BY <1>1, <1>2, <1>3, <1>4, <1>5, <1>6, <1>7, <1>8

\* The cost of the trial in hand is recorded while it still runs.
LEMMA RecordRequestKeeps ==
    ASSUME IInv, RecordRequest
    PROVE  IInv'
<1> USE DEF IInv, TrialRows, LoopRecords
<1>1. TypeOK'
  <2>1. loop.current \in Trials
    BY DEF RecordRequest, Apart, InHand, InTheLoop
  <2> QED
    BY <2>1 DEF RecordRequest, TypeOK
<1>2. Quiet'
  BY DEF RecordRequest, Quiet, TypeOK, InTheLoop, InState, Active, FreshLoop, NoTrial
<1>3. Apart'
  BY DEF RecordRequest, Apart, TypeOK, InTheLoop, Active, InHand, NoTrial
<1>4. HeldIsRunning'
  BY DEF RecordRequest, HeldIsRunning, Held, TypeOK, InTheLoop, InState, Active, InHand,
     Committed, Apart, NoTrial
<1>5. PoolAddsUp'
  BY DEF RecordRequest, PoolAddsUp, Held, TypeOK, InTheLoop, Active, InHand, NoTrial
<1>6. LoopState'
  BY DEF RecordRequest, LoopState, TypeOK, InTheLoop, InState, AllDone, NoTrial
<1>7. Costs'
  BY DEF RecordRequest, Costs, TypeOK, InTheLoop, InState, Active, HeldIsRunning, NoTrial
<1>8. ResultsAreBacked'
  BY DEF RecordRequest, ResultsAreBacked, EvidenceBeforeResult, CostOfResultsKept, Costs,
     TypeOK, HeldIsRunning, Active, InTheLoop, NoTrial
<1> QED
  BY <1>1, <1>2, <1>3, <1>4, <1>5, <1>6, <1>7, <1>8

\* Staging adds an item to the spool and takes none away.
LEMMA StageEvidenceKeeps ==
    ASSUME IInv, StageEvidence
    PROVE  IInv'
<1> USE DEF IInv, TrialRows, LoopRecords
<1>1. TypeOK'
  BY DEF StageEvidence, TypeOK, InTheLoop, Moves, NoTrial
<1>2. Quiet'
  BY DEF StageEvidence, Quiet, TypeOK, InTheLoop, InState, Active, Moves, FreshLoop,
     NoTrial
<1>3. Apart'
  BY DEF StageEvidence, Apart, TypeOK, InTheLoop, Active, InHand, Moves, NoTrial
<1>4. HeldIsRunning'
  BY DEF StageEvidence, HeldIsRunning, Held, TypeOK, InTheLoop, InState, Active, InHand,
     Committed, Apart, Moves, NoTrial
<1>5. PoolAddsUp'
  BY DEF StageEvidence, PoolAddsUp, Held, TypeOK, InTheLoop, Active, InHand, Moves, NoTrial
<1>6. LoopState'
  BY DEF StageEvidence, LoopState, TypeOK, InTheLoop, InState, AllDone, Moves, NoTrial
<1>7. Costs'
  <2>1. loop.current \in Trials /\ db[loop.current].state = "running"
    BY DEF StageEvidence, Moves, Apart, InHand, InTheLoop, HeldIsRunning, Held, Committed,
       InState
  <2>2. \A i \in Items : i # Evidence(loop.current) => spool'[i] = spool[i]
    BY DEF StageEvidence, TypeOK
  <2>3. Inputs \in Items /\ Inputs # Evidence(loop.current)
    BY DEF Items, Inputs, Evidence
  <2> QED
    BY <2>2, <2>3 DEF StageEvidence, Moves, Costs
<1>8. ResultsAreBacked'
  <2>1. loop.current \in Trials /\ db[loop.current].state = "running"
    BY DEF StageEvidence, Moves, Apart, InHand, InTheLoop, HeldIsRunning, Held, Committed,
       InState
  <2>2. \A i \in Items : i # Evidence(loop.current) => spool'[i] = spool[i]
    BY DEF StageEvidence, TypeOK
  <2>3. Inputs \in Items /\ Inputs # Evidence(loop.current)
    BY DEF Items, Inputs, Evidence
  <2>4. \A t \in Trials : Evidence(t) \in Items /\ (Evidence(t) = Evidence(loop.current) => t = loop.current)
    BY DEF Items, Evidence
  <2> QED
    BY <2>1, <2>2, <2>3, <2>4 DEF StageEvidence, ResultsAreBacked, EvidenceBeforeResult,
       CostOfResultsKept
<1> QED
  BY <1>1, <1>2, <1>3, <1>4, <1>5, <1>6, <1>7, <1>8

\* A result replaces the running state only with its evidence uploaded.
LEMMA CommitKeeps ==
    ASSUME IInv, Commit
    PROVE  IInv'
<1> USE DEF IInv, TrialRows, LoopRecords
<1>1. TypeOK'
  <2>1. loop.current \in Trials
    BY DEF Commit, Moves, Apart, InHand, InTheLoop
  <2> QED
    BY <2>1 DEF Commit, Moves, TypeOK, InTheLoop
<1>2. Quiet'
  BY DEF Commit, Quiet, TypeOK, InTheLoop, InState, Active, Moves, FreshLoop, NoTrial
<1>3. Apart'
  BY DEF Commit, Apart, TypeOK, InTheLoop, Active, InHand, Moves, NoTrial
<1>4. HeldIsRunning'
  BY DEF Commit, HeldIsRunning, Held, TypeOK, InTheLoop, InState, Active, InHand,
     Committed, Apart, Moves, NoTrial
<1>5. PoolAddsUp'
  BY DEF Commit, PoolAddsUp, Held, TypeOK, InTheLoop, Active, InHand, Moves, NoTrial
<1>6. LoopState'
  BY DEF Commit, LoopState, TypeOK, InTheLoop, InState, AllDone, Moves, NoTrial
<1>7. Costs'
  BY DEF Commit, Costs, TypeOK, InTheLoop, InState, Active, HeldIsRunning, Moves, NoTrial
<1>8. ResultsAreBacked'
  BY DEF Commit, ResultsAreBacked, EvidenceBeforeResult, CostOfResultsKept, Costs, TypeOK,
     HeldIsRunning, Active, InTheLoop, Moves, NoTrial
<1> QED
  BY <1>1, <1>2, <1>3, <1>4, <1>5, <1>6, <1>7, <1>8

\* A trial without evidence is given up, but still held, with its worker.
LEMMA LeaveIncompleteKeeps ==
    ASSUME IInv, LeaveIncomplete
    PROVE  IInv'
<1> USE DEF IInv, TrialRows, LoopRecords
<1>1. TypeOK'
  <2>1. loop.current \in Trials
    BY DEF LeaveIncomplete, Moves, Apart, InHand, InTheLoop
  <2> QED
    BY <2>1 DEF LeaveIncomplete, Moves, TypeOK, InTheLoop
<1>2. Quiet'
  BY DEF LeaveIncomplete, Quiet, TypeOK, InTheLoop, InState, Active, Moves, FreshLoop,
     NoTrial
<1>3. Apart'
  BY DEF LeaveIncomplete, Apart, TypeOK, InTheLoop, Active, InHand, Moves, NoTrial
<1>4. HeldIsRunning'
  BY DEF LeaveIncomplete, HeldIsRunning, Held, TypeOK, InTheLoop, InState, Active, InHand,
     Committed, Apart, Moves, NoTrial
<1>5. PoolAddsUp'
  BY DEF LeaveIncomplete, PoolAddsUp, Held, TypeOK, InTheLoop, Active, InHand, Moves,
     NoTrial
<1>6. LoopState'
  BY DEF LeaveIncomplete, LoopState, TypeOK, InTheLoop, InState, AllDone, Moves, NoTrial
<1>7. Costs'
  BY DEF LeaveIncomplete, Costs, TypeOK, InTheLoop, InState, Active, HeldIsRunning, Moves,
     NoTrial
<1>8. ResultsAreBacked'
  <2>1. saved' = "running"
    BY DEF LeaveIncomplete, Moves, LoopState, InTheLoop
  <2> QED
    BY <2>1 DEF LeaveIncomplete, ResultsAreBacked, EvidenceBeforeResult, CostOfResultsKept
<1> QED
  BY <1>1, <1>2, <1>3, <1>4, <1>5, <1>6, <1>7, <1>8

\* A checkpoint is a new item of the spool.
LEMMA StageCheckpointKeeps ==
    ASSUME IInv, StageCheckpoint
    PROVE  IInv'
<1> USE DEF IInv, TrialRows, LoopRecords
<1>1. TypeOK'
  BY DEF StageCheckpoint, TypeOK, InTheLoop, Moves, NoTrial
<1>2. Quiet'
  BY DEF StageCheckpoint, Quiet, TypeOK, InTheLoop, InState, Active, Moves, FreshLoop,
     NoTrial
<1>3. Apart'
  BY DEF StageCheckpoint, Apart, TypeOK, InTheLoop, Active, InHand, Moves, NoTrial
<1>4. HeldIsRunning'
  BY DEF StageCheckpoint, HeldIsRunning, Held, TypeOK, InTheLoop, InState, Active, InHand,
     Committed, Apart, Moves, NoTrial
<1>5. PoolAddsUp'
  BY DEF StageCheckpoint, PoolAddsUp, Held, TypeOK, InTheLoop, Active, InHand, Moves,
     NoTrial
<1>6. LoopState'
  BY DEF StageCheckpoint, LoopState, TypeOK, InTheLoop, InState, AllDone, Moves, NoTrial
<1>7. Costs'
  <2>1. spool'[Inputs] = spool[Inputs]
    BY CheckpointsAreNew DEF StageCheckpoint, TypeOK
  <2> QED
    BY <2>1 DEF StageCheckpoint, Moves, Costs
<1>8. ResultsAreBacked'
  <2>1. spool'[Inputs] = spool[Inputs] /\ \A t \in Trials : spool'[Evidence(t)] = spool[Evidence(t)]
    BY CheckpointsAreNew DEF StageCheckpoint, TypeOK
  <2>2. saved' = "running"
    BY DEF StageCheckpoint, Moves, LoopState, InTheLoop
  <2> QED
    BY <2>1, <2>2 DEF StageCheckpoint, ResultsAreBacked, EvidenceBeforeResult,
       CostOfResultsKept
<1> QED
  BY <1>1, <1>2, <1>3, <1>4, <1>5, <1>6, <1>7, <1>8

\* A confirmed checkpoint lets go of the trial in hand and opens its worker.
LEMMA ConfirmKeeps ==
    ASSUME IInv, Confirm
    PROVE  IInv'
<1> USE DEF IInv, TrialRows, LoopRecords
<1>1. TypeOK'
  <2>1. loop.free + 1 \in Nat
    BY DEF TypeOK
  <2> QED
    BY <2>1 DEF Confirm, TypeOK, InTheLoop, Moves, NoTrial
<1>2. Quiet'
  BY DEF Confirm, Quiet, TypeOK, InTheLoop, InState, Active, Moves, FreshLoop, NoTrial
<1>3. Apart'
  BY DEF Confirm, Apart, TypeOK, InTheLoop, Active, InHand, Moves, NoTrial
<1>4. HeldIsRunning'
  BY DEF Confirm, HeldIsRunning, Held, TypeOK, InTheLoop, InState, Active, InHand,
     Committed, Apart, Moves, NoTrial
<1>5. PoolAddsUp'
  <2>1. /\ loop.current \in Held /\ Held' = Held \ {loop.current} /\ Active' = Active
        /\ Active \subseteq Held'
    BY DEF Confirm, Moves, TypeOK, Held, InHand, Active, Apart, InTheLoop
  <2>2. /\ Cardinality(Held') = Cardinality(Held) - 1 /\ Cardinality(Held) \in Nat
        /\ IsFiniteSet(Held')
    BY <2>1, HeldFinite, FS_RemoveElement, FS_CardinalityType
  <2>3. Cardinality(Active) <= Cardinality(Held')
    BY <2>1, <2>2, FS_Subset
  <2>4. Cardinality(Active) \in Nat /\ Cardinality(Held') \in Nat
    BY <2>2, HeldFinite, FS_CardinalityType
  <2>5. /\ loop'.free = loop.free + 1 /\ loop'.stop = loop.stop /\ loop.free \in Nat
        /\ pc = "confirming"
    BY DEF Confirm, Moves, TypeOK
  <2> QED
    BY <2>1, <2>2, <2>3, <2>4, <2>5, RunAssumption DEF PoolAddsUp, InTheLoop
<1>6. LoopState'
  BY DEF Confirm, LoopState, TypeOK, InTheLoop, InState, AllDone, Moves, NoTrial
<1>7. Costs'
  BY DEF Confirm, Costs, TypeOK, InTheLoop, InState, Active, HeldIsRunning, Moves, NoTrial
<1>8. ResultsAreBacked'
  <2>1. saved' = "running"
    BY DEF Confirm, Moves, LoopState, InTheLoop
  <2> QED
    BY <2>1 DEF Confirm, ResultsAreBacked, EvidenceBeforeResult, CostOfResultsKept
<1> QED
  BY <1>1, <1>2, <1>3, <1>4, <1>5, <1>6, <1>7, <1>8

\* A checkpoint that is not confirmed keeps its worker closed, and stops the claims.
LEMMA StopClaimingKeeps ==
    ASSUME IInv, StopClaiming
    PROVE  IInv'
<1> USE DEF IInv, TrialRows, LoopRecords
<1>1. TypeOK'
  BY DEF StopClaiming, TypeOK, InTheLoop, Moves, NoTrial
<1>2. Quiet'
  BY DEF StopClaiming, Quiet, TypeOK, InTheLoop, InState, Active, Moves, FreshLoop, NoTrial
<1>3. Apart'
  BY DEF StopClaiming, Apart, TypeOK, InTheLoop, Active, InHand, Moves, NoTrial
<1>4. HeldIsRunning'
  BY DEF StopClaiming, HeldIsRunning, Held, TypeOK, InTheLoop, InState, Active, InHand,
     Committed, Apart, Moves, NoTrial
<1>5. PoolAddsUp'
  <2>1. Held' \subseteq Held /\ Active' = Active
    BY DEF StopClaiming, Moves, TypeOK, Held, InHand, Active
  <2>2. Cardinality(Held') <= Cardinality(Held) /\ Cardinality(Held) \in Nat /\ Cardinality(Held') \in Nat
    BY <2>1, HeldFinite, FS_Subset, FS_CardinalityType
  <2>3. loop'.free = loop.free /\ loop'.stop /\ loop.free \in Nat /\ pc = "confirming"
    BY DEF StopClaiming, Moves, TypeOK
  <2> QED
    BY <2>1, <2>2, <2>3, RunAssumption DEF PoolAddsUp, InTheLoop
<1>6. LoopState'
  BY DEF StopClaiming, LoopState, TypeOK, InTheLoop, InState, AllDone, Moves, NoTrial
<1>7. Costs'
  BY DEF StopClaiming, Costs, TypeOK, InTheLoop, InState, Active, HeldIsRunning, Moves,
     NoTrial
<1>8. ResultsAreBacked'
  <2>1. saved' = "running"
    BY DEF StopClaiming, Moves, LoopState, InTheLoop
  <2> QED
    BY <2>1 DEF StopClaiming, ResultsAreBacked, EvidenceBeforeResult, CostOfResultsKept
<1> QED
  BY <1>1, <1>2, <1>3, <1>4, <1>5, <1>6, <1>7, <1>8

\* A loop that ends with nothing held and no stop has completed its plan.
LEMMA LoopEndsKeeps ==
    ASSUME IInv, LoopEnds
    PROVE  IInv'
<1> USE DEF IInv, TrialRows, LoopRecords
<1>1. TypeOK'
  <2>1. db' \in [Trials -> TrialRows]
    BY DEF LoopEnds, TypeOK, Paused
  <2>2. /\ pc' = "closing" /\ UNCHANGED <<spool, saved, reported, sessions, work, spent, left>>
        /\ \/ loop' = [FreshLoop EXCEPT !.status = "stopped"]
           \/ loop' = [FreshLoop EXCEPT !.status = "complete"]
    BY DEF LoopEnds, Moves
  <2>3. loop' \in LoopRecords
    <3>1. FreshLoop \in LoopRecords
      BY RunAssumption DEF FreshLoop
    <3> QED
      BY <2>2, <3>1
  <2> QED
    BY <2>1, <2>2, <2>3 DEF TypeOK
<1>2. Quiet'
  <2>1. loop.batch = {} /\ InState("running") = loop.incomplete
    BY DEF LoopEnds, Moves, Apart, InTheLoop, HeldIsRunning, Held, InHand, Committed
  <2>2. \A t \in Trials : db'[t].state # "running"
    BY <2>1 DEF LoopEnds, Paused, InState, TypeOK
  <2> QED
    BY <2>2 DEF LoopEnds, Moves, Quiet, Active, InState
<1>3. Apart'
  BY DEF LoopEnds, Apart, TypeOK, InTheLoop, Active, InHand, Moves, Paused, NoTrial
<1>4. HeldIsRunning'
  BY DEF LoopEnds, HeldIsRunning, Held, TypeOK, InTheLoop, InState, Active, InHand,
     Committed, Apart, Moves, Paused, NoTrial
<1>5. PoolAddsUp'
  <2>1. Active' = {} /\ loop'.free = Concurrency /\ pc' = "closing"
    BY DEF LoopEnds, FreshLoop, Moves, Active
  <2> QED
    BY <2>1, FS_EmptySet, RunAssumption DEF PoolAddsUp, InTheLoop
<1>6. LoopState'
  <2>1. loop.batch = {} /\ InState("running") = loop.incomplete
    BY DEF LoopEnds, Moves, Apart, InTheLoop, HeldIsRunning, Held, InHand, Committed
  <2>2. ASSUME loop'.status = "complete"
        PROVE  AllDone /\ UNCHANGED db
    <3>1. loop.incomplete = {} /\ ~loop.stop /\ Active = {}
      BY <2>2 DEF LoopEnds, FreshLoop, TypeOK
    <3>2. Held = {}
      BY <2>1, <3>1 DEF LoopEnds, Moves, Held, InHand
    <3>3. loop.free = Concurrency
      BY <3>1, <3>2, FS_EmptySet DEF LoopEnds, Moves, PoolAddsUp, InTheLoop, TypeOK
    <3>4. InState("planned") = {} /\ InState("paused") = {} /\ InState("running") = {}
      BY <2>1, <3>1, <3>3, RunAssumption DEF LoopEnds, Moves, LoopState, InTheLoop
    <3>5. AllDone
      BY <3>4 DEF AllDone, InState, TypeOK
    <3> QED
      BY <3>1, <3>5 DEF LoopEnds
  <2>3. pc' = "closing"
    BY DEF LoopEnds, Moves
  <2> QED
    BY <2>2, <2>3 DEF LoopState, AllDone, InTheLoop
<1>7. Costs'
  BY DEF LoopEnds, Costs, TypeOK, InTheLoop, InState, Active, HeldIsRunning, Moves, Paused,
     NoTrial
<1>8. ResultsAreBacked'
  BY DEF LoopEnds, ResultsAreBacked, EvidenceBeforeResult, CostOfResultsKept, Costs,
     TypeOK, HeldIsRunning, Active, InTheLoop, Moves, Paused, NoTrial
<1> QED
  BY <1>1, <1>2, <1>3, <1>4, <1>5, <1>6, <1>7, <1>8

\* The handler pauses everything that is running, and empties the pool.
LEMMA HandleExceptionKeeps ==
    ASSUME IInv, HandleException
    PROVE  IInv'
<1> USE DEF IInv, TrialRows, LoopRecords
<1>1. TypeOK'
  <2>1. db' \in [Trials -> TrialRows]
    BY DEF HandleException, TypeOK, Paused
  <2> QED
    BY <2>1 DEF HandleException, TypeOK, Moves
<1>2. Quiet'
  BY DEF HandleException, Quiet, TypeOK, InTheLoop, InState, Active, Moves, FreshLoop,
     Paused, NoTrial
<1>3. Apart'
  BY DEF HandleException, Apart, TypeOK, InTheLoop, Active, InHand, Moves, Paused, NoTrial
<1>4. HeldIsRunning'
  BY DEF HandleException, HeldIsRunning, Held, TypeOK, InTheLoop, InState, Active, InHand,
     Committed, Apart, Moves, Paused, NoTrial
<1>5. PoolAddsUp'
  <2>1. Active' = {} /\ loop' = loop /\ pc' = "closing"
    BY DEF HandleException, Moves, Active
  <2>2. Cardinality(Active) \in Nat /\ loop.free \in Nat
    BY HeldFinite, FS_CardinalityType DEF TypeOK
  <2> QED
    BY <2>1, <2>2, FS_EmptySet, RunAssumption DEF PoolAddsUp, InTheLoop
<1>6. LoopState'
  BY DEF HandleException, LoopState, TypeOK, InTheLoop, InState, AllDone, Moves, Paused,
     NoTrial
<1>7. Costs'
  BY DEF HandleException, Costs, TypeOK, InTheLoop, InState, Active, HeldIsRunning, Moves,
     Paused, NoTrial
<1>8. ResultsAreBacked'
  BY DEF HandleException, ResultsAreBacked, EvidenceBeforeResult, CostOfResultsKept, Costs,
     TypeOK, HeldIsRunning, Active, InTheLoop, Moves, Paused, NoTrial
<1> QED
  BY <1>1, <1>2, <1>3, <1>4, <1>5, <1>6, <1>7, <1>8

\* The last checkpoint follows the loop, with nothing held.
LEMMA LastCheckpointKeeps ==
    ASSUME IInv, LastCheckpoint
    PROVE  IInv'
<1> USE DEF IInv, TrialRows, LoopRecords
<1>1. TypeOK'
  BY DEF LastCheckpoint, TypeOK, InTheLoop, Moves, NoTrial
<1>2. Quiet'
  BY DEF LastCheckpoint, Quiet, TypeOK, InTheLoop, InState, Active, Moves, FreshLoop,
     NoTrial
<1>3. Apart'
  BY DEF LastCheckpoint, Apart, TypeOK, InTheLoop, Active, InHand, Moves, NoTrial
<1>4. HeldIsRunning'
  BY DEF LastCheckpoint, HeldIsRunning, Held, TypeOK, InTheLoop, InState, Active, InHand,
     Committed, Apart, Moves, NoTrial
<1>5. PoolAddsUp'
  BY DEF LastCheckpoint, PoolAddsUp, Held, TypeOK, InTheLoop, Active, InHand, Moves,
     NoTrial
<1>6. LoopState'
  BY DEF LastCheckpoint, LoopState, TypeOK, InTheLoop, InState, AllDone, Moves, NoTrial
<1>7. Costs'
  <2>1. spool'[Inputs] = spool[Inputs] /\ \A t \in Trials : spool'[Evidence(t)] = spool[Evidence(t)]
    BY CheckpointsAreNew DEF LastCheckpoint, TypeOK
  <2> QED
    BY <2>1 DEF LastCheckpoint, Moves, Costs
<1>8. ResultsAreBacked'
  <2>1. spool'[Inputs] = spool[Inputs] /\ \A t \in Trials : spool'[Evidence(t)] = spool[Evidence(t)]
    BY CheckpointsAreNew DEF LastCheckpoint, TypeOK
  <2>2. saved' = "complete" => saved = "complete" \/ AllDone
    BY DEF LastCheckpoint, LoopState
  <2> QED
    BY <2>1, <2>2 DEF LastCheckpoint, ResultsAreBacked, EvidenceBeforeResult,
       CostOfResultsKept, AllDone
<1> QED
  BY <1>1, <1>2, <1>3, <1>4, <1>5, <1>6, <1>7, <1>8

\* The last reports change what is saved, not the trials.
LEMMA FlushKeeps ==
    ASSUME IInv, Flush
    PROVE  IInv'
<1> USE DEF IInv, TrialRows, LoopRecords
<1>1. TypeOK'
  BY RunAssumption DEF Flush, FreshLoop, TypeOK, InTheLoop, Moves, NoTrial
<1>2. Quiet'
  BY DEF Flush, Quiet, TypeOK, InTheLoop, InState, Active, Moves, FreshLoop, NoTrial
<1>3. Apart'
  BY DEF Flush, Apart, TypeOK, InTheLoop, Active, InHand, Moves, NoTrial
<1>4. HeldIsRunning'
  BY DEF Flush, HeldIsRunning, Held, TypeOK, InTheLoop, InState, Active, InHand, Committed,
     Apart, Moves, NoTrial
<1>5. PoolAddsUp'
  <2>1. Active' = {} /\ loop'.free = Concurrency /\ pc' = "down"
    BY DEF Flush, FreshLoop, Moves, Quiet, Active
  <2> QED
    BY <2>1, FS_EmptySet, RunAssumption DEF PoolAddsUp, InTheLoop
<1>6. LoopState'
  BY DEF Flush, FreshLoop, LoopState, TypeOK, InTheLoop, InState, AllDone, Moves, NoTrial
<1>7. Costs'
  BY DEF Flush, Costs, TypeOK, InTheLoop, InState, Active, HeldIsRunning, Moves, NoTrial
<1>8. ResultsAreBacked'
  <2>1. saved' = "complete" => saved = "complete" \/ AllDone
    BY DEF Flush, LoopState
  <2> QED
    BY <2>1 DEF Flush, ResultsAreBacked, EvidenceBeforeResult, CostOfResultsKept, AllDone
<1> QED
  BY <1>1, <1>2, <1>3, <1>4, <1>5, <1>6, <1>7, <1>8

\* A crash loses the pool and leaves the database and the spool.
LEMMA CrashKeeps ==
    ASSUME IInv, Crash
    PROVE  IInv'
<1> USE DEF IInv, TrialRows, LoopRecords
<1>1. TypeOK'
  <2>1. left' \in [Trials -> [waiting : Nat, served : Nat]]
    BY DEF Crash, TypeOK
  <2> QED
    BY <2>1, RunAssumption DEF Crash, TypeOK, FreshLoop
<1>2. Quiet'
  BY DEF Crash, Quiet, TypeOK, InTheLoop, InState, Active, FreshLoop, NoTrial
<1>3. Apart'
  BY DEF Crash, Apart, TypeOK, InTheLoop, Active, InHand, FreshLoop, NoTrial
<1>4. HeldIsRunning'
  BY DEF Crash, HeldIsRunning, Held, TypeOK, InTheLoop, InState, Active, InHand, Committed,
     Apart, FreshLoop, NoTrial
<1>5. PoolAddsUp'
  <2>1. Active' = {} /\ loop'.free = Concurrency /\ pc' = "down"
    BY DEF Crash, Active, FreshLoop
  <2> QED
    BY <2>1, FS_EmptySet, RunAssumption DEF PoolAddsUp, InTheLoop
<1>6. LoopState'
  BY DEF Crash, LoopState, TypeOK, InTheLoop, InState, AllDone, FreshLoop, NoTrial
<1>7. Costs'
  BY DEF Crash, Costs, TypeOK, InTheLoop, InState, Active, HeldIsRunning, FreshLoop,
     NoTrial
<1>8. ResultsAreBacked'
  <2>1. UNCHANGED <<db, spool, saved, spent>>
    BY DEF Crash
  <2>2. \A t \in Trials : left'[t].served = left[t].served
    BY DEF Crash, TypeOK
  <2> QED
    BY <2>1, <2>2 DEF ResultsAreBacked, EvidenceBeforeResult, CostOfResultsKept
<1> QED
  BY <1>1, <1>2, <1>3, <1>4, <1>5, <1>6, <1>7, <1>8

\* The provider serves only running trials.
LEMMA ServeKeeps ==
    ASSUME IInv, NEW t \in Trials, Serve(t)
    PROVE  IInv'
<1> USE DEF IInv, TrialRows, LoopRecords
<1>1. TypeOK'
  BY DEF Serve, TypeOK, InTheLoop, NoTrial
<1>2. Quiet'
  BY DEF Serve, Quiet, TypeOK, InTheLoop, InState, Active, FreshLoop, NoTrial
<1>3. Apart'
  BY DEF Serve, Apart, TypeOK, InTheLoop, Active, InHand, NoTrial
<1>4. HeldIsRunning'
  BY DEF Serve, HeldIsRunning, Held, TypeOK, InTheLoop, InState, Active, InHand, Committed,
     Apart, NoTrial
<1>5. PoolAddsUp'
  BY DEF Serve, PoolAddsUp, Held, TypeOK, InTheLoop, Active, InHand, NoTrial
<1>6. LoopState'
  BY DEF Serve, LoopState, TypeOK, InTheLoop, InState, AllDone, NoTrial
<1>7. Costs'
  <2>1. db[t].state = "running" /\ t \in Active
    BY DEF Serve, HeldIsRunning, Active
  <2>2. pc \in {"recording", "verifying"} => t # loop.current
    BY <2>1 DEF Apart, InHand, InTheLoop
  <2>3. \A u \in Trials : u # t => spent'[u] = spent[u]
    BY DEF Serve, TypeOK
  <2>4. pc \in {"recording", "verifying"} => loop.current \in Trials
    BY DEF Apart, InHand, InTheLoop
  <2> QED
    BY <2>1, <2>2, <2>3, <2>4 DEF Serve, Costs
<1>8. ResultsAreBacked'
  <2>1. db[t].state = "running" /\ t \in Active
    BY DEF Serve, HeldIsRunning, Active
  <2>2. spool[Inputs] = "uploaded"
    BY <2>1 DEF Quiet, Costs
  <2> QED
    BY <2>1, <2>2 DEF Serve, TypeOK, ResultsAreBacked, EvidenceBeforeResult,
       CostOfResultsKept
<1> QED
  BY <1>1, <1>2, <1>3, <1>4, <1>5, <1>6, <1>7, <1>8

\* A request that was left behind waits only while a session is on, and what
\* it costs is on top of what a result was counted with.
LEMMA ServeLateKeeps ==
    ASSUME IInv, NEW t \in Trials, ServeLate(t)
    PROVE  IInv'
<1> USE DEF IInv, TrialRows, LoopRecords
<1>1. TypeOK'
  BY DEF ServeLate, TypeOK, InTheLoop, NoTrial
<1>2. /\ UNCHANGED <<db, spool, saved, reported, sessions, pc, loop, work, spent>>
      /\ Active' = Active /\ InHand' = InHand
      /\ \A state : InState(state)' = InState(state)
  BY DEF ServeLate, Active, InHand, InState
<1>3. Quiet' /\ Apart' /\ HeldIsRunning' /\ PoolAddsUp' /\ LoopState'
  BY <1>2 DEF Quiet, Apart, HeldIsRunning, PoolAddsUp, LoopState, Held, Committed, AllDone
<1>4. /\ left[t].waiting > 0 /\ left'[t].served = left[t].served + 1
      /\ left'[t].waiting = left[t].waiting - 1 /\ left[t] \in [waiting : Nat, served : Nat]
      /\ \A u \in Trials : u # t => left'[u] = left[u]
  BY DEF ServeLate, TypeOK
<1>5. db[t].state # "planned" /\ pc \notin {"down", "inputs", "flushing"}
  BY <1>4 DEF Costs
<1>6. \A u \in Trials : /\ left[u].served \in Nat /\ left'[u].served \in Nat
                        /\ left[u].served <= left'[u].served
                        /\ spent[u] \in Nat /\ db[u].recorded \in Nat
  BY <1>1, <1>4 DEF TypeOK
<1>7. Costs'
  <2>1. ASSUME NEW u \in Trials, spent'[u] > 0 \/ left'[u].served > 0 \/ left'[u].waiting > 0
        PROVE  db'[u].state # "planned"
    BY <1>2, <1>4, <1>5, <2>1 DEF Costs
  <2>2. pc \in {"recording", "verifying"} => loop.current \in Trials
    BY DEF Apart, InHand, InTheLoop
  <2>3. loop.counted \in Nat
    BY DEF TypeOK
  <2> QED
    BY <1>2, <1>5, <1>6, <2>1, <2>2, <2>3 DEF Costs
<1>8. ResultsAreBacked'
  <2>1. spool[Inputs] = "uploaded"
    BY <1>5 DEF Costs
  <2> QED
    BY <1>2, <1>6, <2>1 DEF ResultsAreBacked, EvidenceBeforeResult, CostOfResultsKept
<1> QED
  BY <1>1, <1>3, <1>7, <1>8

\* One that ends unsent changes nothing else.
LEMMA GiveUpKeeps ==
    ASSUME IInv, NEW t \in Trials, GiveUp(t)
    PROVE  IInv'
<1> USE DEF IInv, TrialRows, LoopRecords
<1>1. TypeOK'
  BY DEF GiveUp, TypeOK, InTheLoop, NoTrial
<1>2. /\ UNCHANGED <<db, spool, saved, reported, sessions, pc, loop, work, spent>>
      /\ Active' = Active /\ InHand' = InHand
      /\ \A state : InState(state)' = InState(state)
  BY DEF GiveUp, Active, InHand, InState
<1>3. Quiet' /\ Apart' /\ HeldIsRunning' /\ PoolAddsUp' /\ LoopState'
  BY <1>2 DEF Quiet, Apart, HeldIsRunning, PoolAddsUp, LoopState, Held, Committed, AllDone
<1>4. \A u \in Trials : /\ left'[u].served = left[u].served
                        /\ left'[u].waiting > 0 => left[u].waiting > 0
                        /\ left[u].waiting = 0 => left'[u].waiting = 0
  BY DEF GiveUp, TypeOK
<1>5. Costs'
  <2>1. pc \in {"recording", "verifying"} => loop.current \in Trials
    BY DEF Apart, InHand, InTheLoop
  <2> QED
    BY <1>2, <1>4, <2>1 DEF Costs
<1>6. ResultsAreBacked'
  BY <1>2, <1>4 DEF ResultsAreBacked, EvidenceBeforeResult, CostOfResultsKept
<1> QED
  BY <1>1, <1>3, <1>5, <1>6

\* A stop of the recorder is no step of the trials.
LEMMA StopRunKeeps ==
    ASSUME IInv, NEW t \in Trials, StopRun(t)
    PROVE  IInv'
<1> USE DEF IInv, TrialRows, LoopRecords
<1>1. TypeOK'
  BY DEF StopRun, TypeOK, InTheLoop, NoTrial
<1>2. Quiet'
  BY DEF StopRun, Quiet, TypeOK, InTheLoop, InState, Active, FreshLoop, NoTrial
<1>3. Apart'
  BY DEF StopRun, Apart, TypeOK, InTheLoop, Active, InHand, NoTrial
<1>4. HeldIsRunning'
  BY DEF StopRun, HeldIsRunning, Held, TypeOK, InTheLoop, InState, Active, InHand,
     Committed, Apart, NoTrial
<1>5. PoolAddsUp'
  BY DEF StopRun, PoolAddsUp, Held, TypeOK, InTheLoop, Active, InHand, NoTrial
<1>6. LoopState'
  BY DEF StopRun, LoopState, TypeOK, InTheLoop, InState, AllDone, NoTrial
<1>7. Costs'
  BY DEF StopRun, Costs, TypeOK, InTheLoop, InState, Active, HeldIsRunning, NoTrial
<1>8. ResultsAreBacked'
  BY DEF StopRun, ResultsAreBacked, EvidenceBeforeResult, CostOfResultsKept, Costs, TypeOK,
     HeldIsRunning, Active, InTheLoop, NoTrial
<1> QED
  BY <1>1, <1>2, <1>3, <1>4, <1>5, <1>6, <1>7, <1>8

\* A worker that is done still holds its trial.
LEMMA FinishKeeps ==
    ASSUME IInv, NEW t \in Trials, Finish(t)
    PROVE  IInv'
<1> USE DEF IInv, TrialRows, LoopRecords
<1>1. TypeOK'
  BY DEF Finish, TypeOK, InTheLoop, NoTrial
<1>2. Quiet'
  BY DEF Finish, Quiet, TypeOK, InTheLoop, InState, Active, FreshLoop, NoTrial
<1>3. Apart'
  BY DEF Finish, Apart, TypeOK, InTheLoop, Active, InHand, NoTrial
<1>4. HeldIsRunning'
  BY DEF Finish, HeldIsRunning, Held, TypeOK, InTheLoop, InState, Active, InHand,
     Committed, Apart, NoTrial
<1>5. PoolAddsUp'
  BY DEF Finish, PoolAddsUp, Held, TypeOK, InTheLoop, Active, InHand, NoTrial
<1>6. LoopState'
  BY DEF Finish, LoopState, TypeOK, InTheLoop, InState, AllDone, NoTrial
<1>7. Costs'
  <2>1. db[t].state = "running" /\ t \in Active
    BY DEF Finish, HeldIsRunning, Active
  <2>2. pc \notin {"down", "inputs", "flushing"}
    BY <2>1 DEF Quiet
  <2>3. pc \in {"recording", "verifying"} => loop.current \in Trials
    BY DEF Apart, InHand, InTheLoop
  <2>4. \A u \in Trials : /\ left'[u].served = left[u].served
                          /\ u # t => left'[u] = left[u]
    BY DEF Finish, TypeOK
  <2>5. UNCHANGED <<db, spool, pc, loop, spent>>
    BY DEF Finish
  <2> QED
    BY <2>1, <2>2, <2>3, <2>4, <2>5 DEF Costs
<1>8. ResultsAreBacked'
  BY DEF Finish, ResultsAreBacked, EvidenceBeforeResult, CostOfResultsKept, Costs, TypeOK,
     HeldIsRunning, Active, InTheLoop, NoTrial
<1> QED
  BY <1>1, <1>2, <1>3, <1>4, <1>5, <1>6, <1>7, <1>8

\* A resolution is for a paused trial, in no session.
LEMMA ResolvePausedKeeps ==
    ASSUME IInv, NEW t \in Trials, ResolvePaused(t)
    PROVE  IInv'
<1> USE DEF IInv, TrialRows, LoopRecords
<1>1. TypeOK'
  BY DEF ResolvePaused, TypeOK, InTheLoop, NoTrial
<1>2. Quiet'
  BY DEF ResolvePaused, Quiet, TypeOK, InTheLoop, InState, Active, FreshLoop, NoTrial
<1>3. Apart'
  BY DEF ResolvePaused, Apart, TypeOK, InTheLoop, Active, InHand, NoTrial
<1>4. HeldIsRunning'
  BY DEF ResolvePaused, HeldIsRunning, Held, TypeOK, InTheLoop, InState, Active, InHand,
     Committed, Apart, NoTrial
<1>5. PoolAddsUp'
  BY DEF ResolvePaused, PoolAddsUp, Held, TypeOK, InTheLoop, Active, InHand, NoTrial
<1>6. LoopState'
  BY DEF ResolvePaused, LoopState, TypeOK, InTheLoop, InState, AllDone, NoTrial
<1>7. Costs'
  BY DEF ResolvePaused, Costs, TypeOK, InTheLoop, InState, Active, HeldIsRunning, NoTrial
<1>8. ResultsAreBacked'
  BY DEF ResolvePaused, ResultsAreBacked, EvidenceBeforeResult, CostOfResultsKept, Costs,
     TypeOK, HeldIsRunning, Active, InTheLoop, NoTrial
<1> QED
  BY <1>1, <1>2, <1>3, <1>4, <1>5, <1>6, <1>7, <1>8

\* An upload that ends never undoes one.
LEMMA UploadKeeps ==
    ASSUME IInv, NEW i \in Items, Upload(i)
    PROVE  IInv'
<1> USE DEF IInv, TrialRows, LoopRecords
<1>1. TypeOK'
  BY DEF Upload, TypeOK, InTheLoop, NoTrial
<1>2. Quiet'
  BY DEF Upload, Quiet, TypeOK, InTheLoop, InState, Active, FreshLoop, NoTrial
<1>3. Apart'
  BY DEF Upload, Apart, TypeOK, InTheLoop, Active, InHand, NoTrial
<1>4. HeldIsRunning'
  BY DEF Upload, HeldIsRunning, Held, TypeOK, InTheLoop, InState, Active, InHand,
     Committed, Apart, NoTrial
<1>5. PoolAddsUp'
  BY DEF Upload, PoolAddsUp, Held, TypeOK, InTheLoop, Active, InHand, NoTrial
<1>6. LoopState'
  BY DEF Upload, LoopState, TypeOK, InTheLoop, InState, AllDone, NoTrial
<1>7. Costs'
  BY DEF Upload, Costs, TypeOK, InTheLoop, InState, Active, HeldIsRunning, NoTrial
<1>8. ResultsAreBacked'
  BY DEF Upload, ResultsAreBacked, EvidenceBeforeResult, CostOfResultsKept, Costs, TypeOK,
     HeldIsRunning, Active, InTheLoop, NoTrial
<1> QED
  BY <1>1, <1>2, <1>3, <1>4, <1>5, <1>6, <1>7, <1>8

\* An exception leaves what is held to the handler.
LEMMA RaiseKeeps ==
    ASSUME IInv, NEW reason \in {"stopped", "interrupted"}, Raise(reason)
    PROVE  IInv'
<1> USE DEF IInv, TrialRows, LoopRecords
<1>1. TypeOK'
  BY RunAssumption DEF Raise, FreshLoop, TypeOK, InTheLoop, NoTrial
<1>2. Quiet'
  BY DEF Raise, Quiet, TypeOK, InTheLoop, InState, Active, FreshLoop, NoTrial
<1>3. Apart'
  BY DEF Raise, FreshLoop, Apart, TypeOK, InTheLoop, Active, InHand, NoTrial
<1>4. HeldIsRunning'
  BY DEF Raise, HeldIsRunning, Held, TypeOK, InTheLoop, InState, Active, InHand, Committed,
     Apart, NoTrial
<1>5. PoolAddsUp'
  <2>1. Active' = Active /\ loop'.free = 0 /\ pc' = "raised"
    BY DEF Raise, FreshLoop, Active
  <2>2. Cardinality(Active) \in Nat /\ loop.free \in Nat
    BY HeldFinite, FS_CardinalityType DEF TypeOK
  <2> QED
    BY <2>1, <2>2, RunAssumption DEF PoolAddsUp, InTheLoop
<1>6. LoopState'
  BY DEF Raise, FreshLoop, LoopState, TypeOK, InTheLoop, InState, AllDone, NoTrial
<1>7. Costs'
  BY DEF Raise, Costs, TypeOK, InTheLoop, InState, Active, HeldIsRunning, NoTrial
<1>8. ResultsAreBacked'
  BY DEF Raise, ResultsAreBacked, EvidenceBeforeResult, CostOfResultsKept, Costs, TypeOK,
     HeldIsRunning, Active, InTheLoop, NoTrial
<1> QED
  BY <1>1, <1>2, <1>3, <1>4, <1>5, <1>6, <1>7, <1>8

\* The invariant is about the state alone.
LEMMA StutterKeeps ==
    ASSUME IInv, UNCHANGED vars
    PROVE  IInv'
BY DEF vars, IInv, TypeOK, Quiet, Apart, HeldIsRunning, PoolAddsUp, LoopState, Costs,
   ResultsAreBacked, EvidenceBeforeResult, CostOfResultsKept, Held, Active, InHand,
   Committed, InState, AllDone

\* The steps of the main thread together.
LEMMA MainStepKeeps ==
    ASSUME IInv, MainStep
    PROVE  IInv'
<1>1. CASE InputsVerified
  BY <1>1, InputsVerifiedKeeps
<1>2. CASE InputsNotVerified
  BY <1>2, InputsNotVerifiedKeeps
<1>3. CASE Claim
  BY <1>3, ClaimKeeps
<1>4. CASE Filled
  BY <1>4, FilledKeeps
<1>5. CASE Collect
  BY <1>5, CollectKeeps
<1>6. CASE SettleNext
  BY <1>6, SettleNextKeeps
<1>7. CASE BatchSettled
  BY <1>7, BatchSettledKeeps
<1>8. CASE RecordRequest
  BY <1>8, RecordRequestKeeps
<1>9. CASE StageEvidence
  BY <1>9, StageEvidenceKeeps
<1>10. CASE Commit
  BY <1>10, CommitKeeps
<1>11. CASE LeaveIncomplete
  BY <1>11, LeaveIncompleteKeeps
<1>12. CASE StageCheckpoint
  BY <1>12, StageCheckpointKeeps
<1>13. CASE Confirm
  BY <1>13, ConfirmKeeps
<1>14. CASE StopClaiming
  BY <1>14, StopClaimingKeeps
<1>15. CASE LoopEnds
  BY <1>15, LoopEndsKeeps
<1>16. CASE CheckRaises
  BY <1>16, RaiseKeeps DEF CheckRaises
<1>17. CASE HandleException
  BY <1>17, HandleExceptionKeeps
<1>18. CASE LastCheckpoint
  BY <1>18, LastCheckpointKeeps
<1>19. CASE Flush
  BY <1>19, FlushKeeps
<1> QED
  BY <1>1, <1>2, <1>3, <1>4, <1>5, <1>6, <1>7, <1>8, <1>9, <1>10, <1>11, <1>12, <1>13,
     <1>14, <1>15, <1>16, <1>17, <1>18, <1>19 DEF MainStep

\* Every step keeps the invariant.
LEMMA NextInvariant == IInv /\ [Next]_vars => IInv'
<1> SUFFICES ASSUME IInv, [Next]_vars PROVE IInv'
  OBVIOUS
<1>1. CASE Start \/ Resume \/ ResumeRefused
  BY <1>1, StartKeeps, ResumeKeeps, ResumeRefusedKeeps
<1>2. CASE MainStep
  BY <1>2, MainStepKeeps
<1>3. CASE StepFails \/ UserInterrupts
  BY <1>3, RaiseKeeps DEF StepFails, UserInterrupts
<1>4. CASE Crash
  BY <1>4, CrashKeeps
<1>5. CASE \E t \in Trials : \/ Serve(t) \/ ServeLate(t) \/ GiveUp(t)
                             \/ StopRun(t) \/ Finish(t) \/ ResolvePaused(t)
  BY <1>5, ServeKeeps, ServeLateKeeps, GiveUpKeeps, StopRunKeeps, FinishKeeps, ResolvePausedKeeps
<1>6. CASE \E i \in Items : Upload(i)
  BY <1>6, UploadKeeps
<1>7. CASE UNCHANGED vars
  BY <1>7, StutterKeeps
<1> QED
  BY <1>1, <1>2, <1>3, <1>4, <1>5, <1>6, <1>7 DEF Next

-----------------------------------------------------------------------------
(* The theorems                                                            *)

\* The database, the spool, the pool and the main thread of execute_screening
\* fit together in every state, through crashes and resumes.
THEOREM RunInvariant == Spec => []IInv
<1>1. Init => IInv
  BY InitInvariant
<1>2. IInv /\ [Next]_vars => IInv'
  BY NextInvariant
<1> QED
  BY <1>1, <1>2, PTL DEF Spec

\* A result enters the database only with its evidence read back and with what
\* its attempt spent while it ran, and only a run with a result for every trial
\* calls itself complete.
THEOREM ResultsAlwaysBacked == Spec => []ResultsAreBacked
<1>1. IInv => ResultsAreBacked
  BY DEF IInv
<1> QED
  BY <1>1, RunInvariant, PTL

\* Whatever the database calls running is with a worker or with the main
\* thread while the loop runs, and nothing is when it has ended; and no more
\* workers are busy or open than the pool has.
THEOREM NothingEverForgotten == Spec => []NothingForgotten
<1>1. IInv => NothingForgotten
  <2> SUFFICES ASSUME IInv PROVE NothingForgotten
    OBVIOUS
  <2>1. Cardinality(Active) + loop.free <= Concurrency
    BY DEF IInv, PoolAddsUp
  <2>2. pc \in InTheLoop => InState("running") \subseteq
           Active \cup loop.batch \cup {loop.current} \cup loop.incomplete
    BY DEF IInv, HeldIsRunning, Held, InHand
  <2>3. pc \in {"closing", "flushing"} => InState("running") = {} /\ Active = {}
    BY DEF IInv, Quiet
  <2> QED
    BY <2>1, <2>2, <2>3 DEF NothingForgotten
<1> QED
  BY <1>1, RunInvariant, PTL

\* A step that leaves the trials alone, or only moves them on.
MovesOn ==
    \A t \in Trials : db[t].state # "planned" => /\ db'[t].state # "planned"
                                                 /\ work'[t] = "running" => work[t] = "running"

\* Only Claim starts an attempt, and it takes a planned trial, which no step
\* makes planned again.
LEMMA NextMovesOn == IInv /\ [Next]_vars => MovesOn
<1> SUFFICES ASSUME IInv, [Next]_vars PROVE MovesOn
  OBVIOUS
<1> USE DEF IInv, MovesOn, TrialRows
<1>1. CASE UNCHANGED <<db, work>>
  BY <1>1
<1>2. CASE Claim
  <2>1. PICK t \in Trials : /\ db[t].state = "planned"
                            /\ db' = [db EXCEPT ![t].state = "running"]
                            /\ work' = [work EXCEPT ![t] = "running"]
    BY <1>2, ClaimTakesPlanned
  <2> QED
    BY <2>1 DEF TypeOK
<1>3. CASE Collect \/ Crash
  BY <1>3 DEF Collect, Crash
<1>4. CASE ResumeRefused \/ LoopEnds \/ HandleException
  <2>1. db' = db \/ db' = Paused
    BY <1>4 DEF ResumeRefused, LoopEnds, HandleException
  <2>2. \A t \in Trials : db[t].state # "planned" => db'[t].state # "planned"
    BY <2>1 DEF Paused, TypeOK
  <2>3. \A t \in Trials : work'[t] = "running" => work[t] = "running"
    BY <1>4 DEF ResumeRefused, LoopEnds, HandleException
  <2> QED
    BY <2>2, <2>3
<1>5. CASE RecordRequest \/ Commit
  <2>1. \A t \in Trials : db[t].state # "planned" => db'[t].state # "planned"
    <3>1. db \in [Trials -> TrialRows]
      BY DEF TypeOK
    <3> QED
      BY <1>5, <3>1 DEF RecordRequest, Commit, TrialRows
  <2> QED
    BY <1>5, <2>1 DEF RecordRequest, Commit
<1>6. ASSUME NEW t \in Trials, Finish(t) \/ ResolvePaused(t)
      PROVE  MovesOn
  <2>1. db' = db \/ db' = [db EXCEPT ![t].state = "resolved"]
    BY <1>6 DEF Finish, ResolvePaused
  <2>2. work' = work \/ work' = [work EXCEPT ![t] = "done"]
    BY <1>6 DEF Finish, ResolvePaused
  <2> QED
    BY <2>1, <2>2 DEF TypeOK
<1>7. CASE Start \/ Resume \/ StepFails \/ UserInterrupts
  BY <1>7, <1>1 DEF Start, Resume, StepFails, UserInterrupts, Raise
<1>8. CASE InputsVerified \/ InputsNotVerified \/ Filled \/ SettleNext \/ BatchSettled
           \/ StageEvidence \/ LeaveIncomplete \/ StageCheckpoint \/ Confirm \/ StopClaiming
           \/ CheckRaises \/ LastCheckpoint \/ Flush
  BY <1>8, <1>1 DEF InputsVerified, InputsNotVerified, Filled, SettleNext, BatchSettled,
     StageEvidence, LeaveIncomplete, StageCheckpoint, Confirm, StopClaiming, CheckRaises,
     Raise, LastCheckpoint, Flush
<1>9. ASSUME NEW t \in Trials, Serve(t) \/ ServeLate(t) \/ GiveUp(t) \/ StopRun(t)
      PROVE  MovesOn
  BY <1>9, <1>1 DEF Serve, ServeLate, GiveUp, StopRun
<1>10. ASSUME NEW i \in Items, Upload(i)
       PROVE  MovesOn
  BY <1>10, <1>1 DEF Upload
<1> QED
  BY <1>1, <1>2, <1>3, <1>4, <1>5, <1>6, <1>7, <1>8, <1>9, <1>10 DEF Next, MainStep, vars

\* A trial that was ever handed to a worker is never handed out again, by no
\* session: a request that was paid for is not paid for twice.
THEOREM NeverEverRunTwice == Spec => NeverRunTwice
<1>1. IInv /\ [Next]_vars =>
    [\A t \in Trials : db[t].state # "planned" => db'[t].state # "planned"
                                                 /\ (work'[t] = "running" => work[t] = "running")]_vars
  BY NextMovesOn DEF MovesOn
<1> QED
  BY <1>1, RunInvariant, PTL DEF Spec, NeverRunTwice

-----------------------------------------------------------------------------
(* Continuation                                                            *)

CnBills == Nat \X Nat
CnParts == {"provider", "vm", "blob"}
CnResults == CnQuality \cup {"provider_error", "setup_error", "timeout"}
CnRecords == [trial : CnTrials, result : CnResults, calls : 0 .. 3, rejected : BOOLEAN, bill : CnBills]
CnAttemptRows ==
    [trial : CnTrials, result : CnResults, calls : 0 .. 3, number : Nat, state : {"paused", "completed"},
     batch : BOOLEAN, item : {"pending", "uploaded"}]
CnCosts == [provider : Seq(CnBills), vm : Seq(CnBills), blob : Seq(CnBills)]
CnRunRows ==
    [version : CnVersions, prior : Nat, links : SUBSET CnRecords, carried : CnCosts,
     attempts : Seq(CnAttemptRows), open : BOOLEAN, sessions : Nat, persisted : Seq({"pending", "uploaded"}),
     written : BOOLEAN, counted : Nat]

CnTypeOK == chain \in Seq(CnRunRows)

\* A run continues an earlier one, which then changes no more.
CnOrder == \A r \in 1 .. Len(chain) : chain[r].prior \in 0 .. r - 1
Followed(r) == \E q \in 1 .. Len(chain) : chain[q].prior = r
CnFrozen ==
    \A r \in 1 .. Len(chain) : Followed(r) =>
        /\ ~chain[r].open
        /\ \A i \in 1 .. Len(chain[r].attempts) : chain[r].attempts[i].state = "completed"
CnRowsAgree ==
    \A r \in 1 .. Len(chain) :
        /\ IsFiniteSet(chain[r].links) /\ Len(chain[r].persisted) <= Len(chain[r].attempts)
        /\ \A i \in 1 .. Len(chain[r].attempts) :
              chain[r].attempts[i].state = "completed" => chain[r].attempts[i].item = "uploaded"

\* What it carries are the bills of the runs behind it, each once.
CnCarries ==
    \A r \in 1 .. Len(chain), part \in CnParts :
        /\ IsInjective(chain[r].carried[part])
        /\ ToSet(chain[r].carried[part]) = BillsOf(Ancestors(chain)[chain[r].prior])

\* What it links.
CnLinkSound(run, record) ==
    LET made == chain[record.bill[1]]
        attempt == made.attempts[record.bill[2]]
    IN  /\ record.bill[1] \in Ancestors(chain)[run.prior] /\ record.bill[2] \in 1 .. Len(made.attempts)
        /\ attempt.trial = record.trial /\ attempt.result = record.result
        /\ attempt.state = "completed" /\ attempt.item = "uploaded"
        /\ record.calls < CnLimit[made.version] /\ record.calls < CnLimit[run.version]
        /\ OfTrial(run, record.trial) = {}
CnLinksSound ==
    \A r \in 1 .. Len(chain) :
        /\ \A a, b \in chain[r].links : a.trial = b.trial => a = b
        /\ \A record \in chain[r].links : CnLinkSound(chain[r], record)

CnInv == CnTypeOK /\ CnOrder /\ CnFrozen /\ CnRowsAgree /\ CnCarries /\ CnLinksSound

\* The runs behind a run are found from the run it continues.
CnOrdered(runs) == Len(runs) \in Nat /\ \A r \in 1 .. Len(runs) : runs[r].prior \in 0 .. r - 1
IsBehind(of, runs, n) == of = [r \in 0 .. n |-> IF r = 0 THEN {} ELSE {r} \cup of[runs[r].prior]]

LEMMA CnBehindExists ==
    ASSUME NEW runs, CnOrdered(runs)
    PROVE  \E of : IsBehind(of, runs, Len(runs))
<1> DEFINE Bad == {n \in 0 .. Len(runs) : ~ \E of : IsBehind(of, runs, n)}
<1>1. SUFFICES ASSUME Bad # {} PROVE FALSE
  BY DEF CnOrdered
<1> DEFINE n == Min(Bad)
<1>2. n \in Bad /\ \A m \in Bad : n <= m
  <2>1. Bad \subseteq Nat /\ Bad # {}
    BY <1>1 DEF CnOrdered
  <2> QED
    BY <2>1, LeastOf
<1> HIDE DEF n
<1>3. n \in 0 .. Len(runs) /\ n \in Nat /\ ~ \E of : IsBehind(of, runs, n)
  BY <1>2 DEF CnOrdered
<1>4. CASE n = 0
  <2>1. IsBehind([r \in 0 .. 0 |-> {}], runs, 0)
    BY DEF IsBehind
  <2> QED
    BY <1>3, <1>4, <2>1
<1>5. CASE n # 0
  <2>1. n - 1 \in 0 .. Len(runs) /\ n - 1 \notin Bad
    BY <1>2, <1>3, <1>5 DEF CnOrdered
  <2>2. PICK of : IsBehind(of, runs, n - 1)
    BY <2>1
  <2> DEFINE more == [r \in 0 .. n |-> IF r = n THEN {n} \cup of[runs[n].prior] ELSE of[r]]
  <2>3. \A r \in 0 .. n : more[r] = IF r = 0 THEN {} ELSE {r} \cup more[runs[r].prior]
    <3> TAKE r \in 0 .. n
    <3>1. CASE r = 0
      <4>1. of[0] = {}
        BY <2>2, <1>3, <1>5 DEF IsBehind
      <4> QED
        BY <3>1, <4>1, <1>3, <1>5
    <3>2. CASE r = n
      <4>1. runs[n].prior \in 0 .. n - 1
        BY <1>3, <1>5 DEF CnOrdered
      <4>2. more[runs[n].prior] = of[runs[n].prior]
        BY <4>1, <1>3
      <4> QED
        BY <3>2, <4>2, <1>3, <1>5
    <3>3. CASE r # 0 /\ r # n
      <4>1. r \in 0 .. n - 1 /\ runs[r].prior \in 0 .. r - 1
        BY <3>3, <1>3 DEF CnOrdered
      <4>2. runs[r].prior \in 0 .. n - 1
        BY <4>1, <1>3
      <4>3. more[r] = of[r] /\ more[runs[r].prior] = of[runs[r].prior]
        BY <4>1, <4>2, <1>3, <3>3
      <4>4. of[r] = {r} \cup of[runs[r].prior]
        BY <4>1, <3>3, <2>2 DEF IsBehind
      <4> QED
        BY <4>3, <4>4, <3>3
    <3> QED
      BY <3>1, <3>2, <3>3
  <2> HIDE DEF more
  <2>4. more = [r \in 0 .. n |-> more[r]]
    BY DEF more
  <2>5. IsBehind(more, runs, n)
    BY <2>3, <2>4 DEF IsBehind
  <2> QED
    BY <2>5, <1>3
<1> QED
  BY <1>4, <1>5

LEMMA CnBehind ==
    ASSUME NEW runs, CnOrdered(runs)
    PROVE  /\ Ancestors(runs)[0] = {}
           /\ \A r \in 1 .. Len(runs) : Ancestors(runs)[r] = {r} \cup Ancestors(runs)[runs[r].prior]
<1> DEFINE c == CHOOSE of : of = [r \in 0 .. Len(runs) |-> IF r = 0 THEN {} ELSE {r} \cup of[runs[r].prior]]
<1>1. Ancestors(runs) = c
  BY DEF Ancestors
<1>2. c = [r \in 0 .. Len(runs) |-> IF r = 0 THEN {} ELSE {r} \cup c[runs[r].prior]]
  BY CnBehindExists DEF IsBehind
<1> HIDE DEF c
<1>3. c[0] = {}
  BY <1>2 DEF CnOrdered
<1>4. \A r \in 1 .. Len(runs) : c[r] = {r} \cup c[runs[r].prior]
  BY <1>2 DEF CnOrdered
<1> QED
  BY <1>1, <1>3, <1>4

LEMMA CnBehindBefore ==
    ASSUME NEW runs, CnOrdered(runs), NEW x \in 0 .. Len(runs)
    PROVE  Ancestors(runs)[x] \subseteq 1 .. x
<1> DEFINE Bad == {n \in 0 .. Len(runs) : ~ (Ancestors(runs)[n] \subseteq 1 .. n)}
<1>1. SUFFICES ASSUME Bad # {} PROVE FALSE
  OBVIOUS
<1> DEFINE n == Min(Bad)
<1>2. n \in Bad /\ \A m \in Bad : n <= m
  <2>1. Bad \subseteq Nat /\ Bad # {}
    BY <1>1 DEF CnOrdered
  <2> QED
    BY <2>1, LeastOf
<1> HIDE DEF n
<1>3. n \in 1 .. Len(runs)
  BY <1>2, CnBehind DEF CnOrdered
<1>4. runs[n].prior \in 0 .. n - 1 /\ runs[n].prior \notin Bad /\ runs[n].prior \in 0 .. Len(runs)
  BY <1>2, <1>3 DEF CnOrdered
<1>5. Ancestors(runs)[runs[n].prior] \subseteq 1 .. runs[n].prior
  BY <1>4
<1>6. Ancestors(runs)[n] = {n} \cup Ancestors(runs)[runs[n].prior]
  BY <1>3, CnBehind
<1> HIDE DEF Bad
<1>7. Ancestors(runs)[n] \subseteq 1 .. n
  <2> SUFFICES ASSUME NEW a \in Ancestors(runs)[n] PROVE a \in 1 .. n
    OBVIOUS
  <2>1. CASE a = n
    BY <2>1, <1>3 DEF CnOrdered
  <2>2. CASE a \in 1 .. runs[n].prior
    BY <2>2, <1>3, <1>4 DEF CnOrdered
  <2> QED
    BY <2>1, <2>2, <1>5, <1>6
<1> QED
  BY <1>2, <1>7 DEF Bad

\* A run behind another is that run or has been continued.
LEMMA CnBehindFollowed ==
    ASSUME NEW runs, CnOrdered(runs), NEW x \in 0 .. Len(runs), NEW a \in Ancestors(runs)[x], a # x
    PROVE  \E q \in 1 .. Len(runs) : runs[q].prior = a
<1> DEFINE Bad == {n \in 0 .. Len(runs) : a \in Ancestors(runs)[n] /\ a # n}
<1> DEFINE n == Min(Bad)
<1>1. n \in Bad /\ \A m \in Bad : n <= m
  <2>1. Bad \subseteq Nat /\ x \in Bad
    BY DEF CnOrdered
  <2> QED
    BY <2>1, LeastOf
<1> HIDE DEF n
<1>2. n \in 1 .. Len(runs)
  BY <1>1, CnBehind DEF CnOrdered
<1>3. runs[n].prior \in 0 .. n - 1 /\ runs[n].prior \in 0 .. Len(runs) /\ runs[n].prior \notin Bad
  BY <1>1, <1>2 DEF CnOrdered
<1>4. a \in Ancestors(runs)[runs[n].prior]
  BY <1>1, <1>2, CnBehind
<1> QED
  BY <1>2, <1>3, <1>4

\* More runs or other fields leave what is behind a run as it is.
LEMMA CnBehindKept ==
    ASSUME NEW runs, NEW more, CnOrdered(runs), CnOrdered(more), Len(runs) <= Len(more),
           \A r \in 1 .. Len(runs) : more[r].prior = runs[r].prior,
           NEW x \in 0 .. Len(runs)
    PROVE  Ancestors(more)[x] = Ancestors(runs)[x]
<1> DEFINE Bad == {n \in 0 .. Len(runs) : Ancestors(more)[n] # Ancestors(runs)[n]}
<1>1. SUFFICES ASSUME Bad # {} PROVE FALSE
  OBVIOUS
<1> DEFINE n == Min(Bad)
<1>2. n \in Bad /\ \A m \in Bad : n <= m
  <2>1. Bad \subseteq Nat /\ Bad # {}
    BY <1>1 DEF CnOrdered
  <2> QED
    BY <2>1, LeastOf
<1> HIDE DEF n
<1>3. n \in 1 .. Len(runs) /\ n \in 1 .. Len(more)
  <2>1. Len(runs) \in Nat /\ Len(more) \in Nat
    BY DEF CnOrdered
  <2>2. n \in 0 .. Len(runs) /\ Ancestors(more)[n] # Ancestors(runs)[n]
    BY <1>2
  <2>3. n # 0
    BY <2>2, CnBehind
  <2> QED
    BY <2>1, <2>2, <2>3
<1>4. runs[n].prior \in 0 .. n - 1 /\ runs[n].prior \notin Bad /\ runs[n].prior \in 0 .. Len(runs)
  <2>1. runs[n].prior \in 0 .. n - 1 /\ Len(runs) \in Nat
    BY <1>3 DEF CnOrdered
  <2>2. runs[n].prior \in 0 .. Len(runs) /\ ~(n <= runs[n].prior)
    BY <1>3, <2>1
  <2> QED
    BY <1>2, <2>1, <2>2
<1>5. Ancestors(more)[runs[n].prior] = Ancestors(runs)[runs[n].prior]
  BY <1>4
<1>6. more[n].prior = runs[n].prior
  BY <1>3
<1>7. Ancestors(more)[n] = {n} \cup Ancestors(more)[more[n].prior]
  BY <1>3, CnBehind
<1>8. Ancestors(runs)[n] = {n} \cup Ancestors(runs)[runs[n].prior]
  BY <1>3, CnBehind
<1> QED
  BY <1>2, <1>5, <1>6, <1>7, <1>8

\* The bills of some attempts of a run, each once.
LEMMA CnListed ==
    ASSUME NEW r \in Nat, NEW some, some \subseteq Nat, IsFiniteSet(some)
    PROVE  /\ Bills(r, some) \in Seq(CnBills)
           /\ IsInjective(Bills(r, some))
           /\ ToSet(Bills(r, some)) = {<<r, i>> : i \in some}
<1> DEFINE S == {<<r, i>> : i \in some}
<1>1. IsFiniteSet(S)
  <2>1. [i \in some |-> <<r, i>>] \in Surjection(some, S)
    BY DEF Surjection
  <2> QED
    BY <2>1, FS_Surjection
<1>2. S \subseteq CnBills
  <2> SUFFICES ASSUME NEW i \in some PROVE <<r, i>> \in CnBills
    OBVIOUS
  <2> QED
    BY DEF CnBills
<1> DEFINE n == Cardinality(S)
<1>3. n \in Nat /\ \E f \in [1 .. n -> S] : IsInjective(f)
  BY <1>1, FS_CardinalityType DEF ExistsBijection, Bijection, Injection
<1>4. Bills(r, some) \in [1 .. n -> S] /\ IsInjective(Bills(r, some))
  BY <1>3 DEF Bills, SetToSeq
<1> HIDE DEF S
<1>5. Bills(r, some) \in Injection(1 .. n, S)
  BY <1>4 DEF Injection
<1>6. Cardinality(1 .. n) = n /\ IsFiniteSet(1 .. n)
  BY <1>3, FS_Interval
<1>7. Bills(r, some) \in Surjection(1 .. n, S)
  BY <1>1, <1>5, <1>6, FS_Injection
<1>8. ToSet(Bills(r, some)) = S
  BY <1>4, <1>7 DEF Surjection, ToSet
<1>9. Bills(r, some) \in Seq(CnBills)
  BY <1>2, <1>3, <1>4
<1> QED
  BY <1>4, <1>8, <1>9 DEF S

LEMMA CnJoined ==
    ASSUME NEW s \in Seq(CnBills), NEW t \in Seq(CnBills), IsInjective(s), IsInjective(t),
           ToSet(s) \cap ToSet(t) = {}
    PROVE  /\ s \o t \in Seq(CnBills)
           /\ IsInjective(s \o t)
           /\ ToSet(s \o t) = ToSet(s) \cup ToSet(t)
<1>1. /\ s \o t \in Seq(CnBills) /\ DOMAIN (s \o t) = 1 .. Len(s) + Len(t)
      /\ Len(s) \in Nat /\ Len(t) \in Nat /\ DOMAIN s = 1 .. Len(s) /\ DOMAIN t = 1 .. Len(t)
  OBVIOUS
<1>2. \A i \in 1 .. Len(s) : (s \o t)[i] = s[i] /\ s[i] \in ToSet(s)
  BY <1>1 DEF ToSet
<1>3. \A i \in 1 .. Len(t) : (s \o t)[Len(s) + i] = t[i] /\ t[i] \in ToSet(t)
  BY <1>1 DEF ToSet
<1>4. \A i \in DOMAIN (s \o t) : i > Len(s) => i - Len(s) \in 1 .. Len(t) /\ (s \o t)[i] = t[i - Len(s)]
  <2> TAKE i \in DOMAIN (s \o t)
  <2> HAVE i > Len(s)
  <2>1. i - Len(s) \in 1 .. Len(t) /\ Len(s) + (i - Len(s)) = i
    BY <1>1
  <2> QED
    BY <2>1, <1>3
<1>5. IsInjective(s \o t)
  <2> SUFFICES ASSUME NEW a \in DOMAIN (s \o t), NEW b \in DOMAIN (s \o t), (s \o t)[a] = (s \o t)[b] PROVE a = b
    BY DEF IsInjective
  <2>1. CASE a <= Len(s) /\ b <= Len(s)
    BY <2>1, <1>1, <1>2 DEF IsInjective
  <2>2. CASE a > Len(s) /\ b > Len(s)
    <3>1. a - Len(s) = b - Len(s)
      BY <2>2, <1>1, <1>4 DEF IsInjective
    <3> QED
      BY <3>1, <1>1
  <2>3. CASE a <= Len(s) /\ b > Len(s)
    BY <2>3, <1>1, <1>2, <1>3, <1>4
  <2>4. CASE a > Len(s) /\ b <= Len(s)
    BY <2>4, <1>1, <1>2, <1>3, <1>4
  <2> QED
    BY <2>1, <2>2, <2>3, <2>4, <1>1
<1>6. ToSet(s \o t) \subseteq ToSet(s) \cup ToSet(t)
  <2> SUFFICES ASSUME NEW i \in DOMAIN (s \o t) PROVE (s \o t)[i] \in ToSet(s) \cup ToSet(t)
    BY DEF ToSet
  <2>1. CASE i <= Len(s)
    BY <2>1, <1>1, <1>2
  <2>2. CASE i > Len(s)
    BY <2>2, <1>3, <1>4
  <2> QED
    BY <2>1, <2>2, <1>1
<1>7. ToSet(s) \subseteq ToSet(s \o t)
  BY <1>1, <1>2 DEF ToSet
<1>8. ToSet(t) \subseteq ToSet(s \o t)
  <2> SUFFICES ASSUME NEW i \in 1 .. Len(t) PROVE t[i] \in ToSet(s \o t)
    BY <1>1 DEF ToSet
  <2>1. Len(s) + i \in DOMAIN (s \o t)
    BY <1>1
  <2> QED
    BY <2>1, <1>3 DEF ToSet
<1> QED
  BY <1>1, <1>5, <1>6, <1>7, <1>8

\* The bills of a run and of those behind it.
LEMMA CnBilled ==
    ASSUME CnInv, NEW r \in 1 .. Len(chain), NEW part \in CnParts
    PROVE  LET all == chain[r].carried[part] \o Bills(r, 1 .. Len(chain[r].attempts))
           IN  all \in Seq(CnBills) /\ IsInjective(all) /\ ToSet(all) = BillsOf(Ancestors(chain)[r])
<1> DEFINE some == 1 .. Len(chain[r].attempts)
<1>1. CnOrdered(chain) /\ chain[r] \in CnRunRows /\ Len(chain) \in Nat /\ r \in Nat
  BY DEF CnInv, CnTypeOK, CnOrder, CnOrdered
<1>2. chain[r].carried[part] \in Seq(CnBills) /\ Len(chain[r].attempts) \in Nat
      /\ DOMAIN chain[r].attempts = some /\ chain[r].prior \in 0 .. r - 1 /\ chain[r].prior \in 0 .. Len(chain)
  <2>1. chain[r].carried \in CnCosts /\ chain[r].attempts \in Seq(CnAttemptRows)
    BY <1>1 DEF CnRunRows
  <2>2. chain[r].carried[part] \in Seq(CnBills)
    BY <2>1 DEF CnCosts, CnParts
  <2> QED
    BY <1>1, <2>1, <2>2 DEF CnOrdered
<1>3. some \subseteq Nat /\ IsFiniteSet(some)
  <2>0. \A n \in Nat : IsFiniteSet(1 .. n)
    BY FS_Interval
  <2>1. IsFiniteSet(1 .. Len(chain[r].attempts))
    BY <1>2, <2>0
  <2>2. \A i \in 1 .. Len(chain[r].attempts) : i \in Nat
    OBVIOUS
  <2> QED
    BY <2>1, <2>2
<1>4. /\ Bills(r, some) \in Seq(CnBills) /\ IsInjective(Bills(r, some))
      /\ ToSet(Bills(r, some)) = {<<r, i>> : i \in some}
  BY <1>1, <1>3, CnListed
<1>5. IsInjective(chain[r].carried[part]) /\ ToSet(chain[r].carried[part]) = BillsOf(Ancestors(chain)[chain[r].prior])
  BY DEF CnInv, CnCarries
<1>6. Ancestors(chain)[r] = {r} \cup Ancestors(chain)[chain[r].prior]
  BY <1>1, CnBehind
<1>7. Ancestors(chain)[chain[r].prior] \subseteq 1 .. chain[r].prior
  BY <1>1, <1>2, CnBehindBefore
<1>8. BillsOf(Ancestors(chain)[r]) = BillsOf(Ancestors(chain)[chain[r].prior]) \cup {<<r, i>> : i \in some}
  BY <1>2, <1>6 DEF BillsOf
<1>9. ToSet(chain[r].carried[part]) \cap ToSet(Bills(r, some)) = {}
  <2> SUFFICES ASSUME NEW q \in Ancestors(chain)[chain[r].prior], NEW i, NEW j \in some, <<q, i>> = <<r, j>> PROVE FALSE
    BY <1>4, <1>5 DEF BillsOf
  <2>1. q = r /\ q \in 1 .. chain[r].prior
    BY <1>7
  <2> QED
    BY <2>1, <1>1, <1>2
<1> HIDE DEF some
<1>10. LET all == chain[r].carried[part] \o Bills(r, some)
       IN  all \in Seq(CnBills) /\ IsInjective(all) /\ ToSet(all) = ToSet(chain[r].carried[part]) \cup ToSet(Bills(r, some))
  BY <1>2, <1>4, <1>5, <1>9, CnJoined
<1> QED
  BY <1>4, <1>5, <1>8, <1>10 DEF some

\* What a step leaves of the runs that were continued, and of what is linked.
CnRunKept(r) ==
    /\ chain'[r].version = chain[r].version /\ chain'[r].prior = chain[r].prior
    /\ chain'[r].links = chain[r].links /\ chain'[r].carried = chain[r].carried
    /\ Len(chain'[r].attempts) >= Len(chain[r].attempts)
    /\ \A i \in 1 .. Len(chain[r].attempts) :
          /\ chain'[r].attempts[i].trial = chain[r].attempts[i].trial
          /\ chain'[r].attempts[i].result = chain[r].attempts[i].result
          /\ chain[r].attempts[i].state = "completed" => chain'[r].attempts[i].state = "completed"
          /\ chain[r].attempts[i].item = "uploaded" => chain'[r].attempts[i].item = "uploaded"
    /\ Followed(r) => Len(chain'[r].attempts) = Len(chain[r].attempts) /\ ~chain'[r].open
    /\ \A i \in 1 .. Len(chain'[r].attempts) : i > Len(chain[r].attempts) =>
          \A record \in chain[r].links : record.trial # chain'[r].attempts[i].trial
    /\ Len(chain'[r].persisted) <= Len(chain'[r].attempts)
    /\ \A i \in 1 .. Len(chain'[r].attempts) :
          chain'[r].attempts[i].state = "completed" => chain'[r].attempts[i].item = "uploaded"
CnKept ==
    /\ chain' \in Seq(CnRunRows) /\ Len(chain') = Len(chain)
    /\ \A r \in 1 .. Len(chain) : CnRunKept(r)

LEMMA CnKeptSound ==
    ASSUME CnInv, CnKept
    PROVE  CnInv'
<1>1. CnOrdered(chain) /\ CnOrdered(chain') /\ Len(chain) \in Nat /\ Len(chain') = Len(chain)
  BY DEF CnInv, CnTypeOK, CnOrder, CnOrdered, CnKept, CnRunKept
<1>2. \A x \in 0 .. Len(chain) : Ancestors(chain')[x] = Ancestors(chain)[x]
  <2> TAKE x \in 0 .. Len(chain)
  <2>1. \A r \in 1 .. Len(chain) : chain'[r].prior = chain[r].prior
    BY DEF CnKept, CnRunKept
  <2> QED
    BY <1>1, <2>1, CnBehindKept
<1>3. \A r \in 1 .. Len(chain) : chain[r].prior \in 0 .. Len(chain) /\ chain[r].prior \in 0 .. r - 1
  BY <1>1 DEF CnOrdered
<1>4. ASSUME NEW r \in 1 .. Len(chain), NEW a \in Ancestors(chain)[chain[r].prior]
      PROVE  a \in 1 .. Len(chain) /\ Followed(a)
  <2>1. a \in 1 .. chain[r].prior
    BY <1>1, <1>3, CnBehindBefore
  <2>2. a \in 1 .. Len(chain)
    BY <1>1, <1>3, <2>1
  <2>3. CASE a = chain[r].prior
    BY <2>2, <2>3 DEF Followed
  <2>4. CASE a # chain[r].prior
    BY <1>1, <1>3, <2>2, <2>4, CnBehindFollowed DEF Followed
  <2> QED
    BY <2>2, <2>3, <2>4
<1>5. \A r \in 1 .. Len(chain) : Followed(r)' => Followed(r)
  BY <1>1 DEF Followed, CnKept, CnRunKept
<1>6. CnTypeOK' /\ CnOrder'
  BY <1>1 DEF CnKept, CnRunKept, CnTypeOK, CnOrder, CnOrdered
<1>7. CnFrozen'
  <2> SUFFICES ASSUME NEW r \in 1 .. Len(chain), Followed(r)
               PROVE  /\ ~chain'[r].open
                      /\ \A i \in 1 .. Len(chain'[r].attempts) : chain'[r].attempts[i].state = "completed"
    BY <1>1, <1>5 DEF CnFrozen
  <2> QED
    BY DEF CnInv, CnFrozen, CnKept, CnRunKept
<1>8. CnRowsAgree'
  BY <1>1 DEF CnInv, CnRowsAgree, CnKept, CnRunKept
<1>9. \A r \in 1 .. Len(chain) :
          /\ chain'[r].prior = chain[r].prior
          /\ Ancestors(chain')[chain[r].prior] = Ancestors(chain)[chain[r].prior]
  BY <1>2, <1>3 DEF CnKept, CnRunKept
<1>10. \A a \in 1 .. Len(chain) : /\ chain[a] \in CnRunRows /\ chain'[a] \in CnRunRows
                               /\ DOMAIN chain[a].attempts = 1 .. Len(chain[a].attempts) /\ Len(chain[a].attempts) \in Nat
                               /\ DOMAIN chain'[a].attempts = 1 .. Len(chain'[a].attempts) /\ Len(chain'[a].attempts) \in Nat
  <2> TAKE a \in 1 .. Len(chain)
  <2>1. chain[a] \in CnRunRows /\ chain'[a] \in CnRunRows
    BY <1>1 DEF CnInv, CnTypeOK, CnKept, CnRunKept
  <2>2. chain[a].attempts \in Seq(CnAttemptRows) /\ chain'[a].attempts \in Seq(CnAttemptRows)
    BY <2>1 DEF CnRunRows
  <2> QED
    BY <2>1, <2>2
<1>11. CnCarries'
  <2>1. SUFFICES ASSUME NEW r \in 1 .. Len(chain), NEW part \in CnParts
        PROVE  /\ IsInjective(chain'[r].carried[part])
               /\ ToSet(chain'[r].carried[part])
                     = UNION {{<<q, i>> : i \in DOMAIN chain'[q].attempts} : q \in Ancestors(chain')[chain'[r].prior]}
    BY <1>1 DEF CnCarries, BillsOf
  <2>2. chain'[r].carried = chain[r].carried
    BY DEF CnKept, CnRunKept
  <2>3. \A q \in Ancestors(chain)[chain[r].prior] : DOMAIN chain'[q].attempts = DOMAIN chain[q].attempts
    BY <1>4, <1>10 DEF CnKept, CnRunKept
  <2>4. UNION {{<<q, i>> : i \in DOMAIN chain'[q].attempts} : q \in Ancestors(chain')[chain'[r].prior]}
            = BillsOf(Ancestors(chain)[chain[r].prior])
    BY <1>9, <2>3 DEF BillsOf
  <2> QED
    BY <2>2, <2>4 DEF CnInv, CnCarries
<1>12. CnLinksSound'
  <2>1. SUFFICES ASSUME NEW r \in 1 .. Len(chain)
        PROVE  /\ \A a, b \in chain'[r].links : a.trial = b.trial => a = b
               /\ \A record \in chain'[r].links : CnLinkSound(chain[r], record)'
    BY <1>1 DEF CnLinksSound
  <2>2. chain'[r].links = chain[r].links
    BY DEF CnKept, CnRunKept
  <2>3. ASSUME NEW record \in chain[r].links
        PROVE  CnLinkSound(chain[r], record)'
    <3> DEFINE q == record.bill[1]
               i == record.bill[2]
    <3>1. CnLinkSound(chain[r], record)
      BY <2>3 DEF CnInv, CnLinksSound
    <3>2. q \in Ancestors(chain)[chain[r].prior] /\ q \in 1 .. Len(chain) /\ i \in 1 .. Len(chain[q].attempts)
      BY <3>1, <1>4 DEF CnLinkSound
    <3>3. q \in Ancestors(chain')[chain'[r].prior]
      BY <3>2, <1>9
    <3>4. i \in 1 .. Len(chain'[q].attempts)
      BY <3>2, <1>10 DEF CnKept, CnRunKept
    <3>5. /\ chain'[q].attempts[i].trial = record.trial /\ chain'[q].attempts[i].result = record.result
          /\ chain'[q].attempts[i].state = "completed" /\ chain'[q].attempts[i].item = "uploaded"
          /\ record.calls < CnLimit[chain'[q].version] /\ record.calls < CnLimit[chain'[r].version]
      BY <3>1, <3>2 DEF CnLinkSound, CnKept, CnRunKept
    <3>6. OfTrial(chain'[r], record.trial) = {}
      <4> SUFFICES ASSUME NEW k \in DOMAIN chain'[r].attempts, chain'[r].attempts[k].trial = record.trial PROVE FALSE
        BY DEF OfTrial
      <4>0. k \in 1 .. Len(chain'[r].attempts)
        BY <1>10
      <4>1. CASE k > Len(chain[r].attempts)
        BY <4>0, <4>1, <2>3 DEF CnKept, CnRunKept
      <4>2. CASE k \in 1 .. Len(chain[r].attempts)
        <5>1. chain[r].attempts[k].trial = record.trial
          BY <4>2 DEF CnKept, CnRunKept
        <5>2. k \in OfTrial(chain[r], record.trial)
          BY <4>2, <5>1, <1>10 DEF OfTrial
        <5> QED
          BY <3>1, <5>2 DEF CnLinkSound
      <4> QED
        BY <4>0, <4>1, <4>2, <1>10
    <3> QED
      BY <3>3, <3>4, <3>5, <3>6 DEF CnLinkSound
  <2>4. \A a, b \in chain[r].links : a.trial = b.trial => a = b
    BY DEF CnInv, CnLinksSound
  <2> QED
    BY <2>2, <2>3, <2>4
<1> QED
  BY <1>6, <1>7, <1>8, <1>11, <1>12 DEF CnInv

LEMMA CnTypes ==
    ASSUME CnInv, NEW r \in 1 .. Len(chain)
    PROVE  /\ Len(chain) \in Nat /\ DOMAIN chain = 1 .. Len(chain) /\ chain[r] \in CnRunRows
           /\ chain[r].attempts \in Seq(CnAttemptRows) /\ Len(chain[r].attempts) \in Nat
           /\ DOMAIN chain[r].attempts = 1 .. Len(chain[r].attempts)
           /\ \A i \in 1 .. Len(chain[r].attempts) : chain[r].attempts[i] \in CnAttemptRows
           /\ chain[r].persisted \in Seq({"pending", "uploaded"}) /\ Len(chain[r].persisted) \in Nat
           /\ DOMAIN chain[r].persisted = 1 .. Len(chain[r].persisted)
<1>1. Len(chain) \in Nat /\ DOMAIN chain = 1 .. Len(chain) /\ chain[r] \in CnRunRows
  BY DEF CnInv, CnTypeOK
<1>2. chain[r].attempts \in Seq(CnAttemptRows) /\ chain[r].persisted \in Seq({"pending", "uploaded"})
  BY <1>1 DEF CnRunRows
<1> QED
  BY <1>1, <1>2

\* The initial run has nothing behind it.
LEMMA CnStarts == CnInit => CnInv
<1> SUFFICES ASSUME CnInit PROVE CnInv
  OBVIOUS
<1>1. PICK v \in CnVersions : chain = <<StartedRun(v, 0, {}, NoCosts)>>
  BY DEF CnInit
<1>2. Cardinality({}) = 0 /\ IsFiniteSet({})
  BY FS_EmptySet
<1>3. /\ Len(chain) = 1 /\ chain[1] = StartedRun(v, 0, {}, NoCosts)
      /\ chain[1].prior = 0 /\ chain[1].links = {} /\ chain[1].attempts = <<>> /\ chain[1].persisted = <<>>
      /\ chain[1].carried = NoCosts
  BY <1>1 DEF StartedRun
<1>4. chain \in Seq(CnRunRows)
  <2>1. NoCosts \in CnCosts
    BY DEF NoCosts, CnCosts
  <2>2. StartedRun(v, 0, {}, NoCosts) \in CnRunRows
    BY <2>1, <1>2 DEF StartedRun, CnRunRows
  <2> QED
    BY <2>2, <1>1
<1>5. CnTypeOK /\ CnOrder /\ CnOrdered(chain)
  BY <1>3, <1>4 DEF CnTypeOK, CnOrder, CnOrdered
<1>6. CnFrozen /\ CnRowsAgree
  <2>1. \A r \in 1 .. Len(chain) : ~ Followed(r)
    BY <1>3 DEF Followed
  <2>2. Len(chain[1].attempts) = 0 /\ Len(chain[1].persisted) = 0
    BY <1>3
  <2>3. \A r \in 1 .. Len(chain) : r = 1
    BY <1>3
  <2>4. \A i \in 1 .. Len(chain[1].attempts) : FALSE
    BY <2>2
  <2>5. CnFrozen
    BY <2>1 DEF CnFrozen
  <2>6. IsFiniteSet(chain[1].links)
    BY <1>2, <1>3
  <2> QED
    BY <2>2, <2>3, <2>4, <2>5, <2>6 DEF CnRowsAgree
<1>7. Ancestors(chain)[0] = {}
  BY <1>5, CnBehind
<1>8. \A part \in CnParts : chain[1].carried[part] = <<>>
  BY <1>3 DEF NoCosts, CnParts
<1>9. CnCarries
  BY <1>3, <1>7, <1>8 DEF CnCarries, BillsOf, ToSet, IsInjective
<1>10. CnLinksSound
  BY <1>3 DEF CnLinksSound
<1> QED
  BY <1>5, <1>6, <1>9, <1>10 DEF CnInv

LEMMA CnExecuteKept ==
    ASSUME CnInv, NEW r \in 1 .. Len(chain), NEW t \in CnTrials, NEW outcome \in CnOutcomes(chain[r].version),
           NEW how \in {"verified", "incomplete", "batch_failed"}, CnExecute(r, t, outcome, how)
    PROVE  CnKept
<1> DEFINE run == chain[r]
           attempt == [trial |-> t, result |-> outcome.result, calls |-> outcome.calls, number |-> Cardinality(OfTrial(run, t)) + 1,
                       state |-> IF how = "incomplete" THEN "paused" ELSE "completed",
                       batch |-> how = "verified", item |-> IF how = "incomplete" THEN "pending" ELSE "uploaded"]
           after == [run EXCEPT !.attempts = Append(@, attempt), !.counted = IF how = "incomplete" THEN @ ELSE @ + 1,
                                !.open = how = "verified"]
<1>1. /\ Len(chain) \in Nat /\ DOMAIN chain = 1 .. Len(chain) /\ run \in CnRunRows
      /\ run.attempts \in Seq(CnAttemptRows) /\ Len(run.attempts) \in Nat /\ DOMAIN run.attempts = 1 .. Len(run.attempts)
  BY CnTypes
<1>2. attempt \in CnAttemptRows
  <2>1. outcome.result \in CnResults /\ outcome.calls \in 0 .. 3
    BY DEF CnOutcomes, CnResults, CnQuality
  <2>2. Cardinality(OfTrial(run, t)) \in Nat
    <3>0. \A n \in Nat : IsFiniteSet(1 .. n)
      BY FS_Interval
    <3>1. IsFiniteSet(DOMAIN run.attempts) /\ OfTrial(run, t) \subseteq DOMAIN run.attempts
      BY <1>1, <3>0 DEF OfTrial
    <3> QED
      BY <3>1, FS_Subset, FS_CardinalityType
  <2> QED
    BY <2>1, <2>2 DEF CnAttemptRows
<1>3. /\ run.open /\ \A record \in run.links : record.trial # t
      /\ chain' = [chain EXCEPT ![r] = after]
  BY DEF CnExecute, CnClaimable
<1> HIDE DEF attempt
<1> DEFINE attempts == Append(run.attempts, attempt)
           counted == IF how = "incomplete" THEN run.counted ELSE run.counted + 1
<1>40. attempts \in Seq(CnAttemptRows) /\ counted \in Nat
  BY <1>1, <1>2 DEF CnRunRows
<1>41. after = [run EXCEPT !.attempts = attempts, !.counted = counted, !.open = how = "verified"]
  BY <1>1 DEF CnRunRows
<1> HIDE DEF attempts, counted, after
<1>42. /\ after \in CnRunRows /\ after.attempts = attempts
       /\ after.version = run.version /\ after.prior = run.prior /\ after.links = run.links /\ after.carried = run.carried
       /\ after.persisted = run.persisted
  BY <1>1, <1>40, <1>41 DEF CnRunRows
<1>4. /\ after \in CnRunRows /\ after.attempts = Append(run.attempts, attempt)
      /\ after.version = run.version /\ after.prior = run.prior /\ after.links = run.links /\ after.carried = run.carried
      /\ after.persisted = run.persisted
  BY <1>42 DEF attempts
<1>5. /\ Len(after.attempts) = Len(run.attempts) + 1
      /\ \A i \in 1 .. Len(run.attempts) : after.attempts[i] = run.attempts[i]
      /\ after.attempts[Len(run.attempts) + 1] = attempt
  BY <1>1, <1>2, <1>4
<1> HIDE DEF after
<1>6. chain' \in Seq(CnRunRows) /\ Len(chain') = Len(chain)
  BY <1>3, <1>4 DEF CnInv, CnTypeOK
<1>7. chain'[r] = after /\ \A q \in 1 .. Len(chain) : q # r => chain'[q] = chain[q]
  BY <1>1, <1>3
<1>8. ~ Followed(r)
  BY <1>3 DEF CnInv, CnFrozen
<1>9. attempt.trial = t /\ (attempt.state = "completed" => attempt.item = "uploaded")
  BY DEF attempt
<1>10. Len(run.persisted) <= Len(run.attempts) /\ Len(run.persisted) \in Nat
  BY CnTypes DEF CnInv, CnRowsAgree
<1>11. \A i \in 1 .. Len(after.attempts) : i \in 1 .. Len(run.attempts) \/ i = Len(run.attempts) + 1
  BY <1>1, <1>5
<1>12. \A i \in 1 .. Len(after.attempts) : after.attempts[i].state = "completed" => after.attempts[i].item = "uploaded"
  BY <1>5, <1>9, <1>11 DEF CnInv, CnRowsAgree
<1>13. \A i \in 1 .. Len(after.attempts) : i > Len(run.attempts) =>
             \A record \in run.links : record.trial # after.attempts[i].trial
  BY <1>1, <1>3, <1>5, <1>9, <1>11
<1>14. ASSUME NEW q \in 1 .. Len(chain), q # r
       PROVE  /\ Len(chain[q].attempts) \in Nat /\ Len(chain[q].persisted) <= Len(chain[q].attempts)
              /\ \A i \in 1 .. Len(chain[q].attempts) :
                    chain[q].attempts[i].state = "completed" => chain[q].attempts[i].item = "uploaded"
              /\ Followed(q) => ~chain[q].open
  BY CnTypes DEF CnInv, CnRowsAgree, CnFrozen
<1>15. Len(after.attempts) >= Len(run.attempts) /\ Len(after.persisted) <= Len(after.attempts)
  BY <1>1, <1>4, <1>5, <1>10
<1> SUFFICES ASSUME NEW q \in 1 .. Len(chain) PROVE CnRunKept(q)
  BY <1>6 DEF CnKept
<1>16. CASE q = r
  BY <1>4, <1>5, <1>7, <1>8, <1>12, <1>13, <1>15, <1>16 DEF CnRunKept
<1>17. CASE q # r
  <2>1. chain'[q] = chain[q]
    BY <1>7, <1>17
  <2> QED
    BY <1>14, <1>17, <2>1 DEF CnRunKept
<1> QED
  BY <1>16, <1>17

\* The steps that change one run and keep its attempts' number.
LEMMA CnChangedKept ==
    ASSUME CnInv, NEW r \in 1 .. Len(chain), NEW after \in CnRunRows, chain' = [chain EXCEPT ![r] = after],
           after.version = chain[r].version, after.prior = chain[r].prior, after.links = chain[r].links,
           after.carried = chain[r].carried, after.open => ~ Followed(r),
           Len(after.attempts) = Len(chain[r].attempts), Len(after.persisted) <= Len(after.attempts),
           \A i \in 1 .. Len(chain[r].attempts) :
              \/ after.attempts[i] = chain[r].attempts[i]
              \/ /\ after.attempts[i].trial = chain[r].attempts[i].trial
                 /\ after.attempts[i].result = chain[r].attempts[i].result
                 /\ after.attempts[i].state = "completed" /\ after.attempts[i].item = "uploaded"
    PROVE  CnKept
<1>1. DOMAIN chain = 1 .. Len(chain) /\ Len(chain[r].attempts) \in Nat
  BY CnTypes
<1>2. chain' \in Seq(CnRunRows) /\ Len(chain') = Len(chain)
  BY DEF CnInv, CnTypeOK
<1>3. chain'[r] = after /\ \A q \in 1 .. Len(chain) : q # r => chain'[q] = chain[q]
  BY <1>1
<1>4. ASSUME NEW q \in 1 .. Len(chain)
      PROVE  /\ Len(chain[q].attempts) \in Nat /\ Len(chain[q].persisted) <= Len(chain[q].attempts)
             /\ \A i \in 1 .. Len(chain[q].attempts) :
                   chain[q].attempts[i].state = "completed" => chain[q].attempts[i].item = "uploaded"
             /\ Followed(q) => ~chain[q].open
  BY CnTypes DEF CnInv, CnRowsAgree, CnFrozen
<1> SUFFICES ASSUME NEW q \in 1 .. Len(chain) PROVE CnRunKept(q)
  BY <1>2 DEF CnKept
<1>5. CASE q = r
  <2>1. \A i \in 1 .. Len(after.attempts) : i \in 1 .. Len(chain[r].attempts) /\ ~(i > Len(chain[r].attempts))
    BY <1>1
  <2>2. \A i \in 1 .. Len(after.attempts) : after.attempts[i].state = "completed" => after.attempts[i].item = "uploaded"
    BY <1>4, <2>1
  <2>3. \A i \in 1 .. Len(chain[r].attempts) :
           /\ after.attempts[i].trial = chain[r].attempts[i].trial
           /\ after.attempts[i].result = chain[r].attempts[i].result
           /\ chain[r].attempts[i].state = "completed" => after.attempts[i].state = "completed"
           /\ chain[r].attempts[i].item = "uploaded" => after.attempts[i].item = "uploaded"
    OBVIOUS
  <2>4. chain'[q] = after /\ Len(after.attempts) >= Len(chain[r].attempts)
    BY <1>1, <1>3, <1>5
  <2> QED
    BY <1>5, <2>1, <2>2, <2>3, <2>4 DEF CnRunKept
<1>6. CASE q # r
  <2>1. chain'[q] = chain[q]
    BY <1>3, <1>6
  <2> QED
    BY <1>4, <1>6, <2>1 DEF CnRunKept
<1> QED
  BY <1>5, <1>6

LEMMA CnEndKept == ASSUME CnInv, NEW r \in 1 .. Len(chain), CnEnd(r) PROVE CnKept
<1> DEFINE items == [i \in DOMAIN chain[r].attempts |-> chain[r].attempts[i].item]
           after == [chain[r] EXCEPT !.open = FALSE, !.written = TRUE, !.persisted = items]
<1>1. /\ chain[r] \in CnRunRows /\ Len(chain[r].attempts) \in Nat /\ DOMAIN chain[r].attempts = 1 .. Len(chain[r].attempts)
      /\ \A i \in 1 .. Len(chain[r].attempts) : chain[r].attempts[i] \in CnAttemptRows
  BY CnTypes
<1>2. items \in Seq({"pending", "uploaded"}) /\ Len(items) = Len(chain[r].attempts)
  <2>1. items \in [1 .. Len(chain[r].attempts) -> {"pending", "uploaded"}]
    BY <1>1 DEF CnAttemptRows
  <2> QED
    BY <1>1, <2>1
<1>3. chain' = [chain EXCEPT ![r] = after]
  BY DEF CnEnd
<1> HIDE DEF items
<1>4. /\ after \in CnRunRows /\ after.attempts = chain[r].attempts /\ after.persisted = items /\ ~after.open
      /\ after.version = chain[r].version /\ after.prior = chain[r].prior /\ after.links = chain[r].links
      /\ after.carried = chain[r].carried
  BY <1>1, <1>2 DEF CnRunRows
<1> HIDE DEF after
<1>5. Len(after.persisted) <= Len(after.attempts)
  BY <1>1, <1>2, <1>4
<1> QED
  BY <1>3, <1>4, <1>5, CnChangedKept

LEMMA CnResumeKept == ASSUME CnInv, NEW r \in 1 .. Len(chain), CnResume(r) PROVE CnKept
<1> DEFINE after == [chain[r] EXCEPT !.open = TRUE, !.sessions = 2]
<1>1. chain[r] \in CnRunRows /\ DOMAIN chain = 1 .. Len(chain)
  BY CnTypes
<1>2. chain' = [chain EXCEPT ![r] = after] /\ ~ Followed(r)
  BY <1>1 DEF CnResume, Followed
<1>3. /\ after \in CnRunRows /\ after.attempts = chain[r].attempts /\ after.persisted = chain[r].persisted
      /\ after.version = chain[r].version /\ after.prior = chain[r].prior /\ after.links = chain[r].links
      /\ after.carried = chain[r].carried
  BY <1>1 DEF CnRunRows
<1> HIDE DEF after
<1>4. Len(after.persisted) <= Len(after.attempts)
  BY <1>3 DEF CnInv, CnRowsAgree
<1> QED
  BY <1>2, <1>3, <1>4, CnChangedKept

LEMMA CnResolveKept ==
    ASSUME CnInv, NEW r \in 1 .. Len(chain), NEW i \in 1 .. CnAttempts, CnResolve(r, i)
    PROVE  CnKept
<1> DEFINE run == chain[r]
           row == [run.attempts[i] EXCEPT !.state = "completed", !.item = "uploaded"]
           attempts == [run.attempts EXCEPT ![i] = row]
           after == [run EXCEPT !.attempts = attempts]
<1>1. /\ run \in CnRunRows /\ run.attempts \in Seq(CnAttemptRows) /\ DOMAIN run.attempts = 1 .. Len(run.attempts)
      /\ Len(run.attempts) \in Nat /\ \A k \in 1 .. Len(run.attempts) : run.attempts[k] \in CnAttemptRows
  BY CnTypes
<1>2. i \in 1 .. Len(run.attempts) /\ ~run.open
  BY <1>1 DEF CnResolve
<1>3. chain' = [chain EXCEPT ![r] = after]
  BY DEF CnResolve
<1>4. /\ row \in CnAttemptRows /\ row.trial = run.attempts[i].trial /\ row.result = run.attempts[i].result
      /\ row.state = "completed" /\ row.item = "uploaded"
  BY <1>1, <1>2 DEF CnAttemptRows
<1> HIDE DEF row
<1>5. /\ attempts \in Seq(CnAttemptRows) /\ Len(attempts) = Len(run.attempts) /\ attempts[i] = row
      /\ \A k \in 1 .. Len(run.attempts) : k # i => attempts[k] = run.attempts[k]
  BY <1>1, <1>2, <1>4
<1> HIDE DEF attempts
<1>6. /\ after \in CnRunRows /\ after.attempts = attempts /\ after.persisted = run.persisted /\ ~after.open
      /\ after.version = run.version /\ after.prior = run.prior /\ after.links = run.links
      /\ after.carried = run.carried
  BY <1>1, <1>2, <1>5 DEF CnRunRows
<1> HIDE DEF after
<1>7. Len(after.persisted) <= Len(after.attempts)
  BY <1>5, <1>6 DEF CnInv, CnRowsAgree
<1> QED
  BY <1>3, <1>4, <1>5, <1>6, <1>7, CnChangedKept

\* A result that may be linked was cut off by neither limit.
LEMMA CnNotCutOff ==
    ASSUME NEW prior \in CnVersions, NEW current \in CnVersions, TransitionAllowed(prior, current),
           NEW record \in CnRecords, Reusable(record, LegacyBoundary(prior, current))
    PROVE  record.calls < CnLimit[prior] /\ record.calls < CnLimit[current]
<1>1. /\ CnLimit[prior] \in 1 .. 99 /\ CnLimit[current] \in 1 .. 99
      /\ prior \in {2, 3} => CnLimit[prior] = 99
      /\ current \in {2, 3} => CnLimit[current] = 99
      /\ prior \in 1 .. 4
  BY CnAssumption DEF NoLimit
<1>2. record.calls \in 0 .. 3 /\ (record.calls = 0 \/ record.calls < LegacyBoundary(prior, current))
  BY DEF CnRecords, Reusable
<1>3. current \in {2, 3, 4} /\ (prior = current \/ prior \in {1, 2, 3})
  BY DEF TransitionAllowed
<1>4. OwnBoundary(current) = CnLimit[current]
  BY <1>1, <1>3 DEF OwnBoundary, NoLimit
<1>5. CASE prior = 1
  <2> DEFINE S == {CnLimit[1], CnLimit[current]}
  <2>1. Min(S) \in S /\ \A y \in S : Min(S) <= y
    <3>1. S \subseteq Nat /\ S # {}
      BY <1>1, <1>5
    <3> QED
      BY <3>1, LeastOf
  <2>2. LegacyBoundary(prior, current) = Min(S)
    BY <1>4, <1>5 DEF LegacyBoundary
  <2> HIDE DEF S
  <2>3. Min(S) <= CnLimit[1] /\ Min(S) <= CnLimit[current] /\ Min(S) \in Nat
    BY <2>1, <1>1, <1>5 DEF S
  <2> QED
    BY <1>1, <1>2, <1>5, <2>2, <2>3
<1>6. CASE prior # 1
  <2>1. LegacyBoundary(prior, current) = CnLimit[current]
    BY <1>4, <1>6 DEF LegacyBoundary
  <2> QED
    BY <1>1, <1>2, <1>3, <1>6, <2>1
<1> QED
  BY <1>5, <1>6

LEMMA CnContinued ==
    ASSUME CnInv, NEW r \in 1 .. Len(chain), NEW fromSpool \in BOOLEAN, NEW version \in CnVersions,
           Continuable(chain[r], fromSpool, version)
    PROVE  /\ \A i \in 1 .. Len(chain[r].attempts) :
                 /\ chain[r].attempts[i].state = "completed" /\ chain[r].attempts[i].item = "uploaded"
                 /\ \A j \in OfTrial(chain[r], chain[r].attempts[i].trial) : j = i
           /\ \A part \in CnParts :
                 CarriedCosts(r, fromSpool)[part] = chain[r].carried[part] \o Bills(r, 1 .. Len(chain[r].attempts))
<1>1. /\ DOMAIN chain[r].attempts = 1 .. Len(chain[r].attempts) /\ DOMAIN chain[r].persisted = 1 .. Len(chain[r].persisted)
      /\ Len(chain[r].attempts) \in Nat /\ Len(chain[r].persisted) \in Nat
      /\ Len(chain[r].persisted) <= Len(chain[r].attempts)
  BY CnTypes DEF CnInv, CnRowsAgree
<1>2. CompletedRows(chain[r]) = 1 .. Len(chain[r].attempts)
  BY <1>1 DEF Continuable
<1>3. \A i \in 1 .. Len(chain[r].attempts) : AttemptAgrees(chain[r], i, fromSpool)
  BY <1>2 DEF Continuable
<1>4. Retrieved(chain[r], fromSpool) = 1 .. Len(chain[r].attempts)
  <2>1. Retrieved(chain[r], fromSpool) \subseteq 1 .. Len(chain[r].attempts)
    BY <1>1 DEF Retrieved
  <2>2. 1 .. Len(chain[r].attempts) \subseteq Retrieved(chain[r], fromSpool)
    BY <1>3 DEF AttemptAgrees
  <2> QED
    BY <2>1, <2>2
<1>5. \A i \in 1 .. Len(chain[r].attempts) :
                 /\ chain[r].attempts[i].state = "completed" /\ chain[r].attempts[i].item = "uploaded"
                 /\ \A j \in OfTrial(chain[r], chain[r].attempts[i].trial) : j = i
  BY <1>2, <1>3 DEF CompletedRows, AttemptAgrees, CnInv, CnRowsAgree
<1>6. \A part \in CnParts :
         CarriedCosts(r, fromSpool)[part] = chain[r].carried[part] \o Bills(r, 1 .. Len(chain[r].attempts))
  <2> DEFINE all == Bills(r, 1 .. Len(chain[r].attempts))
             costs == chain[r].carried
  <2>1. CarriedCosts(r, fromSpool) = [provider |-> costs.provider \o all, vm |-> costs.vm \o all, blob |-> costs.blob \o all]
    BY <1>1, <1>2, <1>4 DEF CarriedCosts, ProviderBills
  <2> HIDE DEF all, costs
  <2>2. ASSUME NEW part \in CnParts PROVE CarriedCosts(r, fromSpool)[part] = costs[part] \o all
    <3>1. CASE part = "provider"
      BY <2>1, <3>1
    <3>2. CASE part = "vm"
      BY <2>1, <3>2
    <3>3. CASE part = "blob"
      BY <2>1, <3>3
    <3> QED
      BY <3>1, <3>2, <3>3 DEF CnParts
  <2> QED
    BY <2>2 DEF all, costs
<1> QED
  BY <1>5, <1>6

LEMMA CnRecordsTyped ==
    ASSUME CnInv, NEW r \in 1 .. Len(chain), NEW boundary
    PROVE  Linkable(r, boundary) \subseteq CnRecords /\ IsFiniteSet(Linkable(r, boundary))
<1> DEFINE own == {j \in CompletedRows(chain[r]) : Reusable(Linked(r, j), boundary) /\ VerificationKept(chain[r], j)}
           made == {Linked(r, i) : i \in own}
           old == {record \in chain[r].links : Reusable(record, boundary)}
<1>1. /\ chain[r] \in CnRunRows /\ DOMAIN chain[r].attempts = 1 .. Len(chain[r].attempts) /\ Len(chain[r].attempts) \in Nat
      /\ \A i \in 1 .. Len(chain[r].attempts) : chain[r].attempts[i] \in CnAttemptRows
      /\ r \in Nat /\ IsFiniteSet(chain[r].links)
  BY CnTypes DEF CnInv, CnRowsAgree
<1>2. old \subseteq chain[r].links /\ chain[r].links \subseteq CnRecords
  BY <1>1 DEF CnRunRows
<1>3. own \subseteq 1 .. Len(chain[r].attempts)
  BY <1>1 DEF CompletedRows
<1>4. made \subseteq CnRecords
  <2> SUFFICES ASSUME NEW i \in own PROVE Linked(r, i) \in CnRecords
    OBVIOUS
  <2>1. chain[r].attempts[i] \in CnAttemptRows /\ i \in Nat
    BY <1>1, <1>3
  <2> HIDE DEF own
  <2> QED
    BY <2>1, <1>1 DEF Linked, CnRecords, CnAttemptRows, CnBills
<1>5. IsFiniteSet(own)
  <2>1. \A n \in Nat : IsFiniteSet(1 .. n)
    BY FS_Interval
  <2>2. IsFiniteSet(1 .. Len(chain[r].attempts))
    BY <1>1, <2>1
  <2> QED
    BY <1>3, <2>2, FS_Subset
<1> HIDE DEF own
<1>6. IsFiniteSet(made)
  <2>1. [i \in own |-> Linked(r, i)] \in Surjection(own, made)
    BY DEF Surjection
  <2> QED
    BY <1>5, <2>1, FS_Surjection
<1>7. IsFiniteSet(old)
  BY <1>1, <1>2, FS_Subset
<1> HIDE DEF made, old
<1>8. Linkable(r, boundary) = old \cup made
  BY DEF Linkable, old, made, own
<1> QED
  BY <1>2, <1>4, <1>6, <1>7, <1>8, FS_Union

LEMMA CnContinueSound ==
    ASSUME CnInv, NEW r \in 1 .. Len(chain), NEW fromSpool \in BOOLEAN, NEW version \in CnVersions,
           CnContinue(r, fromSpool, version)
    PROVE  CnInv'
<1> DEFINE records == Linkable(r, LegacyBoundary(chain[r].version, version))
           costs == CarriedCosts(r, fromSpool)
           fresh == StartedRun(version, r, records, costs)
           n == Len(chain) + 1
<1>1. /\ chain' = Append(chain, fresh) /\ \A q \in DOMAIN chain : ~chain[q].open
      /\ Continuable(chain[r], fromSpool, version)
  BY DEF CnContinue
<1>2. /\ Len(chain) \in Nat /\ DOMAIN chain = 1 .. Len(chain) /\ chain \in Seq(CnRunRows)
      /\ CnOrdered(chain)
  BY CnTypes DEF CnInv, CnTypeOK, CnOrder, CnOrdered
<1>3. records \subseteq CnRecords /\ IsFiniteSet(records)
  BY CnRecordsTyped
<1>4. /\ \A i \in 1 .. Len(chain[r].attempts) :
            /\ chain[r].attempts[i].state = "completed" /\ chain[r].attempts[i].item = "uploaded"
            /\ \A j \in OfTrial(chain[r], chain[r].attempts[i].trial) : j = i
      /\ \A part \in CnParts : costs[part] = chain[r].carried[part] \o Bills(r, 1 .. Len(chain[r].attempts))
  BY <1>1, CnContinued
<1>5. \A part \in CnParts :
         costs[part] \in Seq(CnBills) /\ IsInjective(costs[part]) /\ ToSet(costs[part]) = BillsOf(Ancestors(chain)[r])
  BY <1>4, CnBilled
<1>6. costs \in CnCosts
  <2>1. costs = [provider |-> costs.provider, vm |-> costs.vm, blob |-> costs.blob]
    BY DEF CarriedCosts
  <2> HIDE DEF costs
  <2> QED
    BY <1>5, <2>1 DEF CnCosts, CnParts
<1>7. /\ fresh.version = version /\ fresh.prior = r /\ fresh.links = records /\ fresh.carried = costs
      /\ fresh.attempts = <<>> /\ fresh.persisted = <<>>
  BY DEF StartedRun
<1>8. fresh \in CnRunRows
  <2>1. Cardinality(records) \in Nat
    BY <1>3, FS_CardinalityType
  <2>2. r \in Nat
    OBVIOUS
  <2> HIDE DEF records, costs
  <2> QED
    BY <1>3, <1>6, <2>1, <2>2 DEF StartedRun, CnRunRows
<1> HIDE DEF fresh, costs
<1>9. /\ chain' \in Seq(CnRunRows) /\ Len(chain') = n /\ chain'[n] = fresh
      /\ \A q \in 1 .. Len(chain) : chain'[q] = chain[q]
      /\ \A q \in 1 .. n : q \in 1 .. Len(chain) \/ q = n
      /\ n \notin 1 .. Len(chain) /\ n \in 1 .. n
  BY <1>1, <1>2, <1>8
<1>10. CnOrdered(chain')
  <2>1. \A q \in 1 .. Len(chain) : chain'[q].prior \in 0 .. q - 1
    BY <1>2, <1>9 DEF CnOrdered
  <2>2. chain'[n].prior \in 0 .. n - 1
    BY <1>2, <1>7, <1>9
  <2> QED
    BY <1>2, <1>9, <2>1, <2>2 DEF CnOrdered
<1>11. \A x \in 0 .. Len(chain) : Ancestors(chain')[x] = Ancestors(chain)[x]
  <2> TAKE x \in 0 .. Len(chain)
  <2>1. Len(chain) <= Len(chain') /\ \A q \in 1 .. Len(chain) : chain'[q].prior = chain[q].prior
    BY <1>2, <1>9
  <2> QED
    BY <1>2, <1>10, <2>1, CnBehindKept
<1>12. \A q \in 1 .. Len(chain) : chain[q].prior \in 0 .. Len(chain) /\ chain[q].prior \in 0 .. q - 1
  BY <1>2 DEF CnOrdered
<1>13. \A x \in 0 .. Len(chain) : Ancestors(chain)[x] \subseteq 1 .. Len(chain)
  <2> TAKE x \in 0 .. Len(chain)
  <2>1. Ancestors(chain)[x] \subseteq 1 .. x
    BY <1>2, CnBehindBefore
  <2> QED
    BY <1>2, <2>1
<1>14. CnTypeOK' /\ CnOrder'
  BY <1>9, <1>10 DEF CnTypeOK, CnOrder, CnOrdered
<1>15. CnFrozen'
  <2> SUFFICES ASSUME NEW a \in 1 .. n, NEW q \in 1 .. n, chain'[q].prior = a
               PROVE  /\ ~chain'[a].open
                      /\ \A i \in 1 .. Len(chain'[a].attempts) : chain'[a].attempts[i].state = "completed"
    BY <1>9 DEF CnFrozen, Followed
  <2>1. CASE q = n
    <3>1. a = r
      BY <2>1, <1>7, <1>9
    <3> QED
      BY <3>1, <1>1, <1>2, <1>4, <1>9
  <2>2. CASE q \in 1 .. Len(chain)
    <3>1. a \in 1 .. Len(chain) /\ chain[q].prior = a
      BY <2>2, <1>9, <1>12, <1>2
    <3>2. Followed(a)
      BY <2>2, <3>1 DEF Followed
    <3> QED
      BY <3>1, <3>2, <1>9 DEF CnInv, CnFrozen
  <2> QED
    BY <2>1, <2>2, <1>9
<1>16. CnRowsAgree'
  <2>1. Len(fresh.attempts) = 0 /\ Len(fresh.persisted) = 0 /\ \A i \in 1 .. Len(fresh.attempts) : FALSE
    BY <1>7
  <2>2. SUFFICES ASSUME NEW x \in 1 .. n
        PROVE  /\ IsFiniteSet(chain'[x].links) /\ Len(chain'[x].persisted) <= Len(chain'[x].attempts)
               /\ \A i \in 1 .. Len(chain'[x].attempts) :
                     chain'[x].attempts[i].state = "completed" => chain'[x].attempts[i].item = "uploaded"
    BY <1>9 DEF CnRowsAgree
  <2>3. CASE x = n
    <3>1. chain'[x] = fresh
      BY <2>3, <1>9
    <3> HIDE DEF records, n
    <3> QED
      BY <3>1, <2>1, <1>3, <1>7
  <2>4. CASE x \in 1 .. Len(chain)
    <3>1. chain'[x] = chain[x]
      BY <2>4, <1>9
    <3> QED
      BY <2>4, <3>1 DEF CnInv, CnRowsAgree
  <2> QED
    BY <2>3, <2>4, <1>9
<1>17. \A some \in SUBSET (1 .. Len(chain)) :
           UNION {{<<q, i>> : i \in DOMAIN chain'[q].attempts} : q \in some} = BillsOf(some)
  BY <1>9 DEF BillsOf
<1>18. CnCarries'
  <2>1. SUFFICES ASSUME NEW x \in 1 .. n, NEW part \in CnParts
        PROVE  /\ IsInjective(chain'[x].carried[part])
               /\ ToSet(chain'[x].carried[part])
                     = UNION {{<<q, i>> : i \in DOMAIN chain'[q].attempts} : q \in Ancestors(chain')[chain'[x].prior]}
    BY <1>9 DEF CnCarries, BillsOf
  <2>2. CASE x \in 1 .. Len(chain)
    <3>1. IsInjective(chain[x].carried[part]) /\ ToSet(chain[x].carried[part]) = BillsOf(Ancestors(chain)[chain[x].prior])
      BY <2>2 DEF CnInv, CnCarries
    <3>2. Ancestors(chain')[chain'[x].prior] = Ancestors(chain)[chain[x].prior]
      BY <2>2, <1>9, <1>11, <1>12
    <3>3. Ancestors(chain)[chain[x].prior] \in SUBSET (1 .. Len(chain))
      BY <2>2, <1>12, <1>13
    <3>4. chain'[x] = chain[x]
      BY <2>2, <1>9
    <3> QED
      BY <3>1, <3>2, <3>3, <3>4, <1>17
  <2>3. CASE x = n
    <3>1. Ancestors(chain')[chain'[x].prior] = Ancestors(chain)[r]
      BY <2>3, <1>2, <1>7, <1>9, <1>11
    <3>2. Ancestors(chain)[r] \in SUBSET (1 .. Len(chain))
      BY <1>2, <1>13
    <3>3. chain'[x].carried[part] = costs[part]
      BY <2>3, <1>7, <1>9
    <3> QED
      BY <3>1, <3>2, <3>3, <1>5, <1>17
  <2> QED
    BY <2>2, <2>3, <1>9
<1>19. ASSUME NEW x \in 1 .. Len(chain), NEW record \in chain[x].links
       PROVE  CnLinkSound(chain[x], record) /\ record.bill[1] \in 1 .. Len(chain)
              /\ Ancestors(chain')[chain[x].prior] = Ancestors(chain)[chain[x].prior]
  <2>1. CnLinkSound(chain[x], record)
    BY DEF CnInv, CnLinksSound
  <2>2. record.bill[1] \in Ancestors(chain)[chain[x].prior]
    BY <2>1 DEF CnLinkSound
  <2> QED
    BY <2>1, <2>2, <1>11, <1>12, <1>13
<1>20. ASSUME NEW record \in records
       PROVE  \/ record \in chain[r].links
              \/ \E j \in 1 .. Len(chain[r].attempts) : record = Linked(r, j)
  <2>1. DOMAIN chain[r].attempts = 1 .. Len(chain[r].attempts)
    BY CnTypes
  <2> QED
    BY <2>1 DEF Linkable, CompletedRows
<1>21. ASSUME NEW record \in records
       PROVE  record \in CnRecords /\ record.calls < CnLimit[chain[r].version] /\ record.calls < CnLimit[version]
  <2>1. Reusable(record, LegacyBoundary(chain[r].version, version))
    BY DEF Linkable
  <2>2. TransitionAllowed(chain[r].version, version)
    BY <1>1 DEF Continuable
  <2>3. chain[r].version \in CnVersions
    <3>1. chain[r] \in CnRunRows
      BY <1>2
    <3> QED
      BY <3>1 DEF CnRunRows
  <2>4. record \in CnRecords
    BY <1>3
  <2> HIDE DEF records
  <2> QED
    BY <2>1, <2>2, <2>3, <2>4, CnNotCutOff
<1>23. Ancestors(chain)[r] = {r} \cup Ancestors(chain)[chain[r].prior]
  BY <1>2, CnBehind
<1>24. DOMAIN chain[r].attempts = 1 .. Len(chain[r].attempts) /\ Len(chain[r].attempts) \in Nat
  BY CnTypes
<1>25. ASSUME NEW x, x = n, NEW record \in records
       PROVE  CnLinkSound(chain[x], record)'
  <2>1. /\ chain'[x] = fresh /\ Ancestors(chain')[chain'[x].prior] = Ancestors(chain)[r]
    BY <1>25, <1>2, <1>7, <1>9, <1>11
  <2>2. OfTrial(chain'[x], record.trial) = {}
    BY <2>1, <1>7 DEF OfTrial
  <2>3. record.calls < CnLimit[version] /\ record.calls < CnLimit[chain[r].version]
    BY <1>21
  <2>4. chain'[x].version = version
    BY <2>1, <1>7
  <2>5. CASE record \in chain[r].links
    <3>1. CnLinkSound(chain[r], record) /\ record.bill[1] \in 1 .. Len(chain)
      BY <2>5, <1>19
    <3>2. chain'[record.bill[1]] = chain[record.bill[1]]
      BY <3>1, <1>9
    <3>3. record.bill[1] \in Ancestors(chain)[r]
      BY <3>1, <1>23 DEF CnLinkSound
    <3> QED
      BY <2>1, <2>2, <2>3, <2>4, <3>1, <3>2, <3>3 DEF CnLinkSound
  <2>6. CASE \E j \in 1 .. Len(chain[r].attempts) : record = Linked(r, j)
    <3>1. PICK j \in 1 .. Len(chain[r].attempts) : record = Linked(r, j)
      BY <2>6
    <3>2. /\ record.bill[1] = r /\ record.bill[2] = j /\ record.trial = chain[r].attempts[j].trial
          /\ record.result = chain[r].attempts[j].result
      BY <3>1 DEF Linked
    <3>3. chain'[r] = chain[r] /\ r \in Ancestors(chain)[r]
      BY <1>9, <1>23
    <3>4. chain[r].attempts[j].state = "completed" /\ chain[r].attempts[j].item = "uploaded"
      BY <1>4
    <3> QED
      BY <2>1, <2>2, <2>3, <2>4, <3>2, <3>3, <3>4 DEF CnLinkSound
  <2> QED
    BY <2>5, <2>6, <1>20
<1>26. ASSUME NEW a \in chain[r].links, NEW j \in 1 .. Len(chain[r].attempts), chain[r].attempts[j].trial = a.trial
       PROVE  FALSE
  <2>1. OfTrial(chain[r], a.trial) = {}
    BY <1>19 DEF CnLinkSound
  <2> QED
    BY <1>24, <1>26, <2>1 DEF OfTrial
<1>27. ASSUME NEW a \in records, NEW b \in records, a.trial = b.trial
       PROVE  a = b
  <2>1. CASE a \in chain[r].links /\ b \in chain[r].links
    BY <2>1, <1>27 DEF CnInv, CnLinksSound
  <2>2. ASSUME NEW j \in 1 .. Len(chain[r].attempts), a = Linked(r, j) PROVE a = b
    <3>1. a.trial = chain[r].attempts[j].trial
      BY <2>2 DEF Linked
    <3>2. b \notin chain[r].links
      BY <3>1, <1>26, <1>27
    <3>3. PICK k \in 1 .. Len(chain[r].attempts) : b = Linked(r, k)
      BY <3>2, <1>20
    <3>4. b.trial = chain[r].attempts[k].trial
      BY <3>3 DEF Linked
    <3>5. k \in OfTrial(chain[r], chain[r].attempts[j].trial)
      BY <3>1, <3>4, <1>24, <1>27 DEF OfTrial
    <3> QED
      BY <2>2, <3>3, <3>5, <1>4
  <2>3. ASSUME NEW j \in 1 .. Len(chain[r].attempts), b = Linked(r, j), a \in chain[r].links PROVE FALSE
    <3>1. b.trial = chain[r].attempts[j].trial
      BY <2>3 DEF Linked
    <3> QED
      BY <3>1, <2>3, <1>26, <1>27
  <2> QED
    BY <2>1, <2>2, <2>3, <1>20
<1>22. CnLinksSound'
  <2>1. SUFFICES ASSUME NEW x \in 1 .. n
        PROVE  /\ \A a, b \in chain'[x].links : a.trial = b.trial => a = b
               /\ \A record \in chain'[x].links : CnLinkSound(chain[x], record)'
    BY <1>9 DEF CnLinksSound
  <2>2. CASE x \in 1 .. Len(chain)
    <3>1. chain'[x] = chain[x] /\ \A a, b \in chain[x].links : a.trial = b.trial => a = b
      BY <2>2, <1>9 DEF CnInv, CnLinksSound
    <3>2. ASSUME NEW record \in chain[x].links
          PROVE  CnLinkSound(chain[x], record)'
      <4>1. /\ CnLinkSound(chain[x], record) /\ record.bill[1] \in 1 .. Len(chain)
            /\ Ancestors(chain')[chain[x].prior] = Ancestors(chain)[chain[x].prior]
        BY <2>2, <3>2, <1>19
      <4>2. chain'[record.bill[1]] = chain[record.bill[1]]
        BY <4>1, <1>9
      <4> QED
        BY <4>1, <4>2, <3>1 DEF CnLinkSound
    <3> QED
      BY <3>1, <3>2
  <2>3. CASE x = n
    <3>1. chain'[x] = fresh /\ chain'[x].links = records
      BY <2>3, <1>7, <1>9
    <3>2. \A record \in records : CnLinkSound(chain[x], record)'
      BY <2>3, <1>25
    <3> QED
      BY <3>1, <3>2, <1>27
  <2> QED
    BY <2>2, <2>3, <1>9
<1> QED
  BY <1>14, <1>15, <1>16, <1>18, <1>22 DEF CnInv

LEMMA CnStep == CnInv /\ [CnNext]_cnVars => CnInv'
<1> SUFFICES ASSUME CnInv, [CnNext]_cnVars PROVE CnInv'
  OBVIOUS
<1>1. CASE UNCHANGED cnVars
  <2>1. chain' = chain
    BY <1>1 DEF cnVars
  <2>2. CnTypeOK' /\ CnOrder' /\ CnRowsAgree'
    BY <2>1 DEF CnInv, CnTypeOK, CnOrder, CnRowsAgree
  <2>3. CnFrozen'
    BY <2>1 DEF CnInv, CnFrozen, Followed
  <2>4. CnCarries'
    BY <2>1 DEF CnInv, CnCarries, BillsOf
  <2>5. CnLinksSound'
    <3>1. Ancestors(chain)' = Ancestors(chain) /\ \A r : chain[r]' = chain[r]
      BY <2>1
    <3>2. \A r, record : CnLinkSound(chain[r], record)' <=> CnLinkSound(chain[r], record)
      BY <3>1, <2>1 DEF CnLinkSound
    <3> QED
      BY <3>2, <2>1 DEF CnInv, CnLinksSound
  <2> QED
    BY <2>2, <2>3, <2>4, <2>5 DEF CnInv
<1>2. CASE CnNext
  <2>1. PICK r \in DOMAIN chain :
           \/ \E t \in CnTrials, outcome \in CnOutcomes(chain[r].version), how \in {"verified", "incomplete", "batch_failed"} :
                 CnExecute(r, t, outcome, how)
           \/ CnEnd(r) \/ CnResume(r)
           \/ \E i \in 1 .. CnAttempts : CnResolve(r, i)
           \/ \E fromSpool \in BOOLEAN, version \in CnVersions : CnContinue(r, fromSpool, version)
    BY <1>2 DEF CnNext
  <2>2. r \in 1 .. Len(chain)
    BY DEF CnInv, CnTypeOK
  <2>3. CASE \E t \in CnTrials, outcome \in CnOutcomes(chain[r].version), how \in {"verified", "incomplete", "batch_failed"} :
                CnExecute(r, t, outcome, how)
    BY <2>2, <2>3, CnExecuteKept, CnKeptSound
  <2>4. CASE CnEnd(r)
    BY <2>2, <2>4, CnEndKept, CnKeptSound
  <2>5. CASE CnResume(r)
    BY <2>2, <2>5, CnResumeKept, CnKeptSound
  <2>6. CASE \E i \in 1 .. CnAttempts : CnResolve(r, i)
    BY <2>2, <2>6, CnResolveKept, CnKeptSound
  <2>7. CASE \E fromSpool \in BOOLEAN, version \in CnVersions : CnContinue(r, fromSpool, version)
    BY <2>2, <2>7, CnContinueSound
  <2> QED
    BY <2>1, <2>3, <2>4, <2>5, <2>6, <2>7
<1> QED
  BY <1>1, <1>2

LEMMA CnGivesCarriedOnce == CnInv => CnCarriedOnce
<1> SUFFICES ASSUME CnInv PROVE CnCarriedOnce
  OBVIOUS
<1>1. DOMAIN chain = 1 .. Len(chain)
  BY DEF CnInv, CnTypeOK
<1>2. ASSUME NEW r \in 1 .. Len(chain), NEW part \in CnParts
      PROVE  /\ IsInjective(chain[r].carried[part])
             /\ ToSet(Reported(chain[r], r)[part]) = BillsOf(Ancestors(chain)[r])
             /\ IsInjective(Reported(chain[r], r)[part])
  <2> DEFINE all == chain[r].carried[part] \o Bills(r, 1 .. Len(chain[r].attempts))
  <2>1. Reported(chain[r], r)[part] = all
    <3>1. DOMAIN chain[r].attempts = 1 .. Len(chain[r].attempts)
      BY CnTypes
    <3>2. CASE part = "provider"
      BY <3>1, <3>2 DEF Reported
    <3>3. CASE part = "vm"
      BY <3>1, <3>3 DEF Reported
    <3>4. CASE part = "blob"
      BY <3>1, <3>4 DEF Reported
    <3> QED
      BY <3>2, <3>3, <3>4 DEF CnParts
  <2>2. IsInjective(all) /\ ToSet(all) = BillsOf(Ancestors(chain)[r])
    BY CnBilled
  <2> HIDE DEF all
  <2> QED
    BY <2>1, <2>2 DEF CnInv, CnCarries
<1>3. ASSUME NEW r \in 1 .. Len(chain)
      PROVE  /\ \A a, b \in chain[r].links : a.trial = b.trial => a = b
             /\ \A record \in chain[r].links : CnLinkSound(chain[r], record)
  BY DEF CnInv, CnLinksSound
<1> QED
  BY <1>1, <1>2, <1>3 DEF CnCarriedOnce, CnParts, CnLinkSound

\* However runs follow each other, are resumed, interrupted or settled by hand:
\* a run reports each cost of itself and of the runs behind it exactly once,
\* in each of the three parts, links a trial once and runs none of the linked
\* again, and rests on no result that a limit can have cut off
\* (_prepare_continuation, _continuation_state_costs, link_continuation).
THEOREM CnAlwaysCarriedOnce == CnSpec => []CnCarriedOnce
<1>1. CnInit => CnInv
  BY CnStarts
<1>2. CnInv /\ [CnNext]_cnVars => CnInv'
  BY CnStep
<1>3. CnInv => CnCarriedOnce
  BY CnGivesCarriedOnce
<1> QED
  BY <1>1, <1>2, <1>3, PTL DEF CnSpec

-----------------------------------------------------------------------------
(* VmCost: what attempts are charged for the machine                       *)

\* Shares are whole.
LEMMA ShareIsWhole ==
    ASSUME NEW x \in Nat, NEW k \in Nat, k > 0, x % k = 0, NEW d \in Nat
    PROVE  /\ x \div k \in Nat /\ k * (x \div k) = x
           /\ (d * x) \div k = d * (x \div k)
<1>1. PICK y \in Nat : x = k * y
  <2>1. x \div k \in Nat /\ x = k * (x \div k)
    OBVIOUS
  <2> QED
    BY <2>1
<1>2. \A b \in Nat : (b * k) \div k = b
  OBVIOUS
<1>3. (y * k) \div k = y /\ y * k = x
  BY <1>1, <1>2
<1>4. d * y \in Nat /\ (d * y) * k = d * x
  BY <1>1
<1>5. ((d * y) * k) \div k = d * y
  BY <1>2, <1>4
<1> QED
  BY <1>1, <1>3, <1>4, <1>5

-----------------------------------------------------------------------------
(* The division                                                            *)

\* The function that Shares defines by recursion on the sets of points.
IsSweep(it, points) ==
    it = [s \in SUBSET points |-> IF s = {} THEN Nothing ELSE Divide(it[s \ {LatestPoint(s)}], LatestPoint(s))]

PointsUpTo(n) == [at : 0 .. n, direction : {-1, 1}, attempt : VmAttempts]

\* Among points there is a latest one.
LEMMA LatestIsLatest ==
    ASSUME NEW n \in Nat, NEW s, s \subseteq PointsUpTo(n), s # {}
    PROVE  LatestPoint(s) \in s /\ \A q \in s : ~InOrder(LatestPoint(s), q)
<1> DEFINE key(p) == 2 * p.at + (IF p.direction = 1 THEN 1 ELSE 0)
           K == {key(p) : p \in s}
<1>1. \A p \in s : p.at \in 0 .. n /\ p.direction \in {-1, 1}
  BY DEF PointsUpTo
<1>2. \A p \in s : key(p) \in 0 .. 2 * n + 1
  BY <1>1
<1>3. K # {} /\ K \subseteq 0 .. 2 * n + 1
  BY <1>2
<1>4. Max(K) \in K /\ \A y \in K : y <= Max(K)
  <2>1. 2 * n + 1 \in Nat
    OBVIOUS
  <2> HIDE DEF K
  <2> QED
    BY <1>3, <2>1, GreatestOf
<1>5. PICK p \in s : Max(K) = key(p)
  BY <1>4
<1>6. \A q \in s : key(q) <= key(p)
  BY <1>4, <1>5
<1>7. \A q \in s : ~InOrder(p, q)
  BY <1>1, <1>6 DEF InOrder
<1> QED
  BY <1>7 DEF LatestPoint

LEMMA SweepUnfolds ==
    ASSUME NEW P, NEW it, IsSweep(it, P), NEW s \in SUBSET P
    PROVE  it[s] = IF s = {} THEN Nothing ELSE Divide(it[s \ {LatestPoint(s)}], LatestPoint(s))
BY DEF IsSweep

\* Two such functions agree where both are defined.
LEMMA SweepsAgree ==
    ASSUME NEW n \in Nat, NEW P, P \subseteq PointsUpTo(n), IsFiniteSet(P), NEW T \in SUBSET P, NEW a, NEW b,
           IsSweep(a, P), IsSweep(b, T)
    PROVE  a[T] = b[T]
<1> DEFINE Bad == {U \in SUBSET T : a[U] # b[U]}
<1>1. SUFFICES ASSUME Bad # {} PROVE FALSE
  OBVIOUS
<1>2. IsFiniteSet(T) /\ Bad \subseteq SUBSET T
  BY FS_Subset
<1>3. PICK U \in Bad : \A V \in SUBSET U : V # U => V \notin Bad
  <2> HIDE DEF Bad
  <2>1. \E U \in Bad : IsFiniteSet(U) /\ \A V \in SUBSET U : V # U => V \notin Bad
    BY <1>1, <1>2, SmallestSubset
  <2> QED
    BY <2>1
<1>4. U \in SUBSET T /\ U \in SUBSET P
  OBVIOUS
<1>5. a[U] = (IF U = {} THEN Nothing ELSE Divide(a[U \ {LatestPoint(U)}], LatestPoint(U)))
  BY <1>4, SweepUnfolds
<1>6. b[U] = (IF U = {} THEN Nothing ELSE Divide(b[U \ {LatestPoint(U)}], LatestPoint(U)))
  BY <1>4, SweepUnfolds
<1>7. CASE U = {}
  BY <1>5, <1>6, <1>7
<1>8. CASE U # {}
  <2>1. LatestPoint(U) \in U
    <3>1. U \subseteq PointsUpTo(n)
      BY <1>4
    <3> QED
      BY <1>8, <3>1, LatestIsLatest
  <2>2. U \ {LatestPoint(U)} \in SUBSET U /\ U \ {LatestPoint(U)} # U /\ U \ {LatestPoint(U)} \in SUBSET T
    BY <2>1
  <2>3. a[U \ {LatestPoint(U)}] = b[U \ {LatestPoint(U)}]
    BY <1>3, <2>2
  <2> QED
    BY <1>5, <1>6, <1>8, <2>3
<1> QED
  BY <1>7, <1>8

\* There is such a function.
LEMMA SweepExists ==
    ASSUME NEW n \in Nat, NEW P, P \subseteq PointsUpTo(n), IsFiniteSet(P)
    PROVE  \E it : IsSweep(it, P)
<1> DEFINE Bad == {U \in SUBSET P : ~ \E it : IsSweep(it, U)}
<1>1. SUFFICES ASSUME Bad # {} PROVE FALSE
  OBVIOUS
<1>2. PICK T \in Bad : IsFiniteSet(T) /\ \A V \in SUBSET T : V # T => V \notin Bad
  <2>1. Bad \subseteq SUBSET P
    OBVIOUS
  <2> HIDE DEF Bad
  <2> QED
    BY <1>1, <2>1, SmallestSubset
<1>3. T \in SUBSET P /\ ~ \E it : IsSweep(it, T)
  OBVIOUS
<1> HIDE DEF Bad
<1> DEFINE G(U) == CHOOSE it : IsSweep(it, U)
           D(s) == s \ {LatestPoint(s)}
           g == [s \in SUBSET T |-> IF s = {} THEN Nothing ELSE Divide(G(D(s))[D(s)], LatestPoint(s))]
<1>4. \A V \in SUBSET T : V # T => IsSweep(G(V), V)
  <2> SUFFICES ASSUME NEW V \in SUBSET T, V # T PROVE IsSweep(G(V), V)
    OBVIOUS
  <2>1. \E it : IsSweep(it, V)
    BY <1>2, <1>3 DEF Bad
  <2> QED
    BY <2>1
<1> HIDE DEF G
<1>5. ASSUME NEW s \in SUBSET T, s # {}
      PROVE  D(s) \in SUBSET T /\ D(s) \in SUBSET s /\ D(s) # s /\ D(s) # T
  <2>1. LatestPoint(s) \in s
    <3>1. s \subseteq PointsUpTo(n)
      BY <1>3
    <3> QED
      BY <1>5, <3>1, LatestIsLatest
  <2> QED
    BY <2>1
<1>6. ASSUME NEW V \in SUBSET T, V # T
      PROVE  g[V] = G(V)[V]
  <2>1. IsSweep(G(V), V)
    BY <1>4, <1>6
  <2>2. G(V)[V] = IF V = {} THEN Nothing ELSE Divide(G(V)[D(V)], LatestPoint(V))
    BY <2>1, SweepUnfolds
  <2>3. ASSUME V # {}
        PROVE  G(V)[D(V)] = G(D(V))[D(V)]
    <3>1. IsFiniteSet(V) /\ D(V) \in SUBSET V /\ IsSweep(G(D(V)), D(V)) /\ V \subseteq PointsUpTo(n)
      BY <1>2, <1>3, <1>4, <1>5, <2>3, FS_Subset
    <3> HIDE DEF D
    <3> QED
      BY <2>1, <3>1, SweepsAgree
  <2> QED
    BY <2>2, <2>3
<1>7. ASSUME NEW s \in SUBSET T, s # {}
      PROVE  g[D(s)] = G(D(s))[D(s)]
  BY <1>5, <1>6, <1>7
<1>8. g = [s \in SUBSET T |-> IF s = {} THEN Nothing ELSE Divide(g[s \ {LatestPoint(s)}], LatestPoint(s))]
  BY <1>7
<1>9. IsSweep(g, T)
  <2> HIDE DEF g
  <2> QED
    BY <1>8 DEF IsSweep
<1> QED
  BY <1>3, <1>9

\* Shares is the value of such a function at all the points.
LEMMA SharesAreSwept ==
    ASSUME NEW n \in Nat, NEW J, Points(J) \subseteq PointsUpTo(n), IsFiniteSet(Points(J))
    PROVE  \E it : IsSweep(it, Points(J)) /\ Shares(J) = it[Points(J)].shares
<1> DEFINE P == Points(J)
           c == CHOOSE it : it = [s \in SUBSET P |-> IF s = {} THEN Nothing
                                     ELSE LET x == LatestPoint(s) IN Divide(it[s \ {x}], x)]
<1>1. Shares(J) = c[P].shares
  BY DEF Shares, MapThenFoldSet
<1> HIDE DEF P
<1>2. \E it : IsSweep(it, P)
  BY SweepExists DEF P
<1>3. \E it : it = [s \in SUBSET P |-> IF s = {} THEN Nothing
                                     ELSE LET x == LatestPoint(s) IN Divide(it[s \ {x}], x)]
  BY <1>2 DEF IsSweep
<1>4. IsSweep(c, P)
  BY <1>3 DEF IsSweep
<1> HIDE DEF c
<1> QED
  BY <1>1, <1>4 DEF P

\* What the fold is about: intervals of different attempts, within 0 .. n, of
\* which no more are active at a time than there are threads.
SP(i) == [at |-> i.start, direction |-> 1, attempt |-> i.attempt]
FP(i) == [at |-> i.finish, direction |-> -1, attempt |-> i.attempt]
Proper(J) == {i \in J : i.finish > i.start}
ActiveIn(J, t) == {i.attempt : i \in {j \in J : j.start <= t /\ t < j.finish}}
Part(k) == IF k = 0 THEN 0 ELSE VmSecond \div k
PartsIn(J) == [t \in Nat |-> Part(Cardinality(ActiveIn(J, t)))]
SpanIn(J, n, b) == {t \in 0 .. n : b \in ActiveIn(J, t)}

Sound(J, n) ==
    /\ \A i \in J : i.attempt \in VmAttempts /\ i.start \in 0 .. n /\ i.finish \in 0 .. n
    /\ \A i, j \in J : i.attempt = j.attempt => i = j
    /\ \A t \in 0 .. n : Cardinality(ActiveIn(J, t)) <= VmConcurrency

LEMMA PointsAre ==
    ASSUME NEW n \in Nat, NEW J, Sound(J, n)
    PROVE  /\ Points(J) \subseteq PointsUpTo(n) /\ IsFiniteSet(Points(J))
           /\ \A i \in Proper(J) : SP(i) \in Points(J) /\ FP(i) \in Points(J)
           /\ \A p \in Points(J) : \E i \in Proper(J) : p = SP(i) \/ p = FP(i)
<1>1. \A i \in Proper(J) : SP(i) \in PointsUpTo(n) /\ FP(i) \in PointsUpTo(n)
  BY DEF Proper, SP, FP, PointsUpTo, Sound
<1>2. Points(J) = UNION {{SP(i), FP(i)} : i \in Proper(J)}
  BY DEF Points, SP, FP, Proper
<1>3. \A i \in Proper(J) : SP(i) \in Points(J) /\ FP(i) \in Points(J)
  BY <1>2
<1>4. \A p \in Points(J) : \E i \in Proper(J) : p = SP(i) \/ p = FP(i)
  BY <1>2
<1>5. Points(J) \subseteq PointsUpTo(n)
  BY <1>1, <1>4
<1>6. IsFiniteSet(PointsUpTo(n))
  <2> DEFINE R == PointsUpTo(n)
             T == ((0 .. n) \X {-1, 1}) \X VmAttempts
             f == [p \in R |-> <<<<p.at, p.direction>>, p.attempt>>]
  <2>1. IsFiniteSet(T)
    <3>1. IsFiniteSet(0 .. n) /\ IsFiniteSet({-1, 1})
      <4>1. IsFiniteSet(0 .. n)
        BY FS_Interval
      <4>2. IsFiniteSet({1})
        BY FS_Singleton
      <4>3. IsFiniteSet({1} \cup {-1})
        BY <4>2, FS_AddElement
      <4>4. {1} \cup {-1} = {-1, 1}
        OBVIOUS
      <4> QED
        BY <4>1, <4>3, <4>4
    <3>2. IsFiniteSet((0 .. n) \X {-1, 1})
      BY <3>1, FS_Product
    <3> QED
      BY <3>2, FS_Product, VmAssumption
  <2>2. f \in Injection(R, T)
    <3>1. f \in [R -> T]
      BY DEF PointsUpTo
    <3>2. ASSUME NEW p \in R, NEW q \in R, f[p] = f[q]
          PROVE  p = q
      <4>1. p.at = q.at /\ p.direction = q.direction /\ p.attempt = q.attempt
        BY <3>2
      <4> QED
        BY <4>1 DEF PointsUpTo
    <3> QED
      BY <3>1, <3>2 DEF Injection, IsInjective
  <2> HIDE DEF R, T, f
  <2>3. IsFiniteSet(R)
    BY <2>1, <2>2, FS_Injection
  <2> QED
    BY <2>3 DEF R
<1>7. IsFiniteSet(Points(J))
  BY <1>5, <1>6, FS_Subset
<1> QED
  BY <1>3, <1>4, <1>5, <1>7

\* A set of points that the sweep has behind it.
Behind(P, s) == s \subseteq P /\ \A p \in s, q \in P \ s : ~InOrder(q, p)

\* What it has then.
Swept(J, n, s, v) ==
    /\ v = [shares |-> [b \in VmAttempts |-> Total(PartsIn(J), {t \in SpanIn(J, n, b) : t < v.prior})],
            active |-> {i.attempt : i \in {j \in Proper(J) : SP(j) \in s /\ FP(j) \notin s}},
            prior |-> v.prior]
    /\ v.prior \in -1 .. n
    /\ \A p \in s : p.at <= v.prior
    /\ IF s = {} THEN v.prior = -1 ELSE \E p \in s : p.at = v.prior

\* Between two points the active attempts are those of the first.
LEMMA BetweenPoints ==
    ASSUME NEW n \in Nat, NEW J, Sound(J, n), NEW s, NEW v, NEW p \in Points(J), p \notin s,
           Behind(Points(J), s), Behind(Points(J), s \cup {p}), Swept(J, n, s, v),
           NEW t \in 0 .. n, v.prior <= t, t < p.at
    PROVE  ActiveIn(J, t) = v.active
<1>1. /\ v.active = {i.attempt : i \in {j \in Proper(J) : SP(j) \in s /\ FP(j) \notin s}}
      /\ v.prior \in -1 .. n /\ \A q \in s : q.at <= v.prior
  BY DEF Swept
<1>2. p.at \in 0 .. n /\ \A q \in Points(J) : q.at \in 0 .. n
  BY PointsAre DEF PointsUpTo
<1>3. \A q \in Points(J) : q \in s \/ q.at >= p.at
  BY <1>2 DEF Behind, InOrder
<1>4. ASSUME NEW i \in J
      PROVE  (i.start <= t /\ t < i.finish) <=> (i \in Proper(J) /\ SP(i) \in s /\ FP(i) \notin s)
  <2>1. i.start \in 0 .. n /\ i.finish \in 0 .. n
    BY DEF Sound
  <2>2. SP(i).at = i.start /\ FP(i).at = i.finish
    BY DEF SP, FP
  <2>3. CASE i \in Proper(J)
    <3>1. SP(i) \in Points(J) /\ FP(i) \in Points(J)
      BY <2>3, PointsAre
    <3>2. SP(i) \in s <=> i.start <= t
      BY <1>1, <1>2, <1>3, <2>1, <2>2, <3>1
    <3>3. FP(i) \in s <=> i.finish <= t
      BY <1>1, <1>2, <1>3, <2>1, <2>2, <3>1
    <3> QED
      BY <2>1, <2>3, <3>2, <3>3
  <2>4. CASE i \notin Proper(J)
    BY <2>1, <2>4 DEF Proper
  <2> QED
    BY <2>3, <2>4
<1>5. Proper(J) \subseteq J
  BY DEF Proper
<1> QED
  BY <1>1, <1>4, <1>5 DEF ActiveIn

LEMMA ActiveAreAttempts ==
    ASSUME NEW n \in Nat, NEW J, Sound(J, n), NEW t \in 0 .. n
    PROVE  /\ ActiveIn(J, t) \subseteq VmAttempts /\ IsFiniteSet(ActiveIn(J, t))
           /\ Cardinality(ActiveIn(J, t)) \in 0 .. VmConcurrency
           /\ PartsIn(J)[t] \in Nat
<1>1. ActiveIn(J, t) \subseteq VmAttempts
  BY DEF ActiveIn, Sound
<1>2. IsFiniteSet(ActiveIn(J, t))
  BY <1>1, VmAssumption, FS_Subset
<1>3. Cardinality(ActiveIn(J, t)) \in 0 .. VmConcurrency
  BY <1>2, FS_CardinalityType, VmAssumption DEF Sound
<1>4. PartsIn(J)[t] \in Nat
  <2> DEFINE k == Cardinality(ActiveIn(J, t))
  <2>1. PartsIn(J)[t] = Part(k) /\ k \in 0 .. VmConcurrency
    BY <1>3 DEF PartsIn
  <2> HIDE DEF k
  <2>2. CASE k = 0
    BY <2>1, <2>2 DEF Part
  <2>3. CASE k # 0
    <3>1. VmSecond \in Nat /\ k \in Nat /\ k > 0 /\ VmSecond % k = 0
      BY <2>1, <2>3, VmAssumption
    <3>2. VmSecond \div k \in Nat
      BY <3>1, ShareIsWhole
    <3> QED
      BY <2>1, <2>3, <3>2 DEF Part
  <2> QED
    BY <2>2, <2>3
<1> QED
  BY <1>1, <1>2, <1>3, <1>4

\* A step of the sweep: the time since the last point goes to those active.
LEMMA SweepStep ==
    ASSUME NEW n \in Nat, NEW J, Sound(J, n), NEW s, NEW v, NEW p \in Points(J), p \notin s,
           Behind(Points(J), s), Behind(Points(J), s \cup {p}), Swept(J, n, s, v)
    PROVE  Swept(J, n, s \cup {p}, Divide(v, p))
<1> DEFINE w == Divide(v, p)
           F == PartsIn(J)
           k == Cardinality(v.active)
           dur == IF v.active = {} THEN 0 ELSE p.at - v.prior
           Old(b) == {t \in SpanIn(J, n, b) : t < v.prior}
           New(b) == {t \in SpanIn(J, n, b) : t < p.at}
<1>1. /\ v.shares = [b \in VmAttempts |-> Total(F, Old(b))]
      /\ v.active = {i.attempt : i \in {j \in Proper(J) : SP(j) \in s /\ FP(j) \notin s}}
      /\ v.prior \in -1 .. n /\ (\A q \in s : q.at <= v.prior)
      /\ IF s = {} THEN v.prior = -1 ELSE \E q \in s : q.at = v.prior
  BY DEF Swept
<1>2. p.at \in 0 .. n /\ p.attempt \in VmAttempts /\ s \subseteq Points(J) /\ \A q \in Points(J) : q.at \in 0 .. n
  BY PointsAre DEF PointsUpTo, Behind
<1>3. v.prior <= p.at
  <2>1. \A q \in s : q.at <= p.at
    BY <1>2 DEF Behind, InOrder
  <2>2. CASE s = {}
    BY <1>1, <1>2, <2>2
  <2>3. CASE s # {}
    BY <1>1, <2>1, <2>3
  <2> QED
    BY <2>2, <2>3
<1>4. /\ w.shares = [b \in VmAttempts |-> v.shares[b] + IF b \in v.active THEN (dur * VmSecond) \div k ELSE 0]
      /\ w.active = IF p.direction = 1 THEN v.active \cup {p.attempt} ELSE v.active \ {p.attempt}
      /\ w.prior = p.at
      /\ w = [shares |-> w.shares, active |-> w.active, prior |-> w.prior]
  BY DEF Divide
<1>5. \A t \in 0 .. n : v.prior <= t /\ t < p.at => ActiveIn(J, t) = v.active
  BY BetweenPoints
<1>6. \A b, t : /\ t \in Old(b) <=> t \in 0 .. n /\ b \in ActiveIn(J, t) /\ t < v.prior
                /\ t \in New(b) <=> t \in 0 .. n /\ b \in ActiveIn(J, t) /\ t < p.at
  BY DEF SpanIn
<1>7. \A t \in 0 .. n : F[t] = Part(Cardinality(ActiveIn(J, t))) /\ F[t] \in Nat /\ Cardinality(ActiveIn(J, t)) \in 0 .. VmConcurrency
  <2>1. \A t \in 0 .. n : F[t] = Part(Cardinality(ActiveIn(J, t)))
    BY DEF PartsIn
  <2> QED
    BY <2>1, ActiveAreAttempts
<1>8. w.active = {i.attempt : i \in {j \in Proper(J) : SP(j) \in s \cup {p} /\ FP(j) \notin s \cup {p}}}
  <2>1. PICK i \in Proper(J) : p = SP(i) \/ p = FP(i)
    BY PointsAre
  <2>2. \A j \in Proper(J) : j.attempt = i.attempt => j = i
    BY DEF Proper, Sound
  <2>3. i.start \in 0 .. n /\ i.finish \in 0 .. n /\ i.start < i.finish
    BY DEF Proper, Sound
  <2>4. SP(i) \in Points(J) /\ FP(i) \in Points(J) /\ InOrder(SP(i), FP(i)) /\ p.attempt = i.attempt /\ SP(i) # FP(i)
    <3>1. SP(i) \in Points(J) /\ FP(i) \in Points(J)
      BY PointsAre
    <3>2. InOrder(SP(i), FP(i)) /\ SP(i).at # FP(i).at
      BY <2>3 DEF InOrder, SP, FP
    <3>3. p.attempt = i.attempt
      BY <2>1 DEF SP, FP
    <3> QED
      BY <3>1, <3>2, <3>3
  <2>5. \A j \in Proper(J) : /\ SP(j) = p => j = i /\ p.direction = 1
                             /\ FP(j) = p => j = i /\ p.direction = -1
    <3> SUFFICES ASSUME NEW j \in Proper(J), SP(j) = p \/ FP(j) = p
                 PROVE  j = i /\ (SP(j) = p => p.direction = 1) /\ (FP(j) = p => p.direction = -1)
      OBVIOUS
    <3>1. p.attempt = j.attempt
      BY DEF SP, FP
    <3>2. (SP(j) = p => p.direction = 1) /\ (FP(j) = p => p.direction = -1)
      BY DEF SP, FP
    <3> QED
      BY <2>2, <2>4, <3>1, <3>2
  <2>6. CASE p = SP(i)
    <3>1. p.direction = 1
      BY <2>5, <2>6
    <3>2. FP(i) \notin s /\ FP(i) # p
      BY <2>4, <2>6 DEF Behind
    <3>3. \A j \in Proper(J) : (SP(j) \in s \cup {p} /\ FP(j) \notin s \cup {p}) <=> ((SP(j) \in s /\ FP(j) \notin s) \/ j = i)
      BY <2>5, <2>6, <3>1, <3>2
    <3>4. w.active = v.active \cup {i.attempt}
      BY <1>4, <2>4, <3>1
    <3> HIDE DEF w
    <3> QED
      BY <1>1, <3>3, <3>4
  <2>7. CASE p = FP(i)
    <3>1. p.direction # 1
      BY <2>5, <2>7
    <3>2. \A j \in Proper(J) : (SP(j) \in s \cup {p} /\ FP(j) \notin s \cup {p}) <=> (SP(j) \in s /\ FP(j) \notin s /\ j # i)
      BY <2>4, <2>5, <2>7
    <3>3. w.active = v.active \ {i.attempt}
      BY <1>4, <2>4, <3>1
    <3> HIDE DEF w
    <3> QED
      BY <1>1, <2>2, <3>2, <3>3
  <2> QED
    BY <2>1, <2>6, <2>7
<1> HIDE DEF w
<1>9. ASSUME NEW b \in VmAttempts
      PROVE  w.shares[b] = Total(F, New(b))
  <2>1. v.shares[b] = Total(F, Old(b)) /\ w.shares[b] = v.shares[b] + IF b \in v.active THEN (dur * VmSecond) \div k ELSE 0
    BY <1>1, <1>4
  <2>2. IsFiniteSet(Old(b)) /\ Total(F, Old(b)) \in Nat
    <3>1. Old(b) \subseteq 0 .. n
      BY <1>6
    <3>2. IsFiniteSet(Old(b))
      <4>1. IsFiniteSet(0 .. n)
        BY FS_Interval
      <4> HIDE DEF Old
      <4> QED
        BY <3>1, <4>1, FS_Subset
    <3> HIDE DEF Old, F
    <3> QED
      BY <1>7, <3>1, <3>2, TotalType
  <2>3. CASE b \notin v.active
    <3>1. New(b) = Old(b)
      <4>1. \A t : t \in New(b) <=> t \in Old(b)
        BY <1>1, <1>2, <1>3, <1>5, <1>6, <2>3
      <4> HIDE DEF New, Old
      <4> QED
        BY <4>1
    <3> HIDE DEF New, Old, F, dur, k
    <3> QED
      BY <2>1, <2>2, <2>3, <3>1
  <2>4. CASE b \in v.active
    <3>1. s # {} /\ v.prior \in 0 .. n /\ dur = p.at - v.prior
      <4>1. s # {} /\ dur = p.at - v.prior
        BY <1>1, <2>4
      <4> QED
        BY <1>1, <1>2, <4>1
    <3>2. New(b) = Old(b) \cup (v.prior .. p.at - 1)
      <4>1. \A t : t \in New(b) <=> t \in Old(b) \/ t \in v.prior .. p.at - 1
        BY <1>1, <1>2, <1>3, <1>5, <1>6, <2>4, <3>1
      <4> HIDE DEF New, Old
      <4> QED
        BY <4>1
    <3>3. CASE v.prior = p.at
      <4>1. v.prior .. p.at - 1 = {}
        BY <1>2, <3>3
      <4>2. New(b) = Old(b)
        BY <3>2, <4>1
      <4>3. k \in Nat /\ k > 0
        <5>1. v.active \subseteq VmAttempts
          BY <1>1 DEF Proper, Sound
        <5>2. IsFiniteSet(v.active)
          BY <5>1, VmAssumption, FS_Subset
        <5> QED
          BY <2>4, <5>2, FS_CardinalityType, FS_EmptySet
      <4>4. dur = 0
        BY <1>2, <3>1, <3>3
      <4> HIDE DEF k, dur
      <4>5. (dur * VmSecond) \div k = 0
        BY <4>3, <4>4, VmAssumption
      <4> HIDE DEF New, Old, F
      <4> QED
        BY <2>1, <2>2, <2>4, <4>2, <4>5
    <3>4. CASE v.prior # p.at
      <4>1. v.prior < p.at
        BY <1>2, <1>3, <3>1, <3>4
      <4>2. ActiveIn(J, v.prior) = v.active
        BY <1>5, <3>1, <4>1
      <4>3. k \in 0 .. VmConcurrency /\ k # 0
        <5>1. k \in 0 .. VmConcurrency /\ IsFiniteSet(v.active)
          BY <3>1, <4>2, ActiveAreAttempts
        <5> QED
          BY <2>4, <5>1, FS_EmptySet
      <4> DEFINE c == VmSecond \div k
      <4>4. \A t \in v.prior .. p.at - 1 : F[t] = Part(k)
        BY <1>2, <1>5, <1>7, <3>1
      <4> HIDE DEF k
      <4>5. VmSecond \in Nat /\ k \in Nat /\ k > 0 /\ VmSecond % k = 0
        BY <4>3, VmAssumption
      <4>6. dur \in Nat /\ dur = p.at - v.prior
        BY <1>2, <3>1, <4>1
      <4> HIDE DEF dur
      <4>7. c \in Nat /\ (dur * VmSecond) \div k = dur * c
        BY <4>5, <4>6, ShareIsWhole
      <4>8. \A t \in v.prior .. p.at - 1 : F[t] = c
        BY <4>3, <4>4 DEF Part
      <4> HIDE DEF c
      <4>9. Old(b) \subseteq 0 .. v.prior - 1 /\ \A t \in Old(b) : F[t] \in Nat
        BY <1>6, <1>7, <3>1
      <4>10. Total(F, New(b)) = Total(F, Old(b)) + (p.at - v.prior) * c
        <5> DEFINE m == v.prior
                   e == p.at
        <5>1. m \in Nat /\ e \in Nat /\ m <= e /\ c \in Nat
          BY <1>2, <3>1, <4>1, <4>7
        <5>2. New(b) = Old(b) \cup (m .. e - 1) /\ Old(b) \subseteq 0 .. m - 1
          BY <3>2, <4>9
        <5>3. (\A t \in Old(b) : F[t] \in Nat) /\ \A t \in m .. e - 1 : F[t] = c
          BY <4>8, <4>9
        <5> HIDE DEF m, e, F, Old, New
        <5>4. Total(F, Old(b) \cup (m .. e - 1)) = Total(F, Old(b)) + (e - m) * c
          BY <5>1, <5>2, <5>3, TotalGrows
        <5> QED
          BY <5>2, <5>4 DEF m, e
      <4> HIDE DEF New, Old, F
      <4> QED
        BY <2>1, <2>4, <4>6, <4>7, <4>10
    <3> QED
      BY <3>3, <3>4
  <2> QED
    BY <2>3, <2>4
<1>10. w.shares = [b \in VmAttempts |-> Total(PartsIn(J), {t \in SpanIn(J, n, b) : t < w.prior})]
  <2> SUFFICES w.shares = [b \in VmAttempts |-> Total(F, New(b))]
    BY <1>4
  <2> HIDE DEF F, New
  <2>1. DOMAIN w.shares = VmAttempts /\ w.shares = [b \in VmAttempts |-> w.shares[b]]
    BY <1>4
  <2> QED
    BY <1>9, <2>1
<1>11. \A q \in s \cup {p} : q.at <= w.prior
  <2>1. \A q \in s : q.at \in 0 .. n
    BY <1>2
  <2> QED
    BY <1>1, <1>2, <1>3, <1>4, <2>1
<1>12. w.prior \in -1 .. n /\ s \cup {p} # {} /\ \E q \in s \cup {p} : q.at = w.prior
  BY <1>2, <1>4
<1>13. w = [shares |-> [b \in VmAttempts |-> Total(PartsIn(J), {t \in SpanIn(J, n, b) : t < w.prior})],
            active |-> {i.attempt : i \in {j \in Proper(J) : SP(j) \in s \cup {p} /\ FP(j) \notin s \cup {p}}},
            prior |-> w.prior]
  <2> DEFINE shares == [b \in VmAttempts |-> Total(PartsIn(J), {t \in SpanIn(J, n, b) : t < w.prior})]
             active == {i.attempt : i \in {j \in Proper(J) : SP(j) \in s \cup {p} /\ FP(j) \notin s \cup {p}}}
  <2>1. w.shares = shares /\ w.active = active
    BY <1>8, <1>10
  <2> HIDE DEF shares, active
  <2>2. w = [shares |-> shares, active |-> active, prior |-> w.prior]
    BY <1>4, <2>1
  <2> QED
    BY <2>2 DEF shares, active
<1>14. Swept(J, n, s \cup {p}, w)
  <2> HIDE DEF F, Old, New, k, dur
  <2> QED
    BY <1>11, <1>12, <1>13 DEF Swept
<1> QED
  BY <1>14 DEF w

\* What the code's loop over the sorted points gives an attempt: of each second
\* in which it was active, an equal part with the others.
LEMMA SharesAreParts ==
    ASSUME NEW n \in Nat, NEW J, Sound(J, n), NEW b \in VmAttempts
    PROVE  Shares(J)[b] = Total(PartsIn(J), SpanIn(J, n, b))
<1> DEFINE P == Points(J)
<1>1. P \subseteq PointsUpTo(n) /\ IsFiniteSet(P)
  BY PointsAre
<1>2. PICK it : IsSweep(it, P) /\ Shares(J) = it[P].shares
  BY <1>1, SharesAreSwept
<1> HIDE DEF P
<1> DEFINE Bad == {s \in SUBSET P : Behind(P, s) /\ ~ Swept(J, n, s, it[s])}
<1>3. Bad = {}
  <2>1. SUFFICES ASSUME Bad # {} PROVE FALSE
    OBVIOUS
  <2>2. PICK U \in Bad : \A V \in SUBSET U : V # U => V \notin Bad
    <3>1. Bad \subseteq SUBSET P
      OBVIOUS
    <3> HIDE DEF Bad
    <3> QED
      BY <1>1, <2>1, <3>1, SmallestSubset
  <2>3. U \in SUBSET P /\ Behind(P, U) /\ ~ Swept(J, n, U, it[U])
    OBVIOUS
  <2>4. CASE U = {}
    <3>1. it[U] = Nothing
      BY <1>2, <2>3, <2>4, SweepUnfolds
    <3>2. Nothing.prior = -1 /\ Nothing.active = {} /\ DOMAIN Nothing.shares = VmAttempts
      BY DEF Nothing
    <3>3. \A a \in VmAttempts : {t \in SpanIn(J, n, a) : t < Nothing.prior} = {}
      BY <3>2 DEF SpanIn
    <3>4. \A a \in VmAttempts : Total(PartsIn(J), {t \in SpanIn(J, n, a) : t < Nothing.prior}) = 0
      BY <3>3, TotalEmpty
    <3>5. Nothing = [shares |-> [a \in VmAttempts |-> Total(PartsIn(J), {t \in SpanIn(J, n, a) : t < Nothing.prior})],
                     active |-> {i.attempt : i \in {j \in Proper(J) : SP(j) \in U /\ FP(j) \notin U}},
                     prior |-> Nothing.prior]
      <4>1. {i.attempt : i \in {j \in Proper(J) : SP(j) \in U /\ FP(j) \notin U}} = {}
        BY <2>4
      <4> DEFINE z == [a \in VmAttempts |-> Total(PartsIn(J), {t \in SpanIn(J, n, a) : t < Nothing.prior})]
      <4>2. z = [a \in VmAttempts |-> 0]
        BY <3>4
      <4> HIDE DEF z
      <4>3. Nothing = [shares |-> z, active |-> {}, prior |-> -1]
        BY <4>2 DEF Nothing
      <4> QED
        BY <3>2, <4>1, <4>3 DEF z
    <3>6. Swept(J, n, U, Nothing)
      BY <2>4, <3>2, <3>5 DEF Swept
    <3> QED
      BY <2>3, <3>1, <3>6
  <2>5. CASE U # {}
    <3> DEFINE p == LatestPoint(U)
               s == U \ {p}
    <3>1. p \in U /\ \A q \in U : ~InOrder(p, q)
      <4>1. U \subseteq PointsUpTo(n)
        BY <1>1, <2>3
      <4> QED
        BY <2>5, <4>1, LatestIsLatest
    <3>2. it[U] = Divide(it[s], p)
      BY <1>2, <2>3, <2>5, SweepUnfolds
    <3> HIDE DEF p
    <3>3. s \in SUBSET U /\ s # U /\ p \notin s /\ s \cup {p} = U /\ s \in SUBSET P
      BY <2>3, <3>1
    <3>4. Behind(P, s)
      <4>1. \A q \in P \ s : q = p \/ q \in P \ U
        OBVIOUS
      <4> QED
        BY <2>3, <3>1, <3>3, <4>1 DEF Behind
    <3>5. s \notin Bad
      BY <2>2, <3>3
    <3>6. Swept(J, n, s, it[s])
      BY <3>3, <3>4, <3>5
    <3>7. Swept(J, n, s \cup {p}, Divide(it[s], p))
      <4> DEFINE v == it[s]
      <4>1. Swept(J, n, s, v) /\ Behind(P, s \cup {p}) /\ p \in P
        BY <2>3, <3>1, <3>3, <3>6
      <4> HIDE DEF v, s
      <4>2. Swept(J, n, s \cup {p}, Divide(v, p))
        BY <3>3, <3>4, <4>1, SweepStep DEF P
      <4> QED
        BY <4>2 DEF v
    <3> QED
      BY <2>3, <3>2, <3>3, <3>7
  <2> QED
    BY <2>4, <2>5
<1>4. Swept(J, n, P, it[P])
  <2>1. Behind(P, P)
    BY DEF Behind
  <2> QED
    BY <1>3, <2>1
<1> DEFINE v == it[P]
<1>5. Shares(J)[b] = v.shares[b] /\ Swept(J, n, P, v)
  BY <1>2, <1>4
<1> HIDE DEF v
<1>6. v.shares[b] = Total(PartsIn(J), {t \in SpanIn(J, n, b) : t < v.prior})
  BY <1>5 DEF Swept
<1>7. \A q \in P : q.at <= v.prior
  BY <1>5 DEF Swept
<1>8. ASSUME NEW t \in SpanIn(J, n, b) PROVE t < v.prior
  <2>1. PICK i \in J : i.start <= t /\ t < i.finish /\ t \in 0 .. n
    BY DEF SpanIn, ActiveIn
  <2>2. i \in Proper(J) /\ i.finish \in 0 .. n
    BY <2>1 DEF Proper, Sound
  <2>3. FP(i) \in P /\ FP(i).at = i.finish
    BY <2>2, PointsAre DEF P, FP
  <2>4. i.finish <= v.prior /\ v.prior \in Int
    BY <1>5, <1>7, <2>3 DEF Swept
  <2> QED
    BY <2>1, <2>2, <2>4
<1>9. {t \in SpanIn(J, n, b) : t < v.prior} = SpanIn(J, n, b)
  BY <1>8
<1> QED
  BY <1>5, <1>6, <1>9

-----------------------------------------------------------------------------
(* The invariant                                                           *)

VmPlaces == {"planned", "begun", "timed", "running", "ended", "finished", "settled"}
VmIsRow(r) ==
    r \in [at : VmPlaces, start : Int, finish : Int, marked : [start : Int, finish : Int], share : {r.share}, exact : BOOLEAN]

\* The times of an attempt at each place, and what the tracker has of them.
RowFits(r) ==
    /\ r.at = "planned" => r.start = -1 /\ r.finish = -1 /\ r.marked = Unmarked
    /\ r.at \in {"begun", "timed"} => r.start \in 0 .. vmClock /\ r.finish = -1 /\ r.marked = Unmarked
    /\ r.at = "running" => r.start \in 0 .. vmClock /\ r.finish = -1 /\ r.marked = [start |-> r.start, finish |-> -1]
    /\ r.at = "ended" => /\ r.start \in 0 .. vmClock /\ r.finish \in r.start .. vmClock
                         /\ r.marked \in {Unmarked, [start |-> r.start, finish |-> -1]}
    /\ r.at \in {"finished", "settled"} => /\ r.start \in 0 .. vmClock /\ r.finish \in r.start .. vmClock
                                           /\ r.marked = [start |-> r.start, finish |-> r.finish]

ActiveAt(t) == {a \in VmAttempts : trial[a].start \in 0 .. t /\ (trial[a].finish = -1 \/ t < trial[a].finish)}
Parts == [t \in Nat |-> Part(Cardinality(ActiveAt(t)))]
OnTheWay == {a \in VmAttempts : trial[a].at \notin {"planned", "settled"}}

VmTypes ==
    /\ vmClock \in Nat /\ trial = [a \in VmAttempts |-> trial[a]]
    /\ \A a \in VmAttempts : VmIsRow(trial[a]) /\ RowFits(trial[a])

\* No more attempts are active in any second than there are threads.
VmBusy ==
    /\ Cardinality(OnTheWay) <= VmConcurrency
    /\ \A t \in 0 .. vmClock : Cardinality(ActiveAt(t)) <= VmConcurrency

\* A settled attempt has paid its part of each of its seconds, and no attempt
\* can still take a time that changes who was active in one of them.
VmCharged ==
    \A a \in VmAttempts : At(a, "settled") /\ trial[a].exact =>
        /\ trial[a].share = Total(Parts, trial[a].start .. trial[a].finish - 1)
        /\ \A b \in VmAttempts : At(b, "begun") => trial[a].finish <= trial[b].start

VmInv == VmTypes /\ VmBusy /\ VmCharged

LEMMA VmInitially == VmInit => VmInv
<1> SUFFICES ASSUME VmInit PROVE VmInv
  OBVIOUS
<1>1. VmTypes
  BY DEF VmInit, VmTypes, VmIsRow, VmPlaces, RowFits, Unmarked
<1>2. OnTheWay = {} /\ \A t \in 0 .. vmClock : ActiveAt(t) = {}
  BY DEF VmInit, OnTheWay, ActiveAt
<1>3. VmBusy
  BY <1>2, FS_EmptySet, VmAssumption DEF VmBusy
<1>4. VmCharged
  BY DEF VmInit, VmCharged, At
<1> QED
  BY <1>1, <1>3, <1>4 DEF VmInv

\* An attempt's times, whatever its place.
LEMMA RowTimes ==
    ASSUME VmTypes, NEW a \in VmAttempts
    PROVE  /\ trial[a].start \in -1 .. vmClock /\ trial[a].finish \in -1 .. vmClock
           /\ (trial[a].start = -1) <=> (trial[a].at = "planned")
           /\ (trial[a].finish # -1) <=> (trial[a].at \in {"ended", "finished", "settled"})
           /\ trial[a].finish # -1 => trial[a].start <= trial[a].finish
<1> DEFINE r == trial[a]
<1>1. r.at \in VmPlaces /\ RowFits(r) /\ vmClock \in Nat
  BY DEF VmTypes, VmIsRow
<1> HIDE DEF r
<1>2. CASE r.at \in {"planned", "begun", "timed", "running"}
  <2>1. r.start \in -1 .. vmClock /\ r.finish = -1 /\ (r.start = -1 <=> r.at = "planned")
    BY <1>1, <1>2 DEF RowFits
  <2> QED
    BY <1>1, <1>2, <2>1 DEF r
<1>3. CASE r.at \in {"ended", "finished", "settled"}
  <2>1. r.start \in 0 .. vmClock /\ r.finish \in r.start .. vmClock
    BY <1>1, <1>3 DEF RowFits
  <2>2. r.finish \in -1 .. vmClock /\ r.finish # -1 /\ r.start <= r.finish /\ r.start \in -1 .. vmClock /\ r.start # -1
    BY <1>1, <2>1
  <2> QED
    BY <1>3, <2>2 DEF r
<1> QED
  BY <1>1, <1>2, <1>3 DEF VmPlaces

LEMMA ActiveAreOnTheWay ==
    VmTypes => ActiveAt(vmClock) \subseteq OnTheWay
<1> SUFFICES ASSUME VmTypes, NEW a \in ActiveAt(vmClock) PROVE a \in OnTheWay
  OBVIOUS
<1>1. a \in VmAttempts /\ trial[a].start \in 0 .. vmClock /\ (trial[a].finish = -1 \/ vmClock < trial[a].finish)
  BY DEF ActiveAt
<1>2. trial[a].finish \in -1 .. vmClock /\ vmClock \in Nat
  BY <1>1, RowTimes DEF VmTypes
<1>3. trial[a].finish = -1 /\ trial[a].start # -1
  BY <1>1, <1>2
<1>4. trial[a].at \notin {"planned", "settled"}
  BY <1>1, <1>3, RowTimes
<1> QED
  BY <1>1, <1>4 DEF OnTheWay

LEMMA VmSetsFinite == IsFiniteSet(OnTheWay) /\ \A t : IsFiniteSet(ActiveAt(t))
  BY VmAssumption, FS_Subset DEF OnTheWay, ActiveAt

\* A step of one attempt: of its times it takes at most one, and that is now.
OneTime(a, r) ==
    \/ r.start = trial[a].start /\ r.finish = trial[a].finish
    \/ r.start = trial[a].start /\ trial[a].finish = -1 /\ r.finish = vmClock
    \/ trial[a].at \in {"planned", "begun"} /\ r.start = vmClock /\ r.finish = -1

\* The parts of an attempt's seconds only depend on who was active in them.
LEMMA PartsAre ==
    ASSUME VmInv, NEW a \in VmAttempts
    PROVE  /\ IsFiniteSet(trial[a].start .. trial[a].finish - 1)
           /\ \A t \in 0 .. vmClock : Parts[t] \in Nat
           /\ trial[a].finish # -1 => trial[a].start .. trial[a].finish - 1 \subseteq {t \in 0 .. vmClock : t < vmClock}
<1>1. VmTypes /\ vmClock \in Nat
  BY DEF VmInv, VmTypes
<1>2. /\ trial[a].start \in -1 .. vmClock /\ trial[a].finish \in -1 .. vmClock
      /\ trial[a].finish # -1 => trial[a].start # -1
  BY <1>1, RowTimes
<1>3. ASSUME NEW t \in 0 .. vmClock PROVE Parts[t] \in Nat
  <2> DEFINE k == Cardinality(ActiveAt(t))
  <2>1. Parts[t] = Part(k) /\ k \in 0 .. VmConcurrency
    <3>1. k \in Nat /\ k <= VmConcurrency
      BY VmSetsFinite, FS_CardinalityType DEF VmInv, VmBusy
    <3> QED
      BY <3>1, VmAssumption DEF Parts
  <2> HIDE DEF k
  <2>2. CASE k = 0
    BY <2>1, <2>2 DEF Part
  <2>3. CASE k # 0
    <3>1. VmSecond \in Nat /\ k \in Nat /\ k > 0 /\ VmSecond % k = 0
      BY <2>1, <2>3, VmAssumption
    <3>2. VmSecond \div k \in Nat
      BY <3>1, ShareIsWhole
    <3> QED
      BY <2>1, <2>3, <3>2 DEF Part
  <2> QED
    BY <2>2, <2>3
<1>4. IsFiniteSet(trial[a].start .. trial[a].finish - 1)
  <2>1. trial[a].start \in Int /\ trial[a].finish - 1 \in Int
    BY <1>1, <1>2
  <2> QED
    BY <2>1, FS_Interval
<1> QED
  BY <1>1, <1>2, <1>3, <1>4

\* What an attempt has paid for its seconds is right in a next state as well,
\* when the same were active in them.
LEMMA ChargeStays ==
    ASSUME VmInv, NEW c \in VmAttempts, At(c, "settled"), trial[c].exact, trial'[c] = trial[c],
           \A t \in trial[c].start .. trial[c].finish - 1 : ActiveAt(t)' = ActiveAt(t)
    PROVE  (trial[c].share = Total(Parts, trial[c].start .. trial[c].finish - 1))'
<1> DEFINE T == trial[c].start .. trial[c].finish - 1
<1>1. trial[c].finish # -1
  BY RowTimes DEF VmInv, At
<1>2. IsFiniteSet(T) /\ T \subseteq 0 .. vmClock /\ \A t \in T : Parts[t] \in Nat
  BY <1>1, PartsAre
<1>3. T \subseteq Nat
  BY <1>2
<1>4. \A t \in T : Parts'[t] = Parts[t]
  BY <1>3 DEF Parts
<1>5. Total(Parts, T) = Total(Parts', T)
  <2> HIDE DEF T
  <2> QED
    BY <1>2, <1>4, TotalEqual
<1>6. trial[c].share = Total(Parts, T)
  BY DEF VmInv, VmCharged
<1>7. T' = T
  OBVIOUS
<1>8. Total(Parts, T)' = Total(Parts', T)
  BY <1>7
<1> QED
  BY <1>5, <1>6, <1>8

LEMMA StepKeeps ==
    ASSUME VmInv, NEW a \in VmAttempts, NEW r, VmIsRow(r), RowFits(r), OneTime(a, r),
           trial' = [trial EXCEPT ![a] = r], vmClock' = vmClock,
           ~At(a, "settled"), r.at # "settled", r.at = "begun" => r.start = vmClock,
           Cardinality(OnTheWay') <= VmConcurrency
    PROVE  VmInv'
<1>1. VmTypes /\ VmBusy /\ VmCharged /\ vmClock \in Nat
  BY DEF VmInv, VmTypes
<1>2. trial'[a] = r /\ \A b \in VmAttempts \ {a} : trial'[b] = trial[b]
  BY <1>1 DEF VmTypes
<1>3. VmTypes'
  <2>1. trial' = [b \in VmAttempts |-> trial'[b]]
    BY <1>1 DEF VmTypes
  <2>2. (VmIsRow(trial[a]) /\ RowFits(trial[a]))'
    BY <1>2 DEF RowFits, VmIsRow
  <2>3. \A b \in VmAttempts : (VmIsRow(trial[b]) /\ RowFits(trial[b]))'
    <3> SUFFICES ASSUME NEW b \in VmAttempts PROVE (VmIsRow(trial[b]) /\ RowFits(trial[b]))'
      OBVIOUS
    <3>1. CASE b = a
      BY <2>2, <3>1
    <3>2. CASE b # a
      <4>1. VmIsRow(trial[b]) /\ RowFits(trial[b]) /\ trial'[b] = trial[b]
        BY <1>1, <1>2, <3>2 DEF VmTypes
      <4> QED
        BY <4>1 DEF RowFits, VmIsRow
    <3> QED
      BY <3>1, <3>2
  <2> QED
    BY <1>1, <2>1, <2>3 DEF VmTypes
<1>4. trial[a].start \in -1 .. vmClock /\ trial[a].finish \in -1 .. vmClock
      /\ (trial[a].at = "planned" => trial[a].start = -1)
      /\ (trial[a].at = "begun" => trial[a].finish = -1)
  BY <1>1, RowTimes
<1>5. \A t \in 0 .. vmClock : t < vmClock => ActiveAt(t)' \subseteq ActiveAt(t)
  <2> SUFFICES ASSUME NEW t \in 0 .. vmClock, t < vmClock, NEW b \in ActiveAt(t)' PROVE b \in ActiveAt(t)
    OBVIOUS
  <2>1. b \in VmAttempts /\ trial'[b].start \in 0 .. t /\ (trial'[b].finish = -1 \/ t < trial'[b].finish)
    BY DEF ActiveAt
  <2>2. trial[b].start \in 0 .. t /\ (trial[b].finish = -1 \/ t < trial[b].finish)
    <3>1. CASE b = a
      BY <1>1, <1>2, <1>4, <2>1, <3>1 DEF OneTime
    <3>2. CASE b # a
      BY <1>2, <2>1, <3>2
    <3> QED
      BY <3>1, <3>2
  <2> QED
    BY <2>1, <2>2 DEF ActiveAt
<1>6. VmBusy'
  <2>1. IsFiniteSet(OnTheWay') /\ ActiveAt(vmClock)' \subseteq OnTheWay'
    <3>1. IsFiniteSet(OnTheWay')
      BY VmAssumption, FS_Subset DEF OnTheWay
    <3>2. (VmTypes => ActiveAt(vmClock) \subseteq OnTheWay)'
      BY ActiveAreOnTheWay, PTL
    <3> QED
      BY <1>3, <3>1, <3>2
  <2>2. ASSUME NEW t \in 0 .. vmClock PROVE Cardinality(ActiveAt(t)') <= VmConcurrency
    <3>1. CASE t < vmClock
      <4>1. IsFiniteSet(ActiveAt(t)) /\ Cardinality(ActiveAt(t)) <= VmConcurrency
        BY <1>1, VmSetsFinite DEF VmBusy
      <4>2. Cardinality(ActiveAt(t)') <= Cardinality(ActiveAt(t)) /\ Cardinality(ActiveAt(t)') \in Nat /\ Cardinality(ActiveAt(t)) \in Nat
        BY <1>5, <3>1, <4>1, FS_Subset, FS_CardinalityType
      <4> QED
        BY <4>1, <4>2, VmAssumption
    <3>2. CASE t = vmClock
      <4>1. ActiveAt(t)' \subseteq OnTheWay'
        BY <2>1, <3>2
      <4>2. Cardinality(ActiveAt(t)') <= Cardinality(OnTheWay') /\ Cardinality(ActiveAt(t)') \in Nat /\ Cardinality(OnTheWay') \in Nat
        BY <2>1, <4>1, FS_Subset, FS_CardinalityType
      <4> QED
        BY <4>2, VmAssumption
    <3> QED
      BY <1>1, <3>1, <3>2
  <2> QED
    BY <2>2 DEF VmBusy
<1>7. VmCharged'
  <2> SUFFICES ASSUME NEW c \in VmAttempts, At(c, "settled")', trial'[c].exact
               PROVE  /\ (trial[c].share = Total(Parts, trial[c].start .. trial[c].finish - 1))'
                      /\ \A b \in VmAttempts : At(b, "begun")' => trial'[c].finish <= trial'[b].start
    BY DEF VmCharged
  <2>1. c # a /\ trial'[c] = trial[c] /\ At(c, "settled") /\ trial[c].exact
    BY <1>2 DEF At
  <2>2. /\ trial[c].finish # -1 /\ trial[c].finish \in -1 .. vmClock /\ trial[c].start \in -1 .. vmClock /\ trial[c].start # -1
    BY <1>1, <2>1, RowTimes DEF At
  <2>3. At(a, "begun") => trial[c].finish <= trial[a].start
    BY <1>1, <2>1 DEF VmCharged
  <2>4. ASSUME NEW t \in trial[c].start .. trial[c].finish - 1 PROVE ActiveAt(t)' = ActiveAt(t)
    <3>1. t \in 0 .. vmClock /\ t < vmClock
      BY <1>1, <2>2
    <3>2. ASSUME NEW b \in ActiveAt(t) PROVE b \in ActiveAt(t)'
      <4>1. b \in VmAttempts /\ trial[b].start \in 0 .. t /\ (trial[b].finish = -1 \/ t < trial[b].finish)
        BY <3>2 DEF ActiveAt
      <4>2. trial'[b].start \in 0 .. t /\ (trial'[b].finish = -1 \/ t < trial'[b].finish)
        <5>1. CASE b = a
          <6>1. ~(trial[a].at \in {"planned", "begun"})
            BY <1>1, <1>4, <2>2, <2>3, <3>1, <4>1, <5>1 DEF At
          <6>2. r.start = trial[a].start /\ (r.finish = trial[a].finish \/ r.finish = vmClock)
            BY <6>1 DEF OneTime
          <6> QED
            BY <1>1, <1>2, <3>1, <4>1, <5>1, <6>2
        <5>2. CASE b # a
          BY <1>2, <4>1, <5>2
        <5> QED
          BY <5>1, <5>2
      <4> QED
        BY <4>1, <4>2 DEF ActiveAt
    <3> QED
      BY <1>5, <3>1, <3>2
  <2>5. (trial[c].share = Total(Parts, trial[c].start .. trial[c].finish - 1))'
    BY <2>1, <2>4, ChargeStays
  <2>6. ASSUME NEW b \in VmAttempts, At(b, "begun")' PROVE trial'[c].finish <= trial'[b].start
    <3>1. CASE b = a
      BY <1>1, <1>2, <2>1, <2>2, <2>6, <3>1 DEF At
    <3>2. CASE b # a
      BY <1>1, <1>2, <2>1, <2>6, <3>2 DEF At, VmCharged
    <3> QED
      BY <3>1, <3>2
  <2> QED
    BY <2>5, <2>6
<1> QED
  BY <1>3, <1>6, <1>7 DEF VmInv

\* Nobody new is on the way.
LEMMA SameWay ==
    ASSUME VmInv, NEW a \in OnTheWay, NEW r, trial' = [trial EXCEPT ![a] = r]
    PROVE  Cardinality(OnTheWay') <= VmConcurrency
<1>1. OnTheWay' \subseteq OnTheWay
  <2>1. \A b \in VmAttempts : b # a => trial'[b] = trial[b]
    BY DEF VmInv, VmTypes
  <2> QED
    BY <2>1 DEF OnTheWay
<1>2. Cardinality(OnTheWay') <= Cardinality(OnTheWay) /\ Cardinality(OnTheWay') \in Nat /\ Cardinality(OnTheWay) \in Nat
  BY <1>1, VmSetsFinite, FS_Subset, FS_CardinalityType
<1> QED
  BY <1>2, VmAssumption DEF VmInv, VmBusy

LEMMA BeginKeeps == ASSUME VmInv, NEW a \in VmAttempts, VmBegin(a) PROVE VmInv'
<1> DEFINE r == [trial[a] EXCEPT !.at = "begun", !.start = vmClock]
<1>1. VmIsRow(trial[a]) /\ RowFits(trial[a]) /\ trial[a].at = "planned" /\ vmClock \in Nat
  BY DEF VmInv, VmTypes, VmBegin, At
<1>2. trial' = [trial EXCEPT ![a] = r] /\ vmClock' = vmClock
  BY DEF VmBegin
<1>3. r.at = "begun" /\ r.start = vmClock /\ r.finish = -1 /\ VmIsRow(r) /\ RowFits(r)
  <2>1. /\ VmIsRow(r)
        /\ r.at = "begun" /\ r.start = vmClock /\ r.finish = trial[a].finish /\ r.marked = trial[a].marked
    <3>1. PICK q, now : q = trial[a] /\ now = vmClock
      OBVIOUS
    <3>2. VmIsRow(q) /\ "begun" \in VmPlaces /\ now \in Int /\ r = [q EXCEPT !.at = "begun", !.start = now]
      BY <1>1, <3>1 DEF VmPlaces
    <3> HIDE DEF r
    <3>3. VmIsRow(r) /\ r.at = "begun" /\ r.start = now /\ r.finish = q.finish /\ r.marked = q.marked
      BY <3>2 DEF VmIsRow, VmPlaces
    <3> QED
      BY <3>1, <3>3
  <2>2. trial[a].finish = -1 /\ trial[a].marked = Unmarked
    BY <1>1 DEF RowFits
  <2> HIDE DEF r
  <2> QED
    BY <1>1, <2>1, <2>2 DEF VmIsRow, RowFits, VmPlaces
<1> HIDE DEF r
<1>4. OneTime(a, r)
  BY <1>1, <1>3 DEF OneTime
<1>5. Cardinality(OnTheWay') <= VmConcurrency
  <2>1. OnTheWay' = OnTheWay \cup {a}
    <3>1. trial'[a] = r /\ \A b \in VmAttempts : b # a => trial'[b] = trial[b]
      BY <1>2 DEF VmInv, VmTypes
    <3> QED
      BY <1>3, <3>1 DEF OnTheWay
  <2>2. Cardinality(OnTheWay) < VmConcurrency
    BY DEF VmBegin, OnTheWay
  <2>3. IsFiniteSet(OnTheWay) /\ Cardinality(OnTheWay) \in Nat
    BY VmSetsFinite, FS_CardinalityType
  <2>4. Cardinality(OnTheWay') = IF a \in OnTheWay THEN Cardinality(OnTheWay) ELSE Cardinality(OnTheWay) + 1
    BY <2>1, <2>3, FS_AddElement
  <2> QED
    BY <2>2, <2>3, <2>4, VmAssumption
<1> QED
  BY <1>1, <1>2, <1>3, <1>4, <1>5, StepKeeps DEF At

LEMMA ThreadKeeps ==
    ASSUME VmInv, NEW a \in VmAttempts,
           VmTakeTime(a) \/ VmCheckRaises(a) \/ VmMarkStarted(a) \/ VmEnd(a) \/ VmMarkFinished(a)
    PROVE  VmInv'
<1>1. VmIsRow(trial[a]) /\ RowFits(trial[a]) /\ vmClock \in Nat
  BY DEF VmInv, VmTypes
<1>2. PICK r : /\ trial' = [trial EXCEPT ![a] = r] /\ vmClock' = vmClock
               /\ trial[a].at \in {"begun", "timed", "running", "ended"} /\ r.at \in {"timed", "running", "ended", "finished"}
               /\ VmIsRow(r) /\ RowFits(r) /\ OneTime(a, r)
  <2>1. CASE VmTakeTime(a)
    <3> DEFINE r == [trial[a] EXCEPT !.at = "timed", !.start = vmClock]
    <3>1. trial' = [trial EXCEPT ![a] = r] /\ vmClock' = vmClock /\ trial[a].at = "begun"
      BY <2>1 DEF VmTakeTime, At
    <3>2. r.at = "timed" /\ VmIsRow(r) /\ RowFits(r) /\ OneTime(a, r)
      <4>1. /\ VmIsRow(r)
            /\ r.at = "timed" /\ r.start = vmClock /\ r.finish = trial[a].finish
            /\ r.marked = trial[a].marked
        <5>1. PICK q, now : q = trial[a] /\ now = vmClock
          OBVIOUS
        <5>2. VmIsRow(q) /\ "timed" \in VmPlaces /\ now \in Int /\ r = [q EXCEPT !.at = "timed", !.start = now]
          BY <1>1, <5>1 DEF VmPlaces
        <5> HIDE DEF r
        <5>3. VmIsRow(r) /\ r.at = "timed" /\ r.start = now /\ r.finish = q.finish /\ r.marked = q.marked
          BY <5>2 DEF VmIsRow, VmPlaces
        <5> QED
          BY <5>1, <5>3
      <4> HIDE DEF r
      <4> QED
        BY <1>1, <3>1, <4>1 DEF VmIsRow, RowFits, VmPlaces, OneTime, Unmarked
    <3> QED
      BY <3>1, <3>2
  <2>2. CASE VmCheckRaises(a)
    <3> DEFINE r == [trial[a] EXCEPT !.at = "ended", !.finish = vmClock]
    <3>1. trial' = [trial EXCEPT ![a] = r] /\ vmClock' = vmClock /\ trial[a].at = "begun"
      BY <2>2 DEF VmCheckRaises, At
    <3>2. r.at = "ended" /\ VmIsRow(r) /\ RowFits(r) /\ OneTime(a, r)
      <4>1. /\ VmIsRow(r)
            /\ r.at = "ended" /\ r.start = trial[a].start /\ r.finish = vmClock
            /\ r.marked = trial[a].marked
        <5>1. PICK q, now : q = trial[a] /\ now = vmClock
          OBVIOUS
        <5>2. VmIsRow(q) /\ "ended" \in VmPlaces /\ now \in Int /\ r = [q EXCEPT !.at = "ended", !.finish = now]
          BY <1>1, <5>1 DEF VmPlaces
        <5> HIDE DEF r
        <5>3. VmIsRow(r) /\ r.at = "ended" /\ r.finish = now /\ r.start = q.start /\ r.marked = q.marked
          BY <5>2 DEF VmIsRow, VmPlaces
        <5> QED
          BY <5>1, <5>3
      <4> HIDE DEF r
      <4> QED
        BY <1>1, <3>1, <4>1 DEF VmIsRow, RowFits, VmPlaces, OneTime, Unmarked
    <3> QED
      BY <3>1, <3>2
  <2>3. CASE VmMarkStarted(a)
    <3> DEFINE r == [trial[a] EXCEPT !.at = "running", !.marked = [start |-> trial[a].start, finish |-> -1]]
    <3>1. trial' = [trial EXCEPT ![a] = r] /\ vmClock' = vmClock /\ trial[a].at = "timed"
      BY <2>3 DEF VmMarkStarted, At
    <3>2. r.at = "running" /\ VmIsRow(r) /\ RowFits(r) /\ OneTime(a, r)
      <4>1. /\ VmIsRow(r)
            /\ r.at = "running" /\ r.start = trial[a].start /\ r.finish = trial[a].finish
            /\ r.marked = [start |-> trial[a].start, finish |-> -1]
        <5>1. PICK q, m : q = trial[a] /\ m = [start |-> trial[a].start, finish |-> -1]
          OBVIOUS
        <5>2. m \in [start : Int, finish : Int] /\ VmIsRow(q)
          BY <1>1, <3>1, <5>1 DEF RowFits
        <5>3. "running" \in VmPlaces /\ r = [q EXCEPT !.at = "running", !.marked = m]
          BY <5>1 DEF VmPlaces
        <5> HIDE DEF r
        <5>4. VmIsRow(r) /\ r.at = "running" /\ r.marked = m /\ r.start = q.start /\ r.finish = q.finish
          BY <5>2, <5>3 DEF VmIsRow, VmPlaces
        <5> QED
          BY <5>1, <5>4
      <4> HIDE DEF r
      <4> QED
        BY <1>1, <3>1, <4>1 DEF VmIsRow, RowFits, VmPlaces, OneTime, Unmarked
    <3> QED
      BY <3>1, <3>2
  <2>4. CASE VmEnd(a)
    <3> DEFINE r == [trial[a] EXCEPT !.at = "ended", !.finish = vmClock]
    <3>1. trial' = [trial EXCEPT ![a] = r] /\ vmClock' = vmClock /\ trial[a].at = "running"
      BY <2>4 DEF VmEnd, At
    <3>2. r.at = "ended" /\ VmIsRow(r) /\ RowFits(r) /\ OneTime(a, r)
      <4>1. /\ VmIsRow(r)
            /\ r.at = "ended" /\ r.start = trial[a].start /\ r.finish = vmClock
            /\ r.marked = trial[a].marked
        <5>1. PICK q, now : q = trial[a] /\ now = vmClock
          OBVIOUS
        <5>2. VmIsRow(q) /\ "ended" \in VmPlaces /\ now \in Int /\ r = [q EXCEPT !.at = "ended", !.finish = now]
          BY <1>1, <5>1 DEF VmPlaces
        <5> HIDE DEF r
        <5>3. VmIsRow(r) /\ r.at = "ended" /\ r.finish = now /\ r.start = q.start /\ r.marked = q.marked
          BY <5>2 DEF VmIsRow, VmPlaces
        <5> QED
          BY <5>1, <5>3
      <4> HIDE DEF r
      <4> QED
        BY <1>1, <3>1, <4>1 DEF VmIsRow, RowFits, VmPlaces, OneTime, Unmarked
    <3> QED
      BY <3>1, <3>2
  <2>5. CASE VmMarkFinished(a)
    <3> DEFINE r == [trial[a] EXCEPT !.at = "finished", !.marked = [start |-> trial[a].start, finish |-> trial[a].finish]]
    <3>1. trial' = [trial EXCEPT ![a] = r] /\ vmClock' = vmClock /\ trial[a].at = "ended"
      BY <2>5 DEF VmMarkFinished, At
    <3>2. r.at = "finished" /\ VmIsRow(r) /\ RowFits(r) /\ OneTime(a, r)
      <4>1. /\ VmIsRow(r)
            /\ r.at = "finished" /\ r.start = trial[a].start /\ r.finish = trial[a].finish
            /\ r.marked = [start |-> trial[a].start, finish |-> trial[a].finish]
        <5>1. PICK q, m : q = trial[a] /\ m = [start |-> trial[a].start, finish |-> trial[a].finish]
          OBVIOUS
        <5>2. m \in [start : Int, finish : Int] /\ VmIsRow(q)
          BY <1>1, <3>1, <5>1 DEF RowFits
        <5>3. "finished" \in VmPlaces /\ r = [q EXCEPT !.at = "finished", !.marked = m]
          BY <5>1 DEF VmPlaces
        <5> HIDE DEF r
        <5>4. VmIsRow(r) /\ r.at = "finished" /\ r.marked = m /\ r.start = q.start /\ r.finish = q.finish
          BY <5>2, <5>3 DEF VmIsRow, VmPlaces
        <5> QED
          BY <5>1, <5>4
      <4> HIDE DEF r
      <4> QED
        BY <1>1, <3>1, <4>1 DEF VmIsRow, RowFits, VmPlaces, OneTime, Unmarked
    <3> QED
      BY <3>1, <3>2
  <2> QED
    BY <2>1, <2>2, <2>3, <2>4, <2>5
<1>3. a \in OnTheWay
  BY <1>2 DEF OnTheWay
<1>4. Cardinality(OnTheWay') <= VmConcurrency
  BY <1>2, <1>3, SameWay
<1> QED
  BY <1>2, <1>4, StepKeeps DEF At

LEMMA TickKeeps == ASSUME VmInv, VmTick PROVE VmInv'
<1>1. VmTypes /\ VmBusy /\ VmCharged /\ vmClock \in Nat
  BY DEF VmInv, VmTypes
<1>2. vmClock' = vmClock + 1 /\ trial' = trial
  BY DEF VmTick
<1>3. VmTypes'
  <2>1. ASSUME NEW b \in VmAttempts PROVE (VmIsRow(trial[b]) /\ RowFits(trial[b]))'
    <3> DEFINE r == trial[b]
    <3>1. VmIsRow(r) /\ RowFits(r)
      BY <1>1 DEF VmTypes
    <3>2. VmIsRow(r)'
      BY <1>2, <3>1 DEF VmIsRow
    <3>3. RowFits(r)'
      BY <1>1, <1>2, <3>1 DEF RowFits
    <3> QED
      BY <3>2, <3>3
  <2> QED
    BY <1>1, <1>2, <2>1 DEF VmTypes
<1>4. OnTheWay' = OnTheWay /\ \A t : ActiveAt(t)' = ActiveAt(t)
  BY <1>2 DEF OnTheWay, ActiveAt
<1>5. VmBusy'
  <2>1. (VmTypes => ActiveAt(vmClock) \subseteq OnTheWay)'
    BY ActiveAreOnTheWay, PTL
  <2>2. ActiveAt(vmClock)' \subseteq OnTheWay
    BY <1>3, <1>4, <2>1
  <2>3. Cardinality(ActiveAt(vmClock)') <= VmConcurrency
    <3>1. Cardinality(ActiveAt(vmClock)') <= Cardinality(OnTheWay) /\ Cardinality(OnTheWay) \in Nat /\ Cardinality(ActiveAt(vmClock)') \in Nat
      BY <2>2, VmSetsFinite, FS_Subset, FS_CardinalityType
    <3> QED
      BY <1>1, <3>1, VmAssumption DEF VmBusy
  <2>4. ASSUME NEW t \in 0 .. vmClock' PROVE Cardinality(ActiveAt(t)') <= VmConcurrency
    <3>1. CASE t \in 0 .. vmClock
      BY <1>1, <1>4, <3>1 DEF VmBusy
    <3>2. CASE t = vmClock'
      BY <2>3, <3>2 DEF ActiveAt
    <3> QED
      BY <1>1, <1>2, <3>1, <3>2
  <2> QED
    BY <1>1, <1>4, <2>4 DEF VmBusy
<1>6. VmCharged'
  <2> SUFFICES ASSUME NEW c \in VmAttempts, At(c, "settled")', trial'[c].exact
               PROVE  /\ (trial[c].share = Total(Parts, trial[c].start .. trial[c].finish - 1))'
                      /\ \A b \in VmAttempts : At(b, "begun")' => trial'[c].finish <= trial'[b].start
    BY DEF VmCharged
  <2>1. trial'[c] = trial[c] /\ At(c, "settled") /\ trial[c].exact
    BY <1>2 DEF At
  <2>2. (trial[c].share = Total(Parts, trial[c].start .. trial[c].finish - 1))'
    BY <1>4, <2>1, ChargeStays
  <2> QED
    BY <1>1, <1>2, <2>1, <2>2 DEF VmCharged, At
<1> QED
  BY <1>3, <1>5, <1>6 DEF VmInv

\* When every time that was taken is marked, what the tracker knows up to the
\* end of an attempt is who was active until then.
LEMMA KnownIsActive ==
    ASSUME VmInv, NEW a \in VmAttempts, At(a, "finished"), Unseen = {}
    PROVE  /\ Sound(Known(a), vmClock)
           /\ SpanIn(Known(a), vmClock, a) = trial[a].start .. trial[a].finish - 1
           /\ \A t \in trial[a].start .. trial[a].finish - 1 : ActiveIn(Known(a), t) = ActiveAt(t)
<1> DEFINE J == Known(a)
           e == trial[a].finish
           K == {c \in VmAttempts : trial[c].marked.start # -1 /\ trial[c].marked.start <= e}
           end(b) == IF trial[b].finish = -1 THEN e ELSE Min({trial[b].finish, e})
           i(b) == [attempt |-> b, start |-> trial[b].start, finish |-> end(b)]
<1>1. VmTypes /\ VmBusy /\ vmClock \in Nat
  BY DEF VmInv, VmTypes
<1>2. \A b \in VmAttempts : trial[b].start = trial[b].marked.start /\ trial[b].finish = trial[b].marked.finish
  BY DEF Unseen
<1>3. \A b \in VmAttempts : trial[b].start \in -1 .. vmClock /\ trial[b].finish \in -1 .. vmClock
  BY <1>1, RowTimes
<1>4. e \in 0 .. vmClock /\ trial[a].start \in 0 .. e
  <2>1. e # -1 /\ trial[a].start # -1 /\ trial[a].start <= e
    BY <1>1, RowTimes DEF At
  <2> QED
    BY <1>1, <1>3, <2>1
<1>5. \A b : b \in K <=> b \in VmAttempts /\ trial[b].start # -1 /\ trial[b].start <= e
  BY <1>2
<1>6. J = {i(b) : b \in K}
  <2> DEFINE k(b) == [attempt |-> b, start |-> trial[b].marked.start,
                      finish |-> IF trial[b].marked.finish = -1 THEN trial[a].finish
                                 ELSE Min({trial[b].marked.finish, trial[a].finish})]
  <2>1. J = {k(b) : b \in K}
    BY DEF Known
  <2>2. \A b \in K : k(b) = i(b)
    BY <1>2
  <2> HIDE DEF k, i, J, K
  <2> QED
    BY <2>1, <2>2
<1>7. ASSUME NEW b \in VmAttempts
      PROVE  /\ end(b) \in 0 .. e
             /\ \A t \in 0 .. vmClock : t < end(b) <=> t < e /\ (trial[b].finish = -1 \/ t < trial[b].finish)
  <2>1. CASE trial[b].finish = -1
    BY <1>1, <1>4, <2>1
  <2>2. CASE trial[b].finish # -1
    <3> DEFINE f == trial[b].finish
    <3>1. f \in 0 .. vmClock /\ end(b) = Min({f, e})
      BY <1>1, <1>3, <2>2
    <3>2. {f, e} \subseteq Nat /\ {f, e} # {}
      BY <1>1, <1>4, <3>1
    <3>3. Min({f, e}) \in {f, e} /\ \A y \in {f, e} : Min({f, e}) <= y
      BY <3>2, LeastOf
    <3> DEFINE m == Min({f, e})
    <3>4. (m = f \/ m = e) /\ m <= f /\ m <= e /\ end(b) = m
      BY <3>1, <3>3
    <3>5. e \in 0 .. vmClock /\ f # -1
      BY <1>4, <2>2
    <3> HIDE DEF m, end, e
    <3>6. end(b) \in 0 .. e /\ \A t \in 0 .. vmClock : t < end(b) <=> t < e /\ (f = -1 \/ t < f)
      <4>1. PICK n, x, y, z : n = vmClock /\ x = e /\ y = f /\ z = m
        OBVIOUS
      <4> HIDE DEF f
      <4>2. n \in Nat /\ x \in 0 .. n /\ y \in 0 .. n /\ (z = y \/ z = x) /\ z <= y /\ z <= x
        BY <1>1, <3>1, <3>4, <3>5, <4>1
      <4>3. z \in 0 .. x /\ \A t \in 0 .. n : t < z <=> t < x /\ t < y
        BY <4>2
      <4> QED
        BY <3>4, <3>5, <4>1, <4>3
    <3> QED
      BY <3>6
  <2> QED
    BY <2>1, <2>2
<1>8. \A b : i(b).attempt = b /\ i(b).start = trial[b].start /\ i(b).finish = end(b)
  OBVIOUS
<1> HIDE DEF J, K, end, i
<1>9. ASSUME NEW t \in 0 .. vmClock
      PROVE  ActiveIn(J, t) = IF t < e THEN ActiveAt(t) ELSE {}
  <2>1. \A b : b \in ActiveIn(J, t) <=> b \in K /\ trial[b].start <= t /\ t < end(b)
    <3>1. ActiveIn(J, t) = {x.attempt : x \in {y \in J : y.start <= t /\ t < y.finish}}
      BY DEF ActiveIn
    <3> QED
      BY <1>6, <1>8, <3>1
  <2>2. \A b \in VmAttempts : b \in ActiveIn(J, t) <=> t < e /\ b \in ActiveAt(t)
    BY <1>1, <1>3, <1>4, <1>5, <1>7, <2>1 DEF ActiveAt
  <2>3. ActiveIn(J, t) \subseteq VmAttempts /\ ActiveAt(t) \subseteq VmAttempts
    BY <1>5, <2>1 DEF ActiveAt
  <2> QED
    BY <2>2, <2>3
<1>10. Sound(J, vmClock)
  <2>1. ASSUME NEW x \in J PROVE x.attempt \in VmAttempts /\ x.start \in 0 .. vmClock /\ x.finish \in 0 .. vmClock
    <3>1. PICK b \in K : x = i(b)
      BY <1>6
    <3>2. b \in VmAttempts /\ trial[b].start # -1 /\ x.attempt = b /\ x.start = trial[b].start /\ x.finish = end(b)
      BY <1>5, <1>8, <3>1
    <3> QED
      BY <1>1, <1>3, <1>4, <1>7, <3>2
  <2>2. \A x, y \in J : x.attempt = y.attempt => x = y
    BY <1>6, <1>8
  <2>3. ASSUME NEW t \in 0 .. vmClock PROVE Cardinality(ActiveIn(J, t)) <= VmConcurrency
    BY <1>1, <1>9, FS_EmptySet, VmAssumption DEF VmBusy
  <2> QED
    BY <2>1, <2>2, <2>3 DEF Sound
<1>11. \A t \in trial[a].start .. e - 1 : t \in 0 .. vmClock /\ t < e
  BY <1>1, <1>4
<1>12. SpanIn(J, vmClock, a) = trial[a].start .. e - 1
  <2>1. ASSUME NEW t \in 0 .. vmClock
        PROVE  a \in ActiveIn(J, t) <=> t \in trial[a].start .. e - 1
    <3>1. a \in ActiveAt(t) <=> trial[a].start <= t /\ t < e
      BY <1>1, <1>4 DEF ActiveAt
    <3> QED
      BY <1>1, <1>4, <1>9, <3>1
  <2> QED
    BY <1>11, <2>1 DEF SpanIn
<1> QED
  BY <1>9, <1>10, <1>11, <1>12 DEF J

LEMMA SettleKeeps == ASSUME VmInv, NEW a \in VmAttempts, VmSettle(a) PROVE VmInv'
<1> DEFINE r == [trial[a] EXCEPT !.at = "settled", !.share = Shares(Known(a))[a], !.exact = Unseen = {}]
<1>1. VmTypes /\ VmBusy /\ VmCharged /\ vmClock \in Nat /\ VmIsRow(trial[a]) /\ RowFits(trial[a])
  BY DEF VmInv, VmTypes
<1>2. trial[a].at = "finished" /\ trial' = [trial EXCEPT ![a] = r] /\ vmClock' = vmClock
  BY DEF VmSettle, At
<1>3. /\ VmIsRow(r)
      /\ r.at = "settled" /\ r.start = trial[a].start /\ r.finish = trial[a].finish /\ r.marked = trial[a].marked
      /\ r.share = Shares(Known(a))[a] /\ (r.exact <=> Unseen = {})
  <2> DEFINE z == Shares(Known(a))[a]
             x == Unseen = {}
  <2>1. r = [trial[a] EXCEPT !.at = "settled", !.share = z, !.exact = x] /\ x \in BOOLEAN
    OBVIOUS
  <2> HIDE DEF z, x, r
  <2>2. /\ VmIsRow(r) /\ r.at = "settled" /\ r.start = trial[a].start /\ r.finish = trial[a].finish
        /\ r.marked = trial[a].marked /\ r.share = z /\ r.exact = x
    BY <1>1, <2>1 DEF VmIsRow, VmPlaces
  <2> QED
    BY <2>2 DEF z, x
<1> HIDE DEF r
<1>4. trial'[a] = r /\ \A b \in VmAttempts : b # a => trial'[b] = trial[b]
  BY <1>1, <1>2 DEF VmTypes
<1>5. VmTypes'
  <2>1. ASSUME NEW b \in VmAttempts PROVE (VmIsRow(trial[b]) /\ RowFits(trial[b]))'
    <3>1. CASE b = a
      <4>1. VmIsRow(r) /\ RowFits(r)
        BY <1>1, <1>2, <1>3 DEF VmIsRow, RowFits, VmPlaces
      <4> QED
        BY <1>2, <1>4, <3>1, <4>1 DEF VmIsRow, RowFits
    <3>2. CASE b # a
      <4>1. VmIsRow(trial[b]) /\ RowFits(trial[b]) /\ trial'[b] = trial[b]
        BY <1>1, <1>4, <3>2 DEF VmTypes
      <4> QED
        BY <1>2, <4>1 DEF RowFits, VmIsRow
    <3> QED
      BY <3>1, <3>2
  <2>2. trial' = [b \in VmAttempts |-> trial'[b]]
    BY <1>1, <1>2 DEF VmTypes
  <2> QED
    BY <1>1, <1>2, <2>1, <2>2 DEF VmTypes
<1>6. \A b \in VmAttempts : trial'[b].start = trial[b].start /\ trial'[b].finish = trial[b].finish
  BY <1>3, <1>4
<1>7. \A t : ActiveAt(t)' = ActiveAt(t)
  BY <1>6 DEF ActiveAt
<1>8. VmBusy'
  <2>1. OnTheWay' \subseteq OnTheWay
    BY <1>3, <1>4 DEF OnTheWay
  <2>2. Cardinality(OnTheWay') <= Cardinality(OnTheWay) /\ Cardinality(OnTheWay') \in Nat /\ Cardinality(OnTheWay) \in Nat
    BY <2>1, VmSetsFinite, FS_Subset, FS_CardinalityType
  <2>3. Cardinality(OnTheWay') <= VmConcurrency
    BY <1>1, <2>2, VmAssumption DEF VmBusy
  <2> QED
    BY <1>1, <1>2, <1>7, <2>3 DEF VmBusy
<1>9. VmCharged'
  <2> SUFFICES ASSUME NEW c \in VmAttempts, At(c, "settled")', trial'[c].exact
               PROVE  /\ (trial[c].share = Total(Parts, trial[c].start .. trial[c].finish - 1))'
                      /\ \A b \in VmAttempts : At(b, "begun")' => trial'[c].finish <= trial'[b].start
    BY DEF VmCharged
  <2>1. \A b \in VmAttempts : At(b, "begun")' => b # a /\ At(b, "begun") /\ trial'[b] = trial[b]
    BY <1>3, <1>4 DEF At
  <2>2. CASE c = a
    <3>1. Unseen = {} /\ At(a, "finished")
      BY <1>2, <1>3, <1>4, <2>2 DEF At
    <3> DEFINE J == Known(a)
               T == trial[a].start .. trial[a].finish - 1
    <3>2. Sound(J, vmClock) /\ SpanIn(J, vmClock, a) = T /\ \A t \in T : ActiveIn(J, t) = ActiveAt(t)
      BY <3>1, KnownIsActive
    <3>3. IsFiniteSet(T) /\ T \subseteq 0 .. vmClock /\ \A t \in T : Parts[t] \in Nat
      <4>1. trial[a].finish # -1
        BY <1>1, <1>2, RowTimes
      <4> QED
        BY <4>1, PartsAre
    <3> HIDE DEF J
    <3>4. r.share = Total(PartsIn(J), T)
      BY <1>1, <1>3, <3>2, SharesAreParts DEF J
    <3>5. \A t \in T : Parts'[t] = Parts[t] /\ PartsIn(J)[t] = Parts[t]
      <4>1. T \subseteq Nat
        BY <3>3
      <4> QED
        BY <1>7, <3>2, <4>1 DEF Parts, PartsIn
    <3>6. T' = trial'[a].start .. trial'[a].finish - 1 /\ T' = T
      BY <1>6
    <3>7. Total(Parts, T)' = Total(Parts', T)
      BY <3>6
    <3>8. Total(PartsIn(J), T) = Total(Parts', T)
      <4> DEFINE p == PartsIn(J)
                 q == Parts'
      <4>1. \A t \in T : p[t] \in Nat /\ q[t] = p[t]
        BY <3>3, <3>5
      <4> HIDE DEF p, q, T
      <4>2. Total(p, T) = Total(q, T)
        BY <3>3, <4>1, TotalEqual
      <4> QED
        BY <4>2 DEF p, q
    <3>9. (trial[c].share = Total(Parts, trial[c].start .. trial[c].finish - 1))'
      BY <1>4, <2>2, <3>4, <3>7, <3>8
    <3>10. \A b \in VmAttempts : ~At(b, "begun")
      <4>1. \A b \in VmAttempts : At(b, "begun") => trial[b].start # -1 /\ trial[b].marked.start = -1
        <5> SUFFICES ASSUME NEW b \in VmAttempts, At(b, "begun")
                     PROVE  trial[b].start # -1 /\ trial[b].marked.start = -1
          OBVIOUS
        <5>1. RowFits(trial[b]) /\ trial[b].at = "begun"
          BY <1>1 DEF VmTypes, At
        <5>2. trial[b].marked = Unmarked /\ trial[b].start \in 0 .. vmClock
          BY <5>1 DEF RowFits
        <5> QED
          BY <1>1, <5>2 DEF Unmarked
      <4> QED
        BY <3>1, <4>1 DEF Unseen
    <3> QED
      BY <2>1, <3>9, <3>10
  <2>3. CASE c # a
    <3>1. trial'[c] = trial[c] /\ At(c, "settled") /\ trial[c].exact
      BY <1>4, <2>3 DEF At
    <3>2. (trial[c].share = Total(Parts, trial[c].start .. trial[c].finish - 1))'
      BY <1>7, <3>1, ChargeStays
    <3> QED
      BY <1>1, <2>1, <3>1, <3>2 DEF VmCharged
  <2> QED
    BY <2>2, <2>3
<1> QED
  BY <1>5, <1>8, <1>9 DEF VmInv

LEMMA VmStepKeeps == VmInv /\ [VmNext]_vmVars => VmInv'
<1> SUFFICES ASSUME VmInv, [VmNext]_vmVars PROVE VmInv'
  OBVIOUS
<1>1. CASE VmTick
  BY <1>1, TickKeeps
<1>2. ASSUME NEW a \in VmAttempts, VmBegin(a) PROVE VmInv'
  BY <1>2, BeginKeeps
<1>3. ASSUME NEW a \in VmAttempts,
             VmTakeTime(a) \/ VmCheckRaises(a) \/ VmMarkStarted(a) \/ VmEnd(a) \/ VmMarkFinished(a)
      PROVE  VmInv'
  BY <1>3, ThreadKeeps
<1>4. ASSUME NEW a \in VmAttempts, VmSettle(a) PROVE VmInv'
  BY <1>4, SettleKeeps
<1>5. CASE UNCHANGED vmVars
  <2>1. vmClock' = vmClock /\ trial' = trial
    BY <1>5 DEF vmVars
  <2>2. VmTypes' /\ VmBusy'
    BY <2>1 DEF VmInv, VmTypes, VmIsRow, RowFits, VmBusy, OnTheWay, ActiveAt
  <2>3. VmCharged'
    <3>1. Parts' = Parts
      BY <2>1 DEF Parts, ActiveAt
    <3>2. \A T : Total(Parts, T)' = Total(Parts, T)
      BY <3>1
    <3> QED
      BY <2>1, <3>1 DEF VmInv, VmCharged, At
  <2> QED
    BY <2>2, <2>3 DEF VmInv
<1> QED
  BY <1>1, <1>2, <1>3, <1>4, <1>5 DEF VmNext

\* The invariant of VmCost holds for every number of attempts and threads.
THEOREM VmInvariant == VmSpec => []VmInv
  BY VmInitially, VmStepKeeps, PTL DEF VmSpec

\* What an attempt was charged is, for each second in which it was active, that
\* second divided by the number of attempts that were (allocate_active_vm_cost
\* of screening_cost.py), also of those that ended after it was settled
\* (allocation_for of screening_run.py), unless it was settled while another had
\* taken a time and not marked it.
THEOREM VmAlwaysCharged == VmSpec => []VmCharged
<1>1. VmInv => VmCharged
  BY DEF VmInv
<1> QED
  BY <1>1, VmInvariant, PTL

-----------------------------------------------------------------------------
(* What all have paid                                                      *)

\* Each member of S pays for the seconds it is of, which are among 0 .. n, and
\* those who are of a second pay c for it together.
ArePaid(S, n, of, part, c, who, paid, U) ==
    /\ IsFiniteSet(S) /\ n \in Nat /\ c \in Nat
    /\ \A a \in S : of[a] \subseteq 0 .. n /\ paid[a] = Total(part, of[a])
    /\ \A t \in 0 .. n : part[t] \in Nat /\ (who[t] # {} => Cardinality(who[t]) * part[t] = c)
    /\ \A t \in 0 .. n : who[t] \subseteq S /\ \A a \in S : a \in who[t] <=> t \in of[a]
    /\ \A t : t \in U <=> \E a \in S : t \in of[a]

\* Paid by attempt or paid by second, it is the same.
LEMMA PaidBySecond ==
    ASSUME NEW S, NEW n, NEW of, NEW part, NEW c, NEW who, NEW paid, NEW U,
           ArePaid(S, n, of, part, c, who, paid, U)
    PROVE  Total(paid, S) = c * Cardinality(U)
<1> DEFINE paidIn(T) == [a \in S |-> Total(part, T \cap of[a])]
           Bad == {T \in SUBSET (0 .. n) : Total(paidIn(T), S) # c * Cardinality(T \cap U)}
<1>1. n \in Nat /\ n \in Int
  BY DEF ArePaid
<1>2. IsFiniteSet(0 .. n)
  BY <1>1, FS_Interval
<1> USE DEF ArePaid
<1>3. Bad = {} => Total(paid, S) = c * Cardinality(U)
  <2>1. (0 .. n) \cap U = U
    OBVIOUS
  <2>2. Bad = {} => Total(paidIn(0 .. n), S) = c * Cardinality(U)
    <3>1. Bad = {} => Total(paidIn(0 .. n), S) = c * Cardinality((0 .. n) \cap U)
      OBVIOUS
    <3> HIDE DEF Bad, paidIn
    <3> QED
      BY <2>1, <3>1
  <2>3. Total(paidIn(0 .. n), S) = Total(paid, S)
    <3> DEFINE q == paidIn(0 .. n)
    <3>1. ASSUME NEW a \in S PROVE q[a] \in Nat /\ paid[a] = q[a]
      <4>1. (0 .. n) \cap of[a] = of[a] /\ \A x \in of[a] : part[x] \in Nat
        OBVIOUS
      <4>2. IsFiniteSet(of[a])
        BY <1>2, FS_Subset
      <4>3. Total(part, of[a]) \in Nat
        BY <4>1, <4>2, TotalType
      <4> QED
        BY <4>1, <4>3
    <3> HIDE DEF q
    <3>2. Total(q, S) = Total(paid, S)
      BY <3>1, TotalEqual
    <3> QED
      BY <3>2 DEF q
  <2> HIDE DEF Bad, paidIn, ArePaid
  <2> QED
    BY <2>2, <2>3
<1> HIDE DEF ArePaid, Bad
<1>4. SUFFICES ASSUME Bad # {} PROVE FALSE
  BY <1>3
<1> USE DEF ArePaid, Bad
<1>5. PICK T \in Bad : IsFiniteSet(T) /\ \A V \in SUBSET T : V # T => V \notin Bad
  <2>1. Bad \subseteq SUBSET (0 .. n)
    OBVIOUS
  <2> HIDE DEF Bad, ArePaid
  <2> QED
    BY <1>2, <1>4, <2>1, SmallestSubset
<1>6. T \subseteq 0 .. n /\ Total(paidIn(T), S) # c * Cardinality(T \cap U)
  OBVIOUS
<1>7. T # {}
  <2>1. SUFFICES ASSUME T = {} PROVE FALSE
    OBVIOUS
  <2>2. \A a \in S : paidIn(T)[a] = 0
    <3>1. \A a \in S : T \cap of[a] = {}
      BY <2>1
    <3> QED
      BY <3>1, TotalEmpty
  <2>3. Total(paidIn(T), S) = 0
    <3> DEFINE p == paidIn(T)
    <3>1. \A a \in S : p[a] = 0
      BY <2>2
    <3> HIDE DEF p
    <3>2. Total(p, S) = 0
      BY <3>1, TotalNothing
    <3> QED
      BY <3>2 DEF p
  <2>4. T \cap U = {} /\ Cardinality({}) = 0 /\ c * 0 = 0
    BY <2>1, FS_EmptySet
  <2> QED
    BY <1>6, <2>3, <2>4
<1>8. PICK t \in T : TRUE
  BY <1>7
<1> DEFINE V == T \ {t}
           p == paidIn(T)
           q == paidIn(V)
           h == [a \in S |-> IF a \in who[t] THEN part[t] ELSE 0]
<1>9. Total(q, S) = c * Cardinality(V \cap U)
  BY <1>5, <1>6, <1>8
<1>10. \A a \in S : q[a] \in Nat /\ h[a] \in Nat /\ p[a] = q[a] + h[a]
  <2> SUFFICES ASSUME NEW a \in S PROVE q[a] \in Nat /\ h[a] \in Nat /\ p[a] = q[a] + h[a]
    OBVIOUS
  <2> DEFINE X == T \cap of[a]
             Y == V \cap of[a]
  <2>1. IsFiniteSet(X) /\ IsFiniteSet(Y) /\ (\A x \in X : part[x] \in Nat) /\ (\A x \in Y : part[x] \in Nat)
    <3>1. X \subseteq T /\ Y \subseteq T /\ \A x \in T : part[x] \in Nat
      BY <1>6
    <3> HIDE DEF X, Y
    <3> QED
      BY <1>5, <3>1, FS_Subset
  <2>2. p[a] = Total(part, X) /\ q[a] = Total(part, Y)
    OBVIOUS
  <2>3. q[a] \in Nat
    <3> HIDE DEF X, Y, q, p
    <3> QED
      BY <2>1, <2>2, TotalType
  <2>4. h[a] \in Nat
    BY <1>6, <1>8
  <2>5. CASE t \in of[a]
    <3>1. t \in X /\ X \ {t} = Y /\ h[a] = part[t]
      BY <1>8, <2>5
    <3> HIDE DEF X, Y, q, p, h, V
    <3>2. Total(part, X) = part[t] + Total(part, Y)
      BY <2>1, <3>1, TotalRemove
    <3> QED
      BY <2>2, <2>3, <2>4, <3>1, <3>2
  <2>6. CASE t \notin of[a]
    <3>1. X = Y /\ h[a] = 0
      BY <2>6
    <3> HIDE DEF X, Y, q, p, h, V
    <3> QED
      BY <2>2, <2>3, <3>1
  <2> QED
    BY <2>3, <2>4, <2>5, <2>6
<1>11. Total(p, S) = Total(q, S) + Total(h, S)
  <2> HIDE DEF p, q, h
  <2> QED
    BY <1>10, TotalAdds
<1>12. Total(h, S) = Cardinality(who[t]) * part[t]
  <2> DEFINE W == who[t]
  <2>1. W \subseteq S /\ part[t] \in Nat /\ \A a \in S : h[a] = IF a \in W THEN part[t] ELSE 0
    BY <1>6, <1>8
  <2> HIDE DEF W, h
  <2>2. Total(h, S) = Cardinality(W) * part[t]
    BY <2>1, TotalOfPart
  <2> QED
    BY <2>2 DEF W
<1>13. IsFiniteSet(V \cap U) /\ Cardinality(V \cap U) \in Nat
  BY <1>5, FS_Subset, FS_CardinalityType
<1>14. CASE who[t] = {}
  <2>1. t \notin U
    BY <1>14
  <2>2. T \cap U = V \cap U
    BY <2>1
  <2>3. Total(h, S) = 0
    <3>1. Cardinality({}) = 0 /\ part[t] \in Nat /\ 0 * part[t] = 0
      BY <1>6, <1>8, FS_EmptySet
    <3> QED
      BY <1>12, <1>14, <3>1
  <2> HIDE DEF p, q, h, V
  <2>4. \A m \in Nat : c * m + 0 = c * m
    OBVIOUS
  <2> QED
    BY <1>6, <1>9, <1>11, <1>13, <2>2, <2>3, <2>4 DEF p
<1>15. CASE who[t] # {}
  <2>1. t \in U /\ t \in 0 .. n
    BY <1>6, <1>8, <1>15
  <2>2. T \cap U = (V \cap U) \cup {t} /\ t \notin V \cap U
    BY <1>8, <2>1
  <2>3. Cardinality(T \cap U) = Cardinality(V \cap U) + 1
    BY <1>13, <2>2, FS_AddElement
  <2>4. Total(h, S) = c
    BY <1>12, <1>15, <2>1
  <2> HIDE DEF p, q, h, V
  <2>5. \A m \in Nat : c * (m + 1) = c * m + c
    OBVIOUS
  <2> QED
    BY <1>6, <1>9, <1>11, <1>13, <2>3, <2>4, <2>5 DEF p
<1> QED
  BY <1>14, <1>15

\* A second is paid whole by those active in it.
LEMMA SecondIsPaid ==
    ASSUME VmInv, NEW t \in 0 .. vmClock, ActiveAt(t) # {}
    PROVE  Cardinality(ActiveAt(t)) * Parts[t] = VmSecond
<1> DEFINE k == Cardinality(ActiveAt(t))
<1>1. vmClock \in Nat /\ t \in Nat /\ k \in Nat /\ k <= VmConcurrency /\ k # 0
  BY VmSetsFinite, FS_CardinalityType, FS_EmptySet DEF VmInv, VmTypes, VmBusy
<1>2. Parts[t] = Part(k)
  BY <1>1 DEF Parts
<1> HIDE DEF k
<1>3. Part(k) = VmSecond \div k
  BY <1>1 DEF Part
<1>4. VmSecond \in Nat /\ k > 0 /\ VmSecond % k = 0
  BY <1>1, VmAssumption
<1>5. k * (VmSecond \div k) = VmSecond
  BY <1>1, <1>4, ShareIsWhole
<1> QED
  BY <1>2, <1>3, <1>5 DEF k

ChargedTo(attempts) == MapThenSumSet(LAMBDA a : trial[a].share, attempts)

LEMMA ChargedIsTotal ==
    ASSUME NEW attempts, IsFiniteSet(attempts), NEW f, \A a \in attempts : f[a] = trial[a].share
    PROVE  ChargedTo(attempts) = Total(f, attempts)
<1> DEFINE c == CHOOSE n : n = [s \in SUBSET attempts |->
                               IF s = {} THEN 0 ELSE trial[Pick(s)].share + n[s \ {Pick(s)}]]
<1>1. ChargedTo(attempts) = c[attempts]
  BY DEF ChargedTo, MapThenSumSet, MapThenFoldSet, Pick
<1>2. PICK it : IsSum(it, f, attempts)
  BY SumExists
<1>3. \A s \in SUBSET attempts : s # {} => Pick(s) \in attempts /\ f[Pick(s)] = trial[Pick(s)].share
  BY DEF Pick
<1>4. \A g : IsSum(g, f, attempts) <=>
              g = [s \in SUBSET attempts |-> IF s = {} THEN 0 ELSE trial[Pick(s)].share + g[s \ {Pick(s)}]]
  BY <1>3 DEF IsSum
<1>5. \E n : n = [s \in SUBSET attempts |->
                               IF s = {} THEN 0 ELSE trial[Pick(s)].share + n[s \ {Pick(s)}]]
  BY <1>2, <1>4
<1>6. c = [s \in SUBSET attempts |-> IF s = {} THEN 0 ELSE trial[Pick(s)].share + c[s \ {Pick(s)}]]
  BY <1>5
<1> HIDE DEF c
<1>7. IsSum(c, f, attempts)
  BY <1>4, <1>6
<1> QED
  BY <1>1, <1>7, TotalIsSum

\* The machine's active time is paid exactly once, whatever the attempts, the
\* number of threads and the times at which the attempts start, end, are marked
\* and are settled (_ActiveVmCostTracker and _run_completion_driven of
\* screening_run.py, allocate_active_vm_cost of screening_cost.py), unless an
\* attempt was settled while another had taken a time and not marked it.
THEOREM VmAlwaysPaidOnce == VmSpec => []VmPaidOnce
<1>1. VmInv => VmPaidOnce
  <2> SUFFICES ASSUME VmInv, \A a \in VmAttempts : trial[a].at \in {"planned", "settled"},
                      \A a \in Settled : trial[a].exact
               PROVE  ChargedTo(Settled) = VmSecond * Cardinality(Seconds(Settled))
    BY DEF VmPaidOnce, ChargedTo
  <2> DEFINE S == Settled
             of == [a \in S |-> trial[a].start .. trial[a].finish - 1]
             paid == [a \in S |-> Total(Parts, of[a])]
  <2>1. VmTypes /\ vmClock \in Nat /\ S \subseteq VmAttempts /\ IsFiniteSet(S)
    BY VmAssumption, FS_Subset DEF VmInv, VmTypes, Settled
  <2>2. ASSUME NEW a \in S
        PROVE  /\ trial[a].start \in 0 .. vmClock /\ trial[a].finish \in 0 .. vmClock
               /\ trial[a].share = Total(Parts, of[a]) /\ of[a] \subseteq 0 .. vmClock
    <3>1. a \in VmAttempts /\ At(a, "settled") /\ trial[a].exact /\ trial[a].at = "settled"
      BY DEF Settled, At
    <3>2. trial[a].start # -1 /\ trial[a].finish # -1 /\ trial[a].start \in -1 .. vmClock /\ trial[a].finish \in -1 .. vmClock
      BY <2>1, <3>1, RowTimes
    <3>3. of[a] = trial[a].start .. trial[a].finish - 1
      OBVIOUS
    <3>4. trial[a].share = Total(Parts, of[a])
      BY <3>1, <3>3 DEF VmInv, VmCharged
    <3>5. of[a] \subseteq 0 .. vmClock
      BY <3>1, <3>2, <3>3, PartsAre
    <3> QED
      BY <2>1, <3>2, <3>4, <3>5
  <2>3. \A t \in 0 .. vmClock : Parts[t] \in Nat
    <3>1. CASE VmAttempts = {}
      <4>1. \A t : ActiveAt(t) = {}
        BY <3>1 DEF ActiveAt
      <4>2. \A t \in 0 .. vmClock : Parts[t] = 0
        BY <2>1, <4>1, FS_EmptySet DEF Parts, Part
      <4> QED
        BY <4>2
    <3>2. CASE VmAttempts # {}
      BY <3>2, PartsAre
    <3> QED
      BY <3>1, <3>2
  <2>4. ASSUME NEW t \in 0 .. vmClock PROVE {a \in S : t \in of[a]} = ActiveAt(t)
    <3>1. \A a \in S : t \in of[a] <=> a \in ActiveAt(t)
      <4> SUFFICES ASSUME NEW a \in S PROVE t \in of[a] <=> a \in ActiveAt(t)
        OBVIOUS
      <4>1. a \in VmAttempts /\ trial[a].start \in 0 .. vmClock /\ trial[a].finish \in 0 .. vmClock
        BY <2>1, <2>2
      <4>2. of[a] = trial[a].start .. trial[a].finish - 1
        OBVIOUS
      <4> QED
        BY <2>1, <4>1, <4>2 DEF ActiveAt
    <3>2. ActiveAt(t) \subseteq S
      <4> SUFFICES ASSUME NEW a \in ActiveAt(t) PROVE a \in S
        OBVIOUS
      <4>1. a \in VmAttempts /\ trial[a].start # -1
        BY <2>1 DEF ActiveAt
      <4> QED
        BY <2>1, <4>1, RowTimes DEF Settled, At
    <3> QED
      BY <3>1, <3>2
  <2>5. \A t \in 0 .. vmClock : ActiveAt(t) # {} => Cardinality(ActiveAt(t)) * Parts[t] = VmSecond
    BY SecondIsPaid
  <2>6. ChargedTo(S) = Total(paid, S)
    <3>1. \A a \in S : paid[a] = trial[a].share
      BY <2>2
    <3> HIDE DEF paid, S
    <3> QED
      BY <2>1, <3>1, ChargedIsTotal
  <2>7. \A t : t \in Seconds(S) <=> \E a \in S : t \in of[a]
    BY DEF Seconds
  <2>8. Total(paid, S) = VmSecond * Cardinality(Seconds(S))
    <3> DEFINE now == [t \in 0 .. vmClock |-> ActiveAt(t)]
    <3>1. PICK n, part, o, s, who, p, U :
             n = vmClock /\ part = Parts /\ o = of /\ s = S /\ who = now /\ p = paid /\ U = Seconds(S)
      OBVIOUS
    <3>2. IsFiniteSet(s) /\ n \in Nat /\ VmSecond \in Nat
      BY <2>1, <3>1, VmAssumption
    <3>3. \A a \in s : o[a] \subseteq 0 .. n /\ p[a] = Total(part, o[a])
      BY <2>2, <3>1
    <3>4. \A t \in 0 .. n : who[t] = ActiveAt(t)
      BY <3>1
    <3> HIDE DEF S, of, paid, now
    <3>5. \A t \in 0 .. n : part[t] \in Nat /\ (who[t] # {} => Cardinality(who[t]) * part[t] = VmSecond)
      BY <2>3, <2>5, <3>1, <3>4
    <3>6. \A t \in 0 .. n : who[t] \subseteq s /\ \A a \in s : a \in who[t] <=> t \in o[a]
      BY <2>4, <3>1, <3>4
    <3>7. \A t : t \in U <=> \E a \in s : t \in o[a]
      BY <2>7, <3>1
    <3>8. Total(p, s) = VmSecond * Cardinality(U)
      <4>1. ArePaid(s, n, o, part, VmSecond, who, p, U)
        BY <3>2, <3>3, <3>5, <3>6, <3>7 DEF ArePaid
      <4> QED
        BY <4>1, PaidBySecond
    <3> QED
      BY <3>1, <3>8
  <2> QED
    BY <2>6, <2>8
<1> QED
  BY <1>1, VmInvariant, PTL

=============================================================================

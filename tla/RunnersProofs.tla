---------------------------- MODULE RunnersProofs ----------------------------
(***************************************************************************)
(* Theorems about the runners that do not go through the screening: the    *)
(* native run, the local run with its proxy and the static run.  A section *)
(* per module, in the order of EXTENDS; they share no state.               *)
(***************************************************************************)
EXTENDS NativeRun, LocalRun, StaticRun, FiniteLemmas, FiniteSetTheorems, SequenceTheorems, TLAPS

(***************************************************************************)
(* NativeRun: what a written bundle counts, stages and claims holds for any*)
(* number of tasks and repetitions, any concurrency and any faults.        *)
(***************************************************************************)
-----------------------------------------------------------------------------
(* Constants, blocks and rows                                              *)

LEMMA TaskNumber == TaskCount \in Nat /\ TaskCount > 0
<1>1. IsFiniteSet(Tasks) /\ Tasks # {}
  BY BaselineAssumption
<1> QED
  BY <1>1, FS_CardinalityType, FS_EmptySet DEF TaskCount

LEMMA DivMul ==
    ASSUME NEW b \in Nat, NEW t \in Nat, t > 0
    PROVE  (b * t) \div t = b
  OBVIOUS
LEMMA DivBound ==
    ASSUME NEW n \in Nat, NEW t \in Nat, t > 0
    PROVE  n \div t \in Nat /\ t * (n \div t) <= n /\ n < t * (n \div t) + t
  OBVIOUS
LEMMA InRow ==
    ASSUME NEW k \in Nat, k > 0, NEW t \in Nat, t > 0, NEW b \in Nat, ((k - 1) \div t) + 1 <= b
    PROVE  k <= b * t
  OBVIOUS
LEMMA TimesNat ==
    ASSUME NEW a \in Nat, NEW t \in Nat
    PROVE  a * t \in Nat /\ (a + 1) * t = a * t + t
  OBVIOUS
LEMMA TimesLess ==
    ASSUME NEW a \in Nat, NEW b \in Nat, a < b, NEW t \in Nat, t > 0
    PROVE  a * t < b * t /\ a * t + t <= b * t
  OBVIOUS
LEMMA TimesCancel ==
    ASSUME NEW a \in Nat, NEW b \in Nat, NEW t \in Nat, t > 0, a * t <= b * t
    PROVE  a <= b
  OBVIOUS

\* The repetitions of the blocks that a run of a mode goes through.
Modes == {"none", "compressor", "cache_reuse"}
BlockOf(m, b) == IF m = "none" THEN <<Interim, Minimum, Maximum>>[b]
                 ELSE IF m = "compressor" THEN Len(BaselineRows) ELSE 1

LEMMA BlockSizes ==
    ASSUME mode \in Modes, run.block \in 1 .. 3, mode # "none" => run.block = 1
    PROVE  /\ Blocks[run.block] = BlockOf(mode, run.block)
           /\ Blocks[run.block] \in 1 .. Maximum
           /\ LastOfBlock = Blocks[run.block] * TaskCount /\ LastOfBlock \in Nat
           /\ 1 .. LastOfBlock \subseteq Plan
<1>1. /\ Interim \in Nat \ {0} /\ Minimum \in Nat /\ Maximum \in Nat
      /\ Interim < Minimum /\ Minimum < Maximum /\ Len(BaselineRows) \in {Minimum, Maximum}
  BY BaselineAssumption, NativeAssumption
<1>2. Blocks[run.block] = BlockOf(mode, run.block)
  <2>1. CASE mode = "none"
    BY <2>1 DEF Blocks, BlockOf
  <2>2. CASE mode = "compressor"
    <3>1. Blocks = <<Len(BaselineRows)>> /\ run.block = 1
      BY <2>2 DEF Blocks
    <3> QED
      BY <2>2, <3>1 DEF BlockOf
  <2>3. CASE mode = "cache_reuse"
    <3>1. Blocks = <<1>> /\ run.block = 1
      BY <2>3 DEF Blocks
    <3> QED
      BY <2>3, <3>1 DEF BlockOf
  <2> QED
    BY <2>1, <2>2, <2>3 DEF Modes
<1>3. Blocks[run.block] \in 1 .. Maximum
  BY <1>1, <1>2 DEF BlockOf
<1>4. LastOfBlock = Blocks[run.block] * TaskCount /\ LastOfBlock \in Nat
  BY <1>3, TaskNumber, TimesNat DEF LastOfBlock
<1>5. LastOfBlock <= Maximum * TaskCount /\ Maximum * TaskCount \in Nat
  <2> DEFINE b == Blocks[run.block]
  <2>1. b \in Nat /\ b <= Maximum
    BY <1>3
  <2> HIDE DEF b
  <2>2. b * TaskCount <= Maximum * TaskCount /\ Maximum * TaskCount \in Nat
    BY <1>1, <2>1, TaskNumber, TimesLess, TimesNat
  <2> QED
    BY <1>4, <2>2 DEF b
<1> QED
  BY <1>2, <1>3, <1>4, <1>5 DEF Plan

\* The trials of a repetition come before the end of its row.
LEMMA RowTrials ==
    ASSUME NEW b \in Nat, NEW r \in 1 .. b, NEW k \in TrialsOf(r)
    PROVE  k \in Plan /\ k \in 1 .. b * TaskCount
<1>1. k \in Plan /\ RepetitionOf(k) = r
  BY DEF TrialsOf
<1>2. k \in Nat /\ k > 0
  BY <1>1, TaskNumber, BaselineAssumption, TimesNat DEF Plan
<1>3. ((k - 1) \div TaskCount) + 1 <= b
  BY <1>1 DEF RepetitionOf
<1> QED
  BY <1>1, <1>2, <1>3, TaskNumber, InRow, TimesNat

\* run_repetition_block counts leading complete rows, all when all are.
LEMMA CountedRows ==
    ASSUME NEW n \in Nat
    PROVE  /\ CompleteRows(n) \in Nat
           /\ \A q \in 1 .. CompleteRows(n) : RowComplete(q)
           /\ \A b \in Nat : n = b * TaskCount /\ (\A q \in 1 .. b : RowComplete(q)) => CompleteRows(n) = b
<1> DEFINE m == n \div TaskCount
           S == {r \in 0 .. m : \A q \in 1 .. r : RowComplete(q)}
<1>1. m \in Nat
  BY TaskNumber, DivBound
<1>2. CompleteRows(n) = Max(S)
  BY DEF CompleteRows
<1>3. 0 \in S /\ S \subseteq 0 .. m
  BY <1>1
<1>4. Max(S) \in S /\ \A y \in S : y <= Max(S)
  BY <1>1, <1>3, GreatestOf
<1>5. ASSUME NEW b \in Nat, n = b * TaskCount, \A q \in 1 .. b : RowComplete(q)
      PROVE  Max(S) = b
  <2>1. m = b
    BY <1>5, TaskNumber, DivMul
  <2>2. b \in S
    BY <1>5, <2>1
  <2> QED
    BY <1>1, <1>4, <2>1, <2>2
<1> QED
  BY <1>1, <1>2, <1>4, <1>5

-----------------------------------------------------------------------------
(* The inductive invariant                                                 *)

NrStates == {"planned", "registered", "running", "closed", "collecting", "written", "raised"}
NrLeaders == {"none", "alive", "exit_zero", "exit_error", "killed"}
NrUsages == {"none", "known", "unknown"}
NrTrials == [at : NrStates, leader : NrLeaders, group : BOOLEAN, stopped : BOOLEAN, limit : BOOLEAN,
             waiting : Nat, sent : Nat, unread : Nat, usage : NrUsages,
             clean : BOOLEAN, behind : BOOLEAN, late : BOOLEAN, valid : BOOLEAN]
NrPlaces == {"setup", "block", "wave", "report", "decide", "finally", "written"}
NrRuns == [at : NrPlaces, block : 1 .. 3, wave : SUBSET Plan, next : Nat \ {0}, reported : Nat, spool : BOOLEAN]
NrFields == {"status", "trials", "rows", "interim", "decision", "comparison", "before", "upload", "items", "reason"}

NrTypeOK ==
    /\ mode \in Modes
    /\ rewards # <<>> => rewards \in RewardTables
    /\ trial \in [Plan -> NrTrials]
    /\ run \in NrRuns
    /\ DOMAIN summary = NrFields /\ summary = [f \in NrFields |-> summary[f]]
    /\ summary.trials \in Nat /\ summary.rows \in Nat

\* What a trial's record says, in a run at `driver` whose failure is `stop`.
NrTrialOK(k, row, stop, driver) ==
    /\ row.at \in {"planned", "registered"} => ~row.stopped /\ ~row.group
    /\ row.at = "running" => ~row.stopped
    /\ row.at \in {"registered", "running"} => driver.at = "wave" /\ k \in driver.wave
    /\ row.stopped /\ row.group => stop # NoFailure
    /\ row.valid => /\ row.at = "written" /\ row.leader = "exit_zero" /\ ~row.stopped /\ row.clean
                    /\ row.late \/ row.usage = "known"
    /\ row.late => row.at = "written" /\ row.behind
    /\ row.at = "written" /\ ~row.behind => UnderWay(row) = 0
    /\ UnderWay(row) # 0 => driver.at # "written"
    /\ driver.at \notin {"finally", "written"} /\ k >= driver.next =>
          row.at = "planned" \/ (driver.at = "wave" /\ k \in driver.wave)
NrTrialsOK == \A k \in Plan : NrTrialOK(k, trial[k], failure, run)

AllValid(n) == \A k \in 1 .. n : k \in Plan /\ trial[k].valid

\* Where the run is in its blocks.
NrPlaceOK ==
    /\ mode # "none" => run.block = 1
    /\ run.at = "setup" => run.next = 1
    /\ run.at = "block" => run.next <= LastOfBlock
    /\ run.at = "wave" => \E last \in run.next .. LastOfBlock : run.wave = run.next .. last
    /\ run.at \in {"setup", "block", "wave"} => AllValid(run.next - 1)
    /\ run.at = "report" =>
          /\ run.next <= LastOfBlock + 1
          /\ \A k \in 1 .. run.next - 1 : k \in Plan /\ (k \in run.wave \/ trial[k].valid)
          /\ \A k \in run.wave : k < run.next
    /\ run.at = "decide" =>
          /\ run.next = LastOfBlock + 1 /\ AllValid(run.next - 1)
          /\ summary.trials = run.next - 1
          /\ summary.rows = Blocks[run.block] /\ run.reported = Blocks[run.block]

\* What was staged and counted.
NrRowsOK ==
    /\ run.reported * TaskCount <= run.next - 1
    /\ staged = [i \in 1 .. run.reported |-> i]
    /\ \A r \in 1 .. run.reported : RowComplete(r)
    /\ \A r \in 1 .. summary.rows : RowComplete(r)
    /\ run.at \in {"block", "wave", "report", "decide"} => run.spool

\* The decisions that were taken.
NrDecided ==
    /\ mode = "none" /\ run.block = 1 /\ run.at \notin {"finally", "written"} => summary.interim = "none"
    /\ run.block > 1 => rewards # <<>> /\ summary.interim = InterimDecision(Rows(Interim))
    /\ run.block = 3 => Decision(Rows(Minimum)) = "extend_to_total_20"
    /\ run.at \notin {"finally", "written"} => summary.status = "running" /\ summary.before = "none"

\* What a summary that claims to have measured something rests on.
NrMeasured(claim) ==
    /\ summary.trials = run.next - 1 /\ AllValid(run.next - 1)
    /\ \A k \in Plan : k >= run.next => trial[k].at = "planned"
    /\ summary.rows = BlockOf(mode, run.block) /\ summary.trials = summary.rows * TaskCount
    /\ run.spool /\ run.reported = summary.rows
    /\ mode = "none" => /\ run.block \in {2, 3} /\ rewards # <<>>
                        /\ summary.decision = Decision(Rows(summary.rows))
                        /\ Decision(Rows(summary.rows)) # "extend_to_total_20"
                        /\ claim = StatusOf(Rows(summary.rows))
    /\ mode = "compressor" => summary.comparison = CompareQuality(BaselineRows, Rows(summary.rows), 1)
    /\ mode # "none" => claim = "complete"
Claims == {"complete", "inconclusive"}
NrClaimsOK ==
    /\ run.at = "finally" => summary.before = "none" /\ summary.status # "retrieval_pending"
                             /\ (summary.status \in Claims => NrMeasured(summary.status))
    /\ Written /\ Measured \in Claims /\ summary.upload # "finalization_error" =>
          /\ NrMeasured(Measured) /\ summary.items = staged
          /\ summary.status \in Claims => summary.upload = "uploaded"
          /\ summary.status = "retrieval_pending" => summary.upload = "retrieval_pending"
          /\ summary.status \in Claims \cup {"retrieval_pending"}

NrInv == NrTypeOK /\ NrTrialsOK /\ NrPlaceOK /\ NrRowsOK /\ NrDecided /\ NrClaimsOK

-----------------------------------------------------------------------------
(* The steps of the trials                                                 *)

\* What the properties are about follows from records that only become valid.
LEMMA TrialStep ==
    ASSUME NrInv, NEW k \in Plan, NEW row \in NrTrials, trial' = [trial EXCEPT ![k] = row],
           UNCHANGED <<mode, rewards, run, staged, summary>>,
           failure # NoFailure => failure' # NoFailure,
           trial[k].at # "planned", trial[k].valid => row.valid,
           trial[k].at = "written" => row.at = "written",
           NrTrialOK(k, row, failure', run)
    PROVE  NrInv'
<1>1. trial \in [Plan -> NrTrials]
  BY DEF NrInv, NrTypeOK
<1>2. \A j \in Plan : trial'[j] = IF j = k THEN row ELSE trial[j]
  BY <1>1
<1>3. NrTypeOK'
  BY <1>1 DEF NrInv, NrTypeOK
<1>4. NrTrialsOK'
  <2> SUFFICES ASSUME NEW j \in Plan PROVE NrTrialOK(j, trial'[j], failure', run')
    BY DEF NrTrialsOK
  <2>1. CASE j = k
    BY <1>2, <2>1
  <2>2. CASE j # k
    <3>1. NrTrialOK(j, trial[j], failure, run) /\ trial'[j] = trial[j] /\ run' = run
      BY <1>2, <2>2 DEF NrInv, NrTrialsOK
    <3> QED
      BY <3>1 DEF NrTrialOK
  <2> QED
    BY <2>1, <2>2
<1>5. \A j \in Plan : (trial[j].valid => trial'[j].valid) /\ (trial[j].at = "written" => trial'[j].at = "written")
                      /\ (trial[j].at = "planned" => trial'[j].at = "planned")
  BY <1>2
<1>6. \A n : AllValid(n) => AllValid(n)'
  BY <1>5 DEF AllValid
<1>7. \A r : RowComplete(r) => RowComplete(r)'
  <2> SUFFICES ASSUME NEW r, RowComplete(r), NEW j \in TrialsOf(r) PROVE trial'[j].at = "written" /\ trial'[j].valid
    BY DEF RowComplete
  <2>1. j \in Plan
    BY DEF TrialsOf
  <2> QED
    BY <1>5, <2>1 DEF RowComplete
<1>8. NrPlaceOK'
  BY <1>5, <1>6 DEF NrInv, NrPlaceOK, LastOfBlock, Blocks
<1>9. NrRowsOK'
  BY <1>7 DEF NrInv, NrRowsOK
<1>10. NrDecided'
  BY DEF NrInv, NrDecided, Rows
<1>11. \A c : NrMeasured(c) => NrMeasured(c)'
  BY <1>5, <1>6 DEF NrMeasured, Rows
<1>12. NrClaimsOK'
  BY <1>11 DEF NrInv, NrClaimsOK, Written, Measured
<1> QED
  BY <1>3, <1>4, <1>8, <1>9, <1>10, <1>12 DEF NrInv

\* A step that changes no record and no more than the run's failure.
LEMMA FailureStep ==
    ASSUME NrInv, UNCHANGED <<mode, rewards, trial, run, staged, summary>>,
           failure # NoFailure => failure' # NoFailure
    PROVE  NrInv'
<1>1. NrTypeOK'
  BY DEF NrInv, NrTypeOK
<1>2. NrTrialsOK'
  BY DEF NrInv, NrTrialsOK, NrTrialOK
<1>3. NrPlaceOK' /\ NrRowsOK'
  BY DEF NrInv, NrPlaceOK, NrRowsOK, AllValid, RowComplete, LastOfBlock, Blocks
<1>4. NrDecided'
  BY DEF NrInv, NrDecided, Rows
<1>5. NrClaimsOK'
  BY DEF NrInv, NrClaimsOK, Written, Measured, NrMeasured, AllValid, Rows
<1> QED
  BY <1>1, <1>2, <1>3, <1>4, <1>5 DEF NrInv

LEMMA RequestTypes ==
    ASSUME NEW row \in NrTrials, NEW w \in Nat, NEW s \in Nat, NEW n \in Nat, NEW u \in NrUsages, NEW l \in BOOLEAN
    PROVE  [row EXCEPT !.waiting = w, !.sent = s, !.unread = n, !.usage = u, !.late = l] \in NrTrials
  BY DEF NrTrials

\* A request goes on, and nothing else of the trial but its limit changes: its
\* events are late if the record of the trial is written.
LEMMA RequestStep ==
    ASSUME NrInv, NEW k \in Plan, NEW row \in NrTrials, trial' = [trial EXCEPT ![k] = row],
           UNCHANGED <<mode, rewards, run, staged, summary>>,
           failure # NoFailure => failure' # NoFailure,
           trial[k].at # "planned", UnderWay(trial[k]) # 0,
           row.at = trial[k].at, row.leader = trial[k].leader, row.group = trial[k].group,
           row.stopped = trial[k].stopped, row.clean = trial[k].clean, row.behind = trial[k].behind,
           row.valid = trial[k].valid,
           row.late \in {trial[k].late, trial[k].late \/ trial[k].at = "written"},
           row.usage = trial[k].usage \/ row.late = (trial[k].late \/ trial[k].at = "written")
    PROVE  NrInv'
<1>1. NrTrialOK(k, trial[k], failure, run) /\ trial[k] \in NrTrials
  BY DEF NrInv, NrTrialsOK, NrTypeOK
<1>2. trial[k].late \in BOOLEAN
  BY <1>1 DEF NrTrials
<1>3. NrTrialOK(k, row, failure', run)
  BY <1>1, <1>2 DEF NrTrialOK
<1> QED
  BY <1>3, TrialStep

LEMMA StoppedKeeps == ASSUME NEW reason, reason # NoFailure PROVE Stopped(reason) # NoFailure
  BY DEF Stopped

LEMMA TrialsKeep ==
    ASSUME NrInv, NEW k \in Plan, trial[k].at # "planned",
           \/ Spawn(k) \/ Ask(k) \/ Send(k) \/ Drop(k) \/ Answer(k) \/ Deliver(k)
           \/ HitLimit(k) \/ Exits(k) \/ PollStops(k) \/ SupervisorRaises(k) \/ LateRequest(k)
           \/ ReadFailure(k) \/ Collect(k) \/ CollectRaises(k)
    PROVE  NrInv'
<1> DEFINE row == trial[k]
<1>1. trial \in [Plan -> NrTrials] /\ row \in NrTrials /\ run \in NrRuns
  BY DEF NrInv, NrTypeOK
<1>2. NrTrialOK(k, row, failure, run)
  BY DEF NrInv, NrTrialsOK
<1>3. row.at \in NrStates /\ row.leader \in NrLeaders /\ row.usage \in NrUsages
      /\ row.waiting \in Nat /\ row.sent \in Nat /\ row.unread \in Nat
      /\ row.clean \in BOOLEAN /\ row.behind \in BOOLEAN /\ row.late \in BOOLEAN
      /\ row.group \in BOOLEAN /\ row.stopped \in BOOLEAN /\ row.limit \in BOOLEAN /\ row.valid \in BOOLEAN
  BY <1>1 DEF NrTrials
<1>4. CASE Spawn(k)
  <2> DEFINE started == [row EXCEPT !.at = "running", !.leader = "alive", !.group = TRUE]
             refused == [row EXCEPT !.at = "closed", !.stopped = TRUE]
  <2>1. row.at = "registered" /\ failure' = failure /\ UNCHANGED <<mode, rewards, run, staged, summary>>
    BY <1>4 DEF Spawn
  <2>2. started \in NrTrials /\ refused \in NrTrials
    BY <1>1 DEF NrTrials, NrStates, NrLeaders
  <2>3. NrTrialOK(k, started, failure', run) /\ NrTrialOK(k, refused, failure', run)
    BY <1>1, <1>2, <2>1 DEF NrTrialOK, NrTrials
  <2>4. trial' = [trial EXCEPT ![k] = started] \/ trial' = [trial EXCEPT ![k] = refused]
    BY <1>4 DEF Spawn
  <2>5. ~row.valid
    BY <1>2, <2>1 DEF NrTrialOK
  <2> HIDE DEF started, refused
  <2> QED
    BY <2>1, <2>2, <2>3, <2>4, <2>5, TrialStep
<1>5. CASE Ask(k)
  <2> DEFINE asked == [row EXCEPT !.waiting = @ + 1]
  <2>1. row.at = "running" /\ failure' = failure /\ UNCHANGED <<mode, rewards, run, staged, summary>>
        /\ trial' = [trial EXCEPT ![k] = asked]
    BY <1>1, <1>5 DEF Ask
  <2>2. asked \in NrTrials
    BY <1>1 DEF NrTrials
  <2>3. NrTrialOK(k, asked, failure', run)
    BY <1>1, <1>2, <2>1 DEF NrTrialOK, NrTrials
  <2>4. ~row.valid
    BY <1>2, <2>1 DEF NrTrialOK
  <2> HIDE DEF asked
  <2> QED
    BY <2>1, <2>2, <2>3, <2>4, TrialStep
<1>6. CASE Send(k)
  <2> DEFINE late == row.late \/ row.at = "written"
             dispatched == [row EXCEPT !.waiting = @ - 1, !.sent = @ + 1, !.late = late]
  <2>1. row.waiting > 0 /\ failure' = failure /\ UNCHANGED <<mode, rewards, run, staged, summary>>
    BY <1>6 DEF Send
  <2>2. trial' = [trial EXCEPT ![k] = dispatched]
    <3>1. Log([row EXCEPT !.waiting = @ - 1, !.sent = @ + 1]) = dispatched
      BY <1>1 DEF Log, NrTrials
    <3>2. trial' = [trial EXCEPT ![k] = Log([row EXCEPT !.waiting = @ - 1, !.sent = @ + 1])]
      BY <1>1, <1>6 DEF Send
    <3> HIDE DEF dispatched
    <3> QED
      BY <3>1, <3>2
  <2>3. dispatched \in NrTrials
    <3>1. row.waiting - 1 \in Nat /\ row.sent + 1 \in Nat /\ late \in BOOLEAN
      BY <1>3, <2>1
    <3>2. dispatched = [row EXCEPT !.waiting = row.waiting - 1, !.sent = row.sent + 1, !.unread = row.unread,
                                   !.usage = row.usage, !.late = late]
      BY <1>1 DEF NrTrials
    <3> HIDE DEF dispatched, late
    <3> QED
      BY <1>1, <1>3, <3>1, <3>2, RequestTypes
  <2>4. dispatched.at = row.at /\ dispatched.leader = row.leader /\ dispatched.group = row.group
        /\ dispatched.stopped = row.stopped
        /\ dispatched.clean = row.clean /\ dispatched.behind = row.behind /\ dispatched.valid = row.valid
        /\ dispatched.usage = row.usage
        /\ dispatched.late = late
    BY <1>1 DEF NrTrials
  <2>5. UnderWay(row) # 0
    BY <1>3, <2>1 DEF UnderWay
  <2> HIDE DEF dispatched
  <2> QED
    BY <2>1, <2>2, <2>3, <2>4, <2>5, RequestStep
<1>7. CASE Drop(k)
  <2> DEFINE late == row.late \/ row.at = "written"
  <2>1. row.waiting > 0 /\ UNCHANGED <<mode, rewards, run, staged, summary>>
    BY <1>7 DEF Drop
  <2>2. \E l \in {row.late, late} : trial' = [trial EXCEPT ![k] = [row EXCEPT !.waiting = @ - 1, !.late = l]]
    <3>1. [row EXCEPT !.waiting = @ - 1] = [row EXCEPT !.waiting = @ - 1, !.late = row.late]
      BY <1>1 DEF NrTrials
    <3>2. Log([row EXCEPT !.waiting = @ - 1]) = [row EXCEPT !.waiting = @ - 1, !.late = late]
      BY <1>1 DEF NrTrials, Log
    <3>3. \/ trial' = [trial EXCEPT ![k] = [row EXCEPT !.waiting = @ - 1]]
          \/ trial' = [trial EXCEPT ![k] = Log([row EXCEPT !.waiting = @ - 1])]
      BY <1>7 DEF Drop
    <3> QED
      BY <3>1, <3>2, <3>3
  <2>3. PICK l \in {row.late, late} : trial' = [trial EXCEPT ![k] = [row EXCEPT !.waiting = @ - 1, !.late = l]]
    BY <2>2
  <2> DEFINE ended == [row EXCEPT !.waiting = @ - 1, !.late = l]
  <2>4. failure # NoFailure => failure' # NoFailure
    BY <1>7, StoppedKeeps DEF Drop, NoFailure
  <2>5. ended \in NrTrials
    <3>1. row.waiting - 1 \in Nat /\ l \in BOOLEAN
      <4>1. row.waiting - 1 \in Nat /\ row.late \in BOOLEAN /\ late \in BOOLEAN
        BY <1>3, <2>1
      <4> HIDE DEF late
      <4>2. l = row.late \/ l = late
        BY <2>3
      <4> QED
        BY <4>1, <4>2
    <3>2. ended = [row EXCEPT !.waiting = row.waiting - 1, !.sent = row.sent, !.unread = row.unread,
                              !.usage = row.usage, !.late = l]
      BY <1>1 DEF NrTrials
    <3> HIDE DEF ended, late
    <3> QED
      BY <1>1, <1>3, <3>1, <3>2, RequestTypes
  <2>6. ended.at = row.at /\ ended.leader = row.leader /\ ended.group = row.group /\ ended.stopped = row.stopped
        /\ ended.clean = row.clean /\ ended.behind = row.behind /\ ended.valid = row.valid /\ ended.usage = row.usage
        /\ ended.late = l
    BY <1>1 DEF NrTrials
  <2>7. UnderWay(row) # 0
    BY <1>3, <2>1 DEF UnderWay
  <2>8. trial' = [trial EXCEPT ![k] = ended]
    BY <2>3
  <2> HIDE DEF ended
  <2> QED
    BY <2>1, <2>3, <2>4, <2>5, <2>6, <2>7, <2>8, RequestStep
<1>13. CASE Answer(k)
  <2> DEFINE late == row.late \/ row.at = "written"
  <2>1. row.sent > 0 /\ UNCHANGED <<mode, rewards, run, staged, summary>>
    BY <1>13 DEF Answer
  <2>2. \E w \in Nat, n \in Nat, u \in NrUsages :
           trial' = [trial EXCEPT ![k] = [row EXCEPT !.sent = @ - 1, !.late = late, !.waiting = w, !.unread = n, !.usage = u]]
    <3> DEFINE gone == Log([row EXCEPT !.sent = @ - 1])
               lost == [gone EXCEPT !.usage = "unknown"]
               usage == IF row.usage = "none" THEN "known" ELSE row.usage
               well == [gone EXCEPT !.unread = @ + 1, !.usage = IF @ = "none" THEN "known" ELSE @]
    <3>1. well = [row EXCEPT !.sent = @ - 1, !.late = late, !.waiting = row.waiting, !.unread = row.unread + 1, !.usage = usage]
      BY <1>1 DEF NrTrials, Log
    <3>2. lost = [row EXCEPT !.sent = @ - 1, !.late = late, !.waiting = row.waiting, !.unread = row.unread, !.usage = "unknown"]
      BY <1>1 DEF NrTrials, Log
    <3>3. [lost EXCEPT !.waiting = @ + 1]
            = [row EXCEPT !.sent = @ - 1, !.late = late, !.waiting = row.waiting + 1, !.unread = row.unread, !.usage = "unknown"]
      BY <1>1 DEF NrTrials, Log
    <3>4. \/ trial' = [trial EXCEPT ![k] = well]
          \/ trial' = [trial EXCEPT ![k] = lost]
          \/ trial' = [trial EXCEPT ![k] = [lost EXCEPT !.waiting = @ + 1]]
      BY <1>13 DEF Answer
    <3>5. row.unread \in Nat /\ row.unread + 1 \in Nat /\ row.waiting \in Nat /\ row.waiting + 1 \in Nat
          /\ usage \in NrUsages /\ "unknown" \in NrUsages
      BY <1>3 DEF NrUsages
    <3>6. CASE trial' = [trial EXCEPT ![k] = well]
      <4> HIDE DEF well, usage, late
      <4> QED
        BY <3>1, <3>5, <3>6
    <3>7. CASE trial' = [trial EXCEPT ![k] = lost]
      <4> HIDE DEF lost, late
      <4> QED
        BY <3>2, <3>5, <3>7
    <3>8. CASE trial' = [trial EXCEPT ![k] = [lost EXCEPT !.waiting = @ + 1]]
      <4> HIDE DEF lost, late
      <4> QED
        BY <3>3, <3>5, <3>8
    <3> HIDE DEF well, lost
    <3> QED
      BY <3>4, <3>6, <3>7, <3>8
  <2>3. PICK w \in Nat, n \in Nat, u \in NrUsages :
           trial' = [trial EXCEPT ![k] = [row EXCEPT !.sent = @ - 1, !.late = late, !.waiting = w, !.unread = n, !.usage = u]]
    BY <2>2
  <2> DEFINE answered == [row EXCEPT !.sent = @ - 1, !.late = late, !.waiting = w, !.unread = n, !.usage = u]
  <2>4. failure # NoFailure => failure' # NoFailure
    BY <1>13, StoppedKeeps DEF Answer, NoFailure
  <2>5. answered \in NrTrials
    <3>1. row.sent - 1 \in Nat /\ late \in BOOLEAN
      BY <1>3, <2>1
    <3>2. answered = [row EXCEPT !.waiting = w, !.sent = row.sent - 1, !.unread = n, !.usage = u, !.late = late]
      BY <1>1 DEF NrTrials
    <3> HIDE DEF answered, late
    <3> QED
      BY <1>1, <3>1, <3>2, RequestTypes
  <2>6. answered.at = row.at /\ answered.leader = row.leader /\ answered.group = row.group
        /\ answered.stopped = row.stopped /\ answered.clean = row.clean /\ answered.behind = row.behind
        /\ answered.valid = row.valid /\ answered.late = late
    BY <1>1 DEF NrTrials
  <2>7. UnderWay(row) # 0
    BY <1>3, <2>1 DEF UnderWay
  <2>8. trial' = [trial EXCEPT ![k] = answered]
    BY <2>3
  <2> HIDE DEF answered
  <2> QED
    BY <2>1, <2>4, <2>5, <2>6, <2>7, <2>8, RequestStep
<1>14. CASE Deliver(k)
  <2> DEFINE late == row.late \/ row.at = "written"
  <2>1. row.unread > 0 /\ UNCHANGED <<mode, rewards, run, staged, summary>>
    BY <1>14 DEF Deliver
  <2>2. \E l \in {row.late, late} : trial' = [trial EXCEPT ![k] = [row EXCEPT !.unread = @ - 1, !.late = l]]
    <3>1. [row EXCEPT !.unread = @ - 1] = [row EXCEPT !.unread = @ - 1, !.late = row.late]
      BY <1>1 DEF NrTrials
    <3>2. Log([row EXCEPT !.unread = @ - 1]) = [row EXCEPT !.unread = @ - 1, !.late = late]
      BY <1>1 DEF NrTrials, Log
    <3>3. \/ trial' = [trial EXCEPT ![k] = [row EXCEPT !.unread = @ - 1]]
          \/ trial' = [trial EXCEPT ![k] = Log([row EXCEPT !.unread = @ - 1])]
      BY <1>14 DEF Deliver
    <3> QED
      BY <3>1, <3>2, <3>3
  <2>3. PICK l \in {row.late, late} : trial' = [trial EXCEPT ![k] = [row EXCEPT !.unread = @ - 1, !.late = l]]
    BY <2>2
  <2> DEFINE given == [row EXCEPT !.unread = @ - 1, !.late = l]
  <2>4. failure # NoFailure => failure' # NoFailure
    BY <1>14, StoppedKeeps DEF Deliver, NoFailure
  <2>5. given \in NrTrials
    <3>1. row.unread - 1 \in Nat /\ l \in BOOLEAN
      <4>1. row.unread - 1 \in Nat /\ row.late \in BOOLEAN /\ late \in BOOLEAN
        BY <1>3, <2>1
      <4> HIDE DEF late
      <4>2. l = row.late \/ l = late
        BY <2>3
      <4> QED
        BY <4>1, <4>2
    <3>2. given = [row EXCEPT !.waiting = row.waiting, !.sent = row.sent, !.unread = row.unread - 1,
                              !.usage = row.usage, !.late = l]
      BY <1>1 DEF NrTrials
    <3> HIDE DEF given, late
    <3> QED
      BY <1>1, <1>3, <3>1, <3>2, RequestTypes
  <2>6. given.at = row.at /\ given.leader = row.leader /\ given.group = row.group /\ given.stopped = row.stopped
        /\ given.clean = row.clean /\ given.behind = row.behind /\ given.valid = row.valid /\ given.usage = row.usage
        /\ given.late = l
    BY <1>1 DEF NrTrials
  <2>7. UnderWay(row) # 0
    BY <1>3, <2>1 DEF UnderWay
  <2>8. trial' = [trial EXCEPT ![k] = given]
    BY <2>3
  <2> HIDE DEF given
  <2> QED
    BY <2>1, <2>3, <2>4, <2>5, <2>6, <2>7, <2>8, RequestStep
<1>15. CASE HitLimit(k)
  <2> DEFINE hit == [row EXCEPT !.limit = TRUE]
  <2>1. failure' = failure /\ UNCHANGED <<mode, rewards, run, staged, summary>> /\ trial' = [trial EXCEPT ![k] = hit]
    BY <1>1, <1>15 DEF HitLimit
  <2>2. hit \in NrTrials
    BY <1>1 DEF NrTrials
  <2>3. hit.at = row.at /\ hit.leader = row.leader /\ hit.group = row.group /\ hit.stopped = row.stopped
        /\ hit.clean = row.clean /\ hit.behind = row.behind /\ hit.valid = row.valid /\ hit.usage = row.usage
        /\ hit.late = row.late /\ UnderWay(hit) = UnderWay(row)
    BY <1>1 DEF NrTrials, UnderWay
  <2> HIDE DEF hit
  <2>4. NrTrialOK(k, hit, failure', run)
    BY <1>2, <2>1, <2>3 DEF NrTrialOK
  <2> QED
    BY <2>1, <2>2, <2>3, <2>4, TrialStep
<1>8. CASE Exits(k)
  <2>1. PICK how \in {"exit_zero", "exit_error"}, lingers \in BOOLEAN :
           trial' = [trial EXCEPT ![k].at = "closed", ![k].leader = how, ![k].group = lingers]
    BY <1>8 DEF Exits
  <2> DEFINE gone == [row EXCEPT !.at = "closed", !.leader = how, !.group = lingers]
  <2>2. row.at = "running" /\ failure' = failure /\ UNCHANGED <<mode, rewards, run, staged, summary>>
        /\ trial' = [trial EXCEPT ![k] = gone]
    BY <1>1, <1>8, <2>1 DEF Exits
  <2>3. gone \in NrTrials
    BY <1>1 DEF NrTrials, NrStates, NrLeaders
  <2>4. ~row.valid
    BY <1>2, <2>2 DEF NrTrialOK
  <2>5. NrTrialOK(k, gone, failure', run)
    BY <1>1, <1>2, <2>2, <2>4 DEF NrTrialOK, NrTrials
  <2> HIDE DEF gone
  <2> QED
    BY <2>2, <2>3, <2>4, <2>5, TrialStep
<1>9. CASE PollStops(k) \/ SupervisorRaises(k)
  <2>1. \E group \in BOOLEAN :
           /\ trial' = [trial EXCEPT ![k].at = "closed", ![k].stopped = TRUE, ![k].leader = "killed", ![k].group = group]
           /\ group => failure' # NoFailure
           /\ failure # NoFailure => failure' # NoFailure
    <3>1. CASE PollStops(k)
      <4>1. CASE /\ trial' = [trial EXCEPT ![k].at = "closed", ![k].stopped = TRUE, ![k].leader = "killed", ![k].group = FALSE]
                 /\ failure' = failure
        BY <4>1
      <4>2. CASE /\ trial' = [trial EXCEPT ![k].at = "closed", ![k].stopped = TRUE, ![k].leader = "killed"]
                 /\ failure' = IF failure = NoFailure THEN "NativeSupervisorInterrupted" ELSE failure
        <5> DEFINE left == [row EXCEPT !.at = "closed", !.stopped = TRUE, !.leader = "killed"]
        <5>1. trial' = [trial EXCEPT ![k] = left]
          BY <1>1, <4>2
        <5>2. left = [row EXCEPT !.at = "closed", !.stopped = TRUE, !.leader = "killed", !.group = row.group]
          BY <1>1 DEF NrTrials
        <5>3. trial' = [trial EXCEPT ![k].at = "closed", ![k].stopped = TRUE, ![k].leader = "killed", ![k].group = row.group]
          BY <1>1, <5>1, <5>2
        <5> QED
          BY <1>3, <4>2, <5>3 DEF NoFailure
      <4> QED
        BY <3>1, <4>1, <4>2 DEF PollStops, TerminateGroup
    <3>2. CASE SupervisorRaises(k)
      BY <3>2, StoppedKeeps DEF SupervisorRaises, NoFailure
    <3> QED
      BY <1>9, <3>1, <3>2
  <2>2. PICK group \in BOOLEAN :
           /\ trial' = [trial EXCEPT ![k].at = "closed", ![k].stopped = TRUE, ![k].leader = "killed", ![k].group = group]
           /\ group => failure' # NoFailure
           /\ failure # NoFailure => failure' # NoFailure
    BY <2>1
  <2> DEFINE ended == [row EXCEPT !.at = "closed", !.stopped = TRUE, !.leader = "killed", !.group = group]
  <2>3. row.at = "running" /\ UNCHANGED <<mode, rewards, run, staged, summary>> /\ trial' = [trial EXCEPT ![k] = ended]
    BY <1>1, <1>9, <2>2 DEF PollStops, SupervisorRaises
  <2>4. ended \in NrTrials
    BY <1>1 DEF NrTrials, NrStates, NrLeaders
  <2>5. ~row.valid
    BY <1>2, <2>3 DEF NrTrialOK
  <2>6. NrTrialOK(k, ended, failure', run)
    BY <1>1, <1>2, <2>2, <2>3, <2>5 DEF NrTrialOK, NrTrials
  <2> HIDE DEF ended
  <2> QED
    BY <2>2, <2>3, <2>4, <2>5, <2>6, TrialStep
<1>10. CASE LateRequest(k)
  BY <1>10, FailureStep DEF LateRequest
<1>16. CASE ReadFailure(k)
  <2> DEFINE clean == failure = NoFailure /\ ~row.limit
             read == [row EXCEPT !.at = "collecting", !.clean = clean]
  <2>1. row.at = "closed" /\ failure' = failure /\ UNCHANGED <<mode, rewards, run, staged, summary>>
        /\ trial' = [trial EXCEPT ![k] = read]
    BY <1>1, <1>16 DEF ReadFailure
  <2> HIDE DEF clean
  <2>2. clean \in BOOLEAN
    BY <1>3 DEF clean
  <2>3. read \in NrTrials
    BY <1>1, <1>3, <2>2 DEF NrTrials, NrStates
  <2>4. ~row.valid
    BY <1>2, <2>1 DEF NrTrialOK
  <2>5. read.at = "collecting" /\ read.valid = row.valid /\ read.late = row.late /\ UnderWay(read) = UnderWay(row)
        /\ read.stopped = row.stopped /\ read.group = row.group
    BY <1>1 DEF NrTrials, UnderWay
  <2> HIDE DEF read
  <2>6. NrTrialOK(k, read, failure', run)
    BY <1>2, <2>1, <2>4, <2>5 DEF NrTrialOK
  <2> QED
    BY <2>1, <2>3, <2>4, <2>6, TrialStep
<1>11. CASE Collect(k)
  <2> DEFINE valid == ValidOutcome(row)
             behind == UnderWay(row) > 0
             written == [row EXCEPT !.at = "written", !.behind = behind, !.valid = valid]
  <2>1. row.at = "collecting" /\ failure' = failure /\ UNCHANGED <<mode, rewards, run, staged, summary>>
        /\ trial' = [trial EXCEPT ![k] = written]
    BY <1>1, <1>11 DEF Collect
  <2>2. valid \in BOOLEAN /\ behind \in BOOLEAN
    BY DEF ValidOutcome
  <2>3. /\ valid => row.leader = "exit_zero" /\ ~row.stopped /\ row.clean /\ row.usage = "known"
        /\ ~behind => UnderWay(row) = 0
    BY <1>3 DEF ValidOutcome, UnderWay
  <2> HIDE DEF valid, behind
  <2>4. written \in NrTrials
    BY <1>1, <1>3, <2>2 DEF NrTrials, NrStates
  <2>5. ~row.valid
    BY <1>2, <2>1 DEF NrTrialOK
  <2>6. written.at = "written" /\ written.behind = behind /\ written.valid = valid /\ written.late = row.late
        /\ written.usage = row.usage /\ written.clean = row.clean /\ UnderWay(written) = UnderWay(row)
        /\ written.stopped = row.stopped /\ written.group = row.group /\ written.leader = row.leader
    BY <1>1 DEF NrTrials, UnderWay
  <2> HIDE DEF written
  <2>7. NrTrialOK(k, written, failure', run)
    BY <1>2, <2>1, <2>3, <2>6 DEF NrTrialOK
  <2> QED
    BY <2>1, <2>4, <2>5, <2>7, TrialStep
<1>12. CASE CollectRaises(k)
  <2> DEFINE lost == [row EXCEPT !.at = "raised"]
  <2>1. row.at \in {"closed", "collecting"} /\ failure' = failure
        /\ UNCHANGED <<mode, rewards, run, staged, summary>> /\ trial' = [trial EXCEPT ![k] = lost]
    BY <1>1, <1>12 DEF CollectRaises
  <2>2. lost \in NrTrials
    BY <1>1 DEF NrTrials, NrStates
  <2>3. ~row.valid
    BY <1>2, <2>1 DEF NrTrialOK
  <2>4. lost.at = "raised" /\ lost.valid = row.valid /\ lost.late = row.late /\ lost.stopped = row.stopped
        /\ lost.group = row.group /\ UnderWay(lost) = UnderWay(row)
    BY <1>1 DEF NrTrials, UnderWay
  <2> HIDE DEF lost
  <2>5. NrTrialOK(k, lost, failure', run)
    BY <1>2, <2>1, <2>3, <2>4 DEF NrTrialOK
  <2> QED
    BY <2>1, <2>2, <2>3, <2>5, TrialStep
<1> QED
  BY <1>4, <1>5, <1>6, <1>7, <1>8, <1>9, <1>10, <1>11, <1>12, <1>13, <1>14, <1>15, <1>16

-----------------------------------------------------------------------------
(* The steps of the driver                                                 *)

\* What is known of the run at every step of the driver.
LEMMA RunFacts ==
    ASSUME NrInv
    PROVE  /\ run \in NrRuns /\ run.next \in Nat /\ run.next > 0 /\ run.reported \in Nat /\ run.block \in 1 .. 3
           /\ run.wave \subseteq Plan /\ run.at \in NrPlaces
           /\ mode \in Modes /\ (mode # "none" => run.block = 1)
           /\ Blocks[run.block] = BlockOf(mode, run.block) /\ Blocks[run.block] \in 1 .. Maximum
           /\ LastOfBlock = Blocks[run.block] * TaskCount /\ LastOfBlock \in Nat
           /\ 1 .. LastOfBlock \subseteq Plan
<1>1. run \in NrRuns /\ mode \in Modes /\ (mode # "none" => run.block = 1)
  BY DEF NrInv, NrTypeOK, NrPlaceOK
<1>2. run.next \in Nat /\ run.next > 0 /\ run.reported \in Nat /\ run.block \in 1 .. 3 /\ run.wave \subseteq Plan
      /\ run.at \in NrPlaces
  BY <1>1 DEF NrRuns
<1> QED
  BY <1>1, <1>2, BlockSizes

LEMMA PlanIsNat == \A k \in Plan : k \in Nat /\ k > 0
  BY TaskNumber, BaselineAssumption, TimesNat DEF Plan

\* No trial moves: its record may stay as it is at another place of the run.
LEMMA TrialsStay ==
    ASSUME NrInv, UNCHANGED trial, failure # NoFailure => failure' # NoFailure,
           \A k \in Plan : trial[k].at \notin {"registered", "running"},
           run'.at = "written" => \A k \in Plan : UnderWay(trial[k]) = 0,
           run'.at \in {"finally", "written"} \/ \A k \in Plan : k >= run'.next => trial[k].at = "planned"
    PROVE  NrTrialsOK'
  BY DEF NrInv, NrTrialsOK, NrTrialOK

\* Outside a wave no trial is on its way, and what is left is planned.
LEMMA BetweenWaves ==
    ASSUME NrInv, run.at # "wave"
    PROVE  /\ \A k \in Plan : trial[k].at \notin {"registered", "running"}
           /\ run.at \notin {"finally", "written"} => \A k \in Plan : k >= run.next => trial[k].at = "planned"
  BY DEF NrInv, NrTrialsOK, NrTrialOK

LEMMA RaiseKeeps ==
    ASSUME NrInv, NEW reason, reason # NoFailure, Raise(reason), UNCHANGED <<mode, rewards, trial, staged>>,
           run.at \in {"setup", "block", "wave", "report"}, run.at = "wave" => WaveEnded
    PROVE  NrInv'
<1>1. /\ run' = [run EXCEPT !.at = "finally", !.wave = {}] /\ summary' = [summary EXCEPT !.status = "stopped"]
      /\ failure' # NoFailure
  BY StoppedKeeps DEF Raise, Stopped
<1>2. run' \in NrRuns /\ run'.at = "finally" /\ run'.next = run.next /\ run'.reported = run.reported
      /\ run'.block = run.block /\ run'.spool = run.spool
  BY <1>1, RunFacts DEF NrRuns, NrPlaces
<1>3. /\ DOMAIN summary' = NrFields /\ summary' = [f \in NrFields |-> summary'[f]]
      /\ summary'.status = "stopped" /\ summary'.trials = summary.trials /\ summary'.rows = summary.rows
      /\ summary'.interim = summary.interim /\ summary'.before = summary.before
  BY <1>1 DEF NrInv, NrTypeOK, NrFields
<1>4. \A k \in Plan : trial[k].at \notin {"registered", "running"}
  <2>1. CASE run.at = "wave"
    BY <2>1 DEF WaveEnded, NrInv, NrTrialsOK, NrTrialOK
  <2>2. CASE run.at # "wave"
    BY <2>2, BetweenWaves
  <2> QED
    BY <2>1, <2>2
<1>5. NrTrialsOK'
  BY <1>1, <1>2, <1>4, TrialsStay
<1>6. NrTypeOK'
  BY <1>2, <1>3 DEF NrInv, NrTypeOK
<1>7. NrPlaceOK'
  BY <1>2 DEF NrInv, NrPlaceOK
<1>8. NrRowsOK'
  BY <1>2, <1>3 DEF NrInv, NrRowsOK, RowComplete
<1>9. NrDecided'
  BY <1>2, <1>3 DEF NrInv, NrDecided, Rows
<1>10. NrClaimsOK'
  BY <1>2, <1>3 DEF NrInv, NrDecided, NrClaimsOK, Written, Measured, Claims
<1> QED
  BY <1>5, <1>6, <1>7, <1>8, <1>9, <1>10 DEF NrInv

LEMMA SetupKeeps == ASSUME NrInv, Setup PROVE NrInv'
<1>1. /\ run.at = "setup" /\ run' = [run EXCEPT !.at = "block", !.spool = TRUE]
      /\ UNCHANGED <<mode, rewards, failure, trial, staged, summary>>
  BY DEF Setup
<1>2. run' \in NrRuns /\ run'.at = "block" /\ run'.next = run.next /\ run'.reported = run.reported
      /\ run'.block = run.block /\ run'.spool /\ run.next = 1
  BY <1>1, RunFacts DEF NrRuns, NrPlaces, NrInv, NrPlaceOK
<1>3. NrTrialsOK'
  BY <1>1, <1>2, BetweenWaves, TrialsStay
<1>4. NrTypeOK'
  BY <1>1, <1>2 DEF NrInv, NrTypeOK
<1>5. LastOfBlock >= 1 /\ LastOfBlock' = LastOfBlock
  <2>1. LastOfBlock' = LastOfBlock
    BY <1>1, <1>2 DEF LastOfBlock, Blocks
  <2> DEFINE b == Blocks[run.block]
  <2>2. b \in Nat /\ 0 < b /\ LastOfBlock = b * TaskCount
    BY RunFacts
  <2> HIDE DEF b
  <2>3. 0 * TaskCount < b * TaskCount /\ b * TaskCount \in Nat /\ 0 * TaskCount = 0
    BY <2>2, TaskNumber, TimesLess, TimesNat
  <2> QED
    BY <2>1, <2>2, <2>3
<1>6. NrPlaceOK'
  BY <1>1, <1>2, <1>5 DEF NrInv, NrPlaceOK, AllValid
<1>7. NrRowsOK'
  BY <1>1, <1>2 DEF NrInv, NrRowsOK, RowComplete
<1>8. NrDecided'
  BY <1>1, <1>2 DEF NrInv, NrDecided, Rows
<1>9. NrClaimsOK'
  BY <1>1, <1>2 DEF NrClaimsOK, Written
<1> QED
  BY <1>3, <1>4, <1>6, <1>7, <1>8, <1>9 DEF NrInv

LEMMA MinOfTwo == ASSUME NEW a \in Int, NEW b \in Int PROVE Min({a, b}) \in {a, b} /\ Min({a, b}) <= a /\ Min({a, b}) <= b
  BY DEF Min

LEMMA StartWaveKeeps == ASSUME NrInv, StartWave PROVE NrInv'
<1> DEFINE last == Min({run.next + WaveSize - 1, LastOfBlock})
           wave == run.next .. last
<1>1. /\ run.at = "block" /\ run' = [run EXCEPT !.at = "wave", !.wave = wave]
      /\ trial' = [k \in Plan |-> IF k \in wave THEN [trial[k] EXCEPT !.at = "registered"] ELSE trial[k]]
      /\ UNCHANGED <<mode, rewards, failure, staged, summary>>
  BY DEF StartWave
<1>2. last \in run.next .. LastOfBlock
  <2>1. WaveSize \in Nat /\ WaveSize > 0
    BY NativeAssumption DEF WaveSize
  <2>2. run.next <= LastOfBlock /\ run.next \in Nat /\ LastOfBlock \in Nat
    BY <1>1, RunFacts DEF NrInv, NrPlaceOK
  <2>3. run.next + WaveSize - 1 \in Int /\ run.next <= run.next + WaveSize - 1
    BY <2>1, <2>2
  <2>4. last \in {run.next + WaveSize - 1, LastOfBlock} /\ last <= LastOfBlock
    BY <2>2, <2>3, MinOfTwo
  <2> QED
    BY <2>2, <2>3, <2>4
<1> HIDE DEF last
<1>3. wave \subseteq Plan
  BY <1>2, RunFacts
<1>4. run' \in NrRuns /\ run'.at = "wave" /\ run'.wave = wave /\ run'.next = run.next /\ run'.reported = run.reported
      /\ run'.block = run.block /\ run'.spool = run.spool
  BY <1>1, <1>3, RunFacts DEF NrRuns, NrPlaces
<1>5. trial \in [Plan -> NrTrials]
  BY DEF NrInv, NrTypeOK
<1>6. \A k \in wave : trial[k].at = "planned"
  BY <1>1, <1>3, <1>2, BetweenWaves, RunFacts
<1>7. \A k \in Plan : /\ k \notin wave => trial'[k] = trial[k]
                      /\ k \in wave => trial'[k] = [trial[k] EXCEPT !.at = "registered"]
  BY <1>1
<1>8. trial' \in [Plan -> NrTrials]
  <2>1. \A row \in NrTrials : [row EXCEPT !.at = "registered"] \in NrTrials
    BY DEF NrTrials, NrStates
  <2>2. \A k \in Plan : trial'[k] \in NrTrials
    BY <1>5, <1>7, <2>1
  <2> QED
    BY <1>1, <2>2
<1>9. \A k \in Plan : (trial[k].valid => trial'[k].valid) /\ (trial[k].at = "written" => trial'[k].at = "written")
  BY <1>5, <1>6, <1>7 DEF NrTrials
<1>10. NrTrialsOK'
  <2> SUFFICES ASSUME NEW k \in Plan PROVE NrTrialOK(k, trial'[k], failure', run')
    BY DEF NrTrialsOK
  <2>1. NrTrialOK(k, trial[k], failure, run)
    BY DEF NrInv, NrTrialsOK
  <2>2. trial[k].at \notin {"registered", "running"} /\ (k >= run.next => trial[k].at = "planned")
    BY <1>1, BetweenWaves
  <2>3. CASE k \notin wave
    BY <1>1, <1>4, <1>7, <2>1, <2>2, <2>3 DEF NrTrialOK
  <2>4. CASE k \in wave
    <3>1. /\ trial'[k].at = "registered" /\ trial'[k].stopped = trial[k].stopped /\ trial'[k].group = trial[k].group
          /\ trial'[k].valid = trial[k].valid /\ trial'[k].late = trial[k].late
      BY <1>5, <1>7, <2>4 DEF NrTrials
    <3>2. ~trial[k].valid /\ ~trial[k].late /\ ~trial[k].stopped /\ ~trial[k].group
      BY <1>6, <2>1, <2>4 DEF NrTrialOK
    <3> QED
      BY <1>4, <2>4, <3>1, <3>2 DEF NrTrialOK
  <2> QED
    BY <2>3, <2>4
<1>11. \A n : AllValid(n) => AllValid(n)'
  BY <1>9 DEF AllValid
<1>12. \A r : RowComplete(r) => RowComplete(r)'
  <2> SUFFICES ASSUME NEW r, RowComplete(r), NEW j \in TrialsOf(r) PROVE trial'[j].at = "written" /\ trial'[j].valid
    BY DEF RowComplete
  <2>1. j \in Plan
    BY DEF TrialsOf
  <2> QED
    BY <1>9, <2>1 DEF RowComplete
<1>13. NrTypeOK'
  BY <1>1, <1>4, <1>8 DEF NrInv, NrTypeOK
<1>14. NrPlaceOK'
  <2>1. LastOfBlock' = LastOfBlock
    BY <1>1, <1>4 DEF LastOfBlock, Blocks
  <2>2. \E l \in run'.next .. LastOfBlock' : run'.wave = run'.next .. l
    BY <1>2, <1>4, <2>1
  <2>3. AllValid(run.next - 1)'
    BY <1>1, <1>4, <1>11 DEF NrInv, NrPlaceOK
  <2> QED
    BY <1>1, <1>4, <2>2, <2>3 DEF NrInv, NrPlaceOK
<1>15. NrRowsOK'
  BY <1>1, <1>4, <1>12 DEF NrInv, NrRowsOK
<1>16. NrDecided'
  BY <1>1, <1>4 DEF NrInv, NrDecided, Rows
<1>17. NrClaimsOK'
  BY <1>4 DEF NrClaimsOK, Written
<1> QED
  BY <1>10, <1>13, <1>14, <1>15, <1>16, <1>17 DEF NrInv

\* The driver moves to a place between two waves, and the trials stay.
LEMMA RunMoves ==
    ASSUME NrInv, UNCHANGED <<mode, rewards, failure, trial, staged>>, run' \in NrRuns,
           run'.block = run.block, run'.reported = run.reported, run'.spool = run.spool, run'.next >= run.next,
           DOMAIN summary' = NrFields, summary' = [f \in NrFields |-> summary'[f]],
           summary'.trials \in Nat, summary'.rows \in Nat, summary'.interim = summary.interim,
           \A r \in 1 .. summary'.rows : RowComplete(r),
           run.at \in {"block", "wave", "report", "decide"},
           run'.at \in {"block", "report", "decide"},
           summary'.status = summary.status, summary'.before = summary.before,
           \A k \in Plan : trial[k].at \notin {"registered", "running"},
           \A k \in Plan : k >= run'.next => trial[k].at = "planned",
           NrPlaceOK'
    PROVE  NrInv'
<1>1. NrTrialsOK'
  BY TrialsStay
<1>2. NrTypeOK'
  BY DEF NrInv, NrTypeOK
<1>3. NrRowsOK'
  <2> DEFINE p == run.reported * TaskCount
  <2>1. p \in Nat /\ p <= run.next - 1 /\ run.next \in Nat /\ run'.next \in Nat
    BY RunFacts, TaskNumber, TimesNat DEF NrInv, NrRowsOK, NrRuns
  <2>2. (run.reported * TaskCount)' = p
    OBVIOUS
  <2> HIDE DEF p
  <2>3. (run.reported * TaskCount <= run.next - 1)'
    BY <2>1, <2>2
  <2> QED
    BY <2>3 DEF NrInv, NrRowsOK, RowComplete
<1>4. NrDecided'
  BY DEF NrInv, NrDecided, Rows
<1>5. NrClaimsOK'
  BY DEF NrClaimsOK, Written
<1> QED
  BY <1>1, <1>2, <1>3, <1>4, <1>5 DEF NrInv

LEMMA EndWaveKeeps == ASSUME NrInv, EndWave PROVE NrInv'
<1>1. /\ run.at = "wave" /\ \A k \in run.wave : trial[k].at = "written"
      /\ run' = [run EXCEPT !.at = "report", !.next = Max(run.wave) + 1]
      /\ UNCHANGED <<mode, rewards, failure, trial, staged, summary>>
  BY DEF EndWave
<1>2. PICK last \in run.next .. LastOfBlock : run.wave = run.next .. last
  BY <1>1 DEF NrInv, NrPlaceOK
<1>3. last \in Nat /\ run.next <= last /\ last <= LastOfBlock /\ Max(run.wave) = last
  <2>1. last \in Nat /\ run.next <= last /\ last <= LastOfBlock
    BY <1>2, RunFacts
  <2>2. run.wave \subseteq 0 .. last /\ run.wave # {}
    BY <1>2, <2>1, RunFacts
  <2>3. Max(run.wave) \in run.wave /\ \A y \in run.wave : y <= Max(run.wave)
    BY <2>1, <2>2, GreatestOf
  <2>4. last \in run.wave
    BY <1>2, <2>1, RunFacts
  <2> QED
    BY <1>2, <2>1, <2>3, <2>4, RunFacts
<1>4. run' \in NrRuns /\ run'.at = "report" /\ run'.next = last + 1 /\ run'.reported = run.reported
      /\ run'.block = run.block /\ run'.spool = run.spool /\ run'.wave = run.wave
  <2> DEFINE after == last + 1
  <2>1. run' = [run EXCEPT !.at = "report", !.next = after] /\ after \in Nat \ {0}
    BY <1>1, <1>3
  <2> HIDE DEF after
  <2>2. run' \in NrRuns /\ run'.at = "report" /\ run'.next = after /\ run'.reported = run.reported
        /\ run'.block = run.block /\ run'.spool = run.spool /\ run'.wave = run.wave
    BY <2>1, RunFacts DEF NrRuns, NrPlaces
  <2> QED
    BY <2>2 DEF after
<1>5. \A k \in Plan : trial[k].at \notin {"registered", "running"} /\ (k >= last + 1 => trial[k].at = "planned")
  <2> SUFFICES ASSUME NEW k \in Plan
               PROVE  trial[k].at \notin {"registered", "running"} /\ (k >= last + 1 => trial[k].at = "planned")
    OBVIOUS
  <2>1. NrTrialOK(k, trial[k], failure, run) /\ k \in Nat
    BY PlanIsNat DEF NrInv, NrTrialsOK
  <2>2. k >= last + 1 => k >= run.next /\ k \notin run.wave
    BY <1>2, <1>3, <2>1, RunFacts
  <2> QED
    BY <1>1, <2>1, <2>2 DEF NrTrialOK
<1>6. NrPlaceOK'
  <2>1. LastOfBlock' = LastOfBlock
    BY <1>1, <1>4 DEF LastOfBlock, Blocks
  <2>2. AllValid(run.next - 1)
    BY <1>1 DEF NrInv, NrPlaceOK
  <2>3. \A k \in 1 .. last : k \in Plan /\ (k \in run.wave \/ trial[k].valid)
    <3> SUFFICES ASSUME NEW k \in 1 .. last PROVE k \in Plan /\ (k \in run.wave \/ trial[k].valid)
      OBVIOUS
    <3>1. k \in run.wave \/ k \in 1 .. run.next - 1
      BY <1>2, <1>3, RunFacts
    <3> QED
      BY <2>2, <3>1, RunFacts DEF AllValid
  <2>4. \A k \in run.wave : k < last + 1
    BY <1>2, <1>3, RunFacts
  <2> QED
    BY <1>1, <1>3, <1>4, <2>1, <2>3, <2>4, RunFacts DEF NrInv, NrPlaceOK
<1>7. run'.next >= run.next
  BY <1>3, <1>4, RunFacts
<1>8. \A r \in 1 .. summary.rows : RowComplete(r)
  BY DEF NrInv, NrRowsOK
<1> QED
  BY <1>1, <1>4, <1>5, <1>6, <1>7, <1>8, RunMoves DEF NrInv, NrTypeOK

LEMMA ReportKeeps == ASSUME NrInv, Report PROVE NrInv'
<1>1. /\ run.at = "report" /\ Reportable
      /\ staged' = Append(staged, run.reported + 1) /\ run' = [run EXCEPT !.reported = run.reported + 1]
      /\ UNCHANGED <<mode, rewards, failure, trial, summary>>
  BY DEF Report
<1>2. run' \in NrRuns /\ run'.at = "report" /\ run'.next = run.next /\ run'.reported = run.reported + 1
      /\ run'.block = run.block /\ run'.spool = run.spool /\ run'.wave = run.wave
  BY <1>1, RunFacts DEF NrRuns
<1>3. NrTrialsOK'
  BY <1>1, <1>2, BetweenWaves, TrialsStay
<1>4. NrTypeOK'
  BY <1>1, <1>2 DEF NrInv, NrTypeOK
<1>5. NrPlaceOK'
  BY <1>1, <1>2 DEF NrInv, NrPlaceOK, LastOfBlock, Blocks, AllValid
<1>6. NrRowsOK'
  <2> DEFINE p == run.reported * TaskCount
             q == (run.reported + 1) * TaskCount
  <2>1. q \in Nat /\ p \in Nat /\ q = p + TaskCount /\ TaskCount \in Nat
    BY RunFacts, TaskNumber, TimesNat
  <2>2. run.next - 1 - p >= TaskCount
    BY <1>1 DEF Reportable
  <2>3. (run.reported * TaskCount)' = q
    BY <1>2
  <2> HIDE DEF p, q
  <2>4. (run.reported * TaskCount <= run.next - 1)'
    BY <1>2, <2>1, <2>2, <2>3, RunFacts
  <2>5. staged' = [i \in 1 .. run.reported + 1 |-> i]
    <3>1. staged = [i \in 1 .. run.reported |-> i] /\ run.reported \in Nat
      BY RunFacts DEF NrInv, NrRowsOK
    <3>2. staged \in Seq(Nat) /\ Len(staged) = run.reported
      BY <3>1
    <3> QED
      BY <1>1, <3>1, <3>2
  <2>6. \A r \in 1 .. run.reported + 1 : RowComplete(r)
    <3>1. \A r \in 1 .. run.reported + 1 : r \in 1 .. run.reported \/ r = run.reported + 1
      BY RunFacts
    <3> QED
      BY <1>1, <3>1 DEF Reportable, NrInv, NrRowsOK
  <2> QED
    BY <1>1, <1>2, <2>4, <2>5, <2>6 DEF NrInv, NrRowsOK, RowComplete
<1>7. NrDecided'
  BY <1>1, <1>2 DEF NrInv, NrDecided, Rows
<1>8. NrClaimsOK'
  BY <1>1, <1>2 DEF NrClaimsOK, Written
<1> QED
  BY <1>3, <1>4, <1>5, <1>6, <1>7, <1>8 DEF NrInv

\* At the end of a wave whose trials were all valid, all trials so far were.
LEMMA WaveAllValid ==
    ASSUME NrInv, run.at = "report", WaveComplete
    PROVE  AllValid(run.next - 1)
  BY DEF NrInv, NrPlaceOK, WaveComplete, AllValid

LEMMA MoreWavesKeeps == ASSUME NrInv, MoreWaves PROVE NrInv'
<1>1. /\ run.at = "report" /\ WaveComplete /\ run.next <= LastOfBlock /\ run' = [run EXCEPT !.at = "block"]
      /\ UNCHANGED <<mode, rewards, failure, trial, staged, summary>>
  BY DEF MoreWaves
<1>2. run' \in NrRuns /\ run'.at = "block" /\ run'.next = run.next /\ run'.reported = run.reported
      /\ run'.block = run.block /\ run'.spool = run.spool
  BY <1>1, RunFacts DEF NrRuns, NrPlaces
<1>3. NrPlaceOK'
  <2>1. LastOfBlock' = LastOfBlock /\ AllValid(run.next - 1)
    BY <1>1, <1>2, WaveAllValid DEF LastOfBlock, Blocks
  <2> QED
    BY <1>1, <1>2, <2>1 DEF NrInv, NrPlaceOK, AllValid
<1>4. \A r \in 1 .. summary.rows : RowComplete(r)
  BY DEF NrInv, NrRowsOK
<1>5. run'.next >= run.next
  BY <1>2, RunFacts
<1> QED
  BY <1>1, <1>2, <1>3, <1>4, <1>5, BetweenWaves, RunMoves DEF NrInv, NrTypeOK

LEMMA BlockIncompleteKeeps == ASSUME NrInv, BlockIncomplete PROVE NrInv'
<1> DEFINE n == run.next - 1
           rows == CompleteRows(run.next - 1)
<1>1. /\ run.at = "report" /\ run' = [run EXCEPT !.at = "finally", !.wave = {}]
      /\ failure' # NoFailure
      /\ summary' = [summary EXCEPT !.status = "stopped", !.trials = n, !.rows = rows]
      /\ UNCHANGED <<mode, rewards, trial, staged>>
  BY StoppedKeeps DEF BlockIncomplete, NoFailure
<1>2. n \in Nat /\ rows \in Nat /\ \A q \in 1 .. rows : RowComplete(q)
  BY RunFacts, CountedRows
<1> HIDE DEF n, rows
<1>3. run' \in NrRuns /\ run'.at = "finally" /\ run'.next = run.next /\ run'.reported = run.reported
      /\ run'.block = run.block /\ run'.spool = run.spool
  BY <1>1, RunFacts DEF NrRuns, NrPlaces
<1>4. /\ DOMAIN summary' = NrFields /\ summary' = [f \in NrFields |-> summary'[f]]
      /\ summary'.status = "stopped" /\ summary'.trials = n /\ summary'.rows = rows
      /\ summary'.interim = summary.interim /\ summary'.before = summary.before
  BY <1>1 DEF NrInv, NrTypeOK, NrFields
<1>5. NrTrialsOK'
  BY <1>1, <1>3, BetweenWaves, TrialsStay
<1>6. NrTypeOK'
  BY <1>1, <1>2, <1>3, <1>4 DEF NrInv, NrTypeOK
<1>7. NrPlaceOK'
  BY <1>1, <1>3 DEF NrInv, NrPlaceOK
<1>8. NrRowsOK'
  BY <1>1, <1>2, <1>3, <1>4 DEF NrInv, NrRowsOK, RowComplete
<1>9. NrDecided'
  BY <1>1, <1>3, <1>4 DEF NrInv, NrDecided, Rows
<1>10. NrClaimsOK'
  BY <1>1, <1>3, <1>4 DEF NrInv, NrDecided, NrClaimsOK, Written, Claims
<1> QED
  BY <1>5, <1>6, <1>7, <1>8, <1>9, <1>10 DEF NrInv

LEMMA BlockCompleteKeeps == ASSUME NrInv, BlockComplete PROVE NrInv'
<1> DEFINE n == run.next - 1
           b == Blocks[run.block]
           rows == CompleteRows(run.next - 1)
<1>1. /\ run.at = "report" /\ ~Reportable /\ WaveComplete /\ run.next > LastOfBlock
      /\ run' = [run EXCEPT !.at = "decide"]
      /\ summary' = [summary EXCEPT !.trials = n, !.rows = rows]
      /\ UNCHANGED <<mode, rewards, failure, trial, staged>>
  BY DEF BlockComplete
<1>2. run.next = LastOfBlock + 1 /\ n = b * TaskCount /\ b \in Nat /\ n \in Nat /\ AllValid(n)
  BY <1>1, RunFacts, WaveAllValid DEF NrInv, NrPlaceOK
<1>3. \A r \in 1 .. b : RowComplete(r)
  <2> SUFFICES ASSUME NEW r \in 1 .. b, NEW k \in TrialsOf(r) PROVE trial[k].at = "written" /\ trial[k].valid
    BY DEF RowComplete
  <2>1. k \in Plan /\ k \in 1 .. n
    BY <1>2, RowTrials
  <2> QED
    BY <1>2, <2>1 DEF AllValid, NrInv, NrTrialsOK, NrTrialOK
<1>4. rows = b
  BY <1>2, <1>3, CountedRows
<1>5. run.reported = b
  <2> HIDE DEF b, n
  <2> DEFINE p == run.reported * TaskCount
             m == b * TaskCount
  <2>1. p \in Nat /\ p <= n /\ m = n /\ run.reported \in Nat
    BY <1>2, RunFacts, TaskNumber, TimesNat DEF NrInv, NrRowsOK, n
  <2>2. run.reported <= b
    BY <1>2, <2>1, TaskNumber, TimesCancel
  <2>3. ASSUME run.reported < b PROVE FALSE
    <3>1. p + TaskCount <= m
      BY <1>2, <2>1, <2>3, TaskNumber, TimesLess
    <3>2. run.reported + 1 \in 1 .. b
      BY <1>2, <2>1, <2>3
    <3>3. RowComplete(run.reported + 1)
      BY <1>3, <3>2
    <3> HIDE DEF p, m
    <3>4. n - p >= TaskCount
      BY <1>2, <2>1, <3>1, TaskNumber
    <3> QED
      BY <1>1, <3>3, <3>4 DEF Reportable, p, n
  <2> QED
    BY <1>2, <2>1, <2>2, <2>3
<1>6. run' \in NrRuns /\ run'.at = "decide" /\ run'.next = run.next /\ run'.reported = run.reported
      /\ run'.block = run.block /\ run'.spool = run.spool
  BY <1>1, RunFacts DEF NrRuns, NrPlaces
<1>7. /\ DOMAIN summary' = NrFields /\ summary' = [f \in NrFields |-> summary'[f]]
      /\ summary'.status = summary.status /\ summary'.trials = n /\ summary'.rows = rows
      /\ summary'.interim = summary.interim /\ summary'.before = summary.before
  BY <1>1 DEF NrInv, NrTypeOK, NrFields
<1>8. NrPlaceOK'
  <2>1. LastOfBlock' = LastOfBlock /\ Blocks' = Blocks
    BY <1>1, <1>6 DEF LastOfBlock, Blocks
  <2>2. run'.next = LastOfBlock' + 1 /\ AllValid(run.next - 1)'
    BY <1>1, <1>2, <1>6, <2>1 DEF AllValid
  <2>3. summary'.rows = Blocks'[run'.block] /\ run'.reported = Blocks'[run'.block] /\ summary'.trials = run'.next - 1
    BY <1>4, <1>5, <1>6, <1>7, <2>1
  <2> QED
    BY <1>1, <1>6, <2>2, <2>3 DEF NrInv, NrPlaceOK
<1>9. run'.next >= run.next /\ summary'.trials \in Nat /\ summary'.rows \in Nat /\ \A r \in 1 .. summary'.rows : RowComplete(r)
  BY <1>2, <1>3, <1>4, <1>6, <1>7, RunFacts
<1>10. \A k \in Plan : trial[k].at \notin {"registered", "running"} /\ (k >= run'.next => trial[k].at = "planned")
  BY <1>1, <1>6, BetweenWaves
<1> HIDE DEF n, rows, b
<1> QED
  BY <1>1, <1>6, <1>7, <1>8, <1>9, <1>10, RunMoves

\* What is known of a block that is complete.
LEMMA DecideFacts ==
    ASSUME NrInv, run.at = "decide"
    PROVE  /\ summary.rows = BlockOf(mode, run.block) /\ summary.trials = run.next - 1
           /\ run.next = LastOfBlock + 1 /\ summary.trials = summary.rows * TaskCount
           /\ AllValid(run.next - 1) /\ run.reported = summary.rows
           /\ run.spool /\ summary.status = "running" /\ summary.before = "none"
           /\ \A k \in Plan : trial[k].at \notin {"registered", "running"}
           /\ \A k \in Plan : k >= run.next => trial[k].at = "planned"
<1>1. run.next = LastOfBlock + 1 /\ AllValid(run.next - 1) /\ summary.trials = run.next - 1
      /\ summary.rows = Blocks[run.block] /\ run.reported = Blocks[run.block]
  BY DEF NrInv, NrPlaceOK
<1>2. LastOfBlock = Blocks[run.block] * TaskCount /\ LastOfBlock \in Nat /\ Blocks[run.block] = BlockOf(mode, run.block)
  BY RunFacts
<1>3. summary.trials = summary.rows * TaskCount
  <2> DEFINE m == Blocks[run.block] * TaskCount
  <2>1. LastOfBlock = m /\ m \in Nat
    BY <1>2
  <2> HIDE DEF m
  <2>2. summary.trials = m
    BY <1>1, <2>1
  <2> QED
    BY <1>1, <2>2 DEF m
<1> QED
  BY <1>1, <1>2, <1>3, BetweenWaves DEF NrInv, NrRowsOK, NrDecided

\* The block after a decision is longer than the one before it.
LEMMA LongerBlock ==
    ASSUME NrInv, run.at = "decide", mode = "none", run'.block \in 2 .. 3, run.block < run'.block, UNCHANGED mode
    PROVE  run.next <= LastOfBlock'
<1> DEFINE b == BlockOf(mode, run.block)
           c == BlockOf(mode, run'.block)
<1>1. b \in Nat /\ c \in Nat /\ b < c
  <2>1. Interim \in Nat /\ Minimum \in Nat /\ Maximum \in Nat /\ Interim < Minimum /\ Minimum < Maximum
    BY BaselineAssumption
  <2>2. run.block \in 1 .. 3
    BY RunFacts
  <2> QED
    BY <2>1, <2>2 DEF BlockOf
<1>2. LastOfBlock' = c * TaskCount
  <2>1. Blocks' = <<Interim, Minimum, Maximum>> /\ c = <<Interim, Minimum, Maximum>>[run'.block]
    BY DEF Blocks, BlockOf
  <2> QED
    BY <2>1 DEF LastOfBlock
<1>3. run.next = b * TaskCount + 1
  BY DecideFacts, RunFacts
<1> HIDE DEF b, c
<1>4. b * TaskCount < c * TaskCount /\ b * TaskCount \in Nat /\ c * TaskCount \in Nat
  BY <1>1, TaskNumber, TimesLess, TimesNat
<1> DEFINE p == b * TaskCount
           q == c * TaskCount
<1>5. p < q /\ p \in Nat /\ q \in Nat /\ run.next = p + 1
  BY <1>3, <1>4
<1> HIDE DEF p, q
<1>6. run.next <= q
  BY <1>5
<1> QED
  BY <1>2, <1>6 DEF q

\* Rewards are read once.
LEMMA ReadOnce ==
    ASSUME NrInv, Read
    PROVE  rewards' \in RewardTables /\ rewards' # <<>> /\ (rewards # <<>> => rewards' = rewards)
<1>1. rewards' \in RewardTables /\ (rewards # <<>> => rewards' = rewards)
  BY DEF Read, NrInv, NrTypeOK
<1>2. DOMAIN rewards' = 1 .. Maximum /\ Maximum \in Nat /\ Maximum > 0
  BY <1>1, NativeAssumption, BaselineAssumption
<1>3. rewards' # <<>>
  <2>1. 1 \in 1 .. Maximum /\ DOMAIN <<>> = {}
    BY <1>2
  <2> QED
    BY <1>2, <2>1
<1> QED
  BY <1>1, <1>3

LEMMA DecideInterimKeeps == ASSUME NrInv, DecideInterim PROVE NrInv'
<1> DEFINE rows == [r \in 1 .. summary.rows |-> rewards'[r]]
           decision == InterimDecision(rows)
           stop == decision = "stop_for_design_audit"
           at == IF stop THEN "finally" ELSE "block"
           status == IF stop THEN "stopped" ELSE summary.status
<1>1. /\ run.at = "decide" /\ mode = "none" /\ run.block = 1
      /\ summary' = [summary EXCEPT !.interim = decision, !.status = status]
      /\ failure' = IF stop THEN Stopped("InterimBaselineVariability") ELSE failure
      /\ run' = [run EXCEPT !.at = at, !.block = 2, !.wave = {}]
      /\ UNCHANGED <<mode, trial, staged>> /\ Read
  BY DEF DecideInterim
<1>2. failure # NoFailure => failure' # NoFailure
  BY <1>1, StoppedKeeps DEF NoFailure
<1>3. at \in {"finally", "block"} /\ (at = "finally" => status = "stopped") /\ (at = "block" => status = summary.status)
  OBVIOUS
<1>4. summary.rows = Interim
  BY <1>1, DecideFacts DEF BlockOf
<1>5. rewards' \in RewardTables /\ rewards' # <<>>
  BY <1>1, ReadOnce
<1>6. InterimDecision(Rows(Interim))' = decision
  BY <1>4 DEF Rows, InterimDecision, Width, Counts, PassCount
<1> HIDE DEF decision, stop, at, status
<1>7. run' \in NrRuns /\ run'.at = at /\ run'.next = run.next /\ run'.reported = run.reported
      /\ run'.block = 2 /\ run'.spool = run.spool
  <2> DEFINE block == 2
  <2>1. run' = [run EXCEPT !.at = at, !.block = block, !.wave = {}] /\ block \in 1 .. 3
    BY <1>1
  <2> HIDE DEF block
  <2>2. run' \in NrRuns /\ run'.at = at /\ run'.next = run.next /\ run'.reported = run.reported
        /\ run'.block = block /\ run'.spool = run.spool
    BY <1>3, <2>1, RunFacts DEF NrRuns, NrPlaces
  <2> QED
    BY <2>2 DEF block
<1>8. /\ DOMAIN summary' = NrFields /\ summary' = [f \in NrFields |-> summary'[f]]
      /\ summary'.status = status /\ summary'.trials = summary.trials /\ summary'.rows = summary.rows
      /\ summary'.interim = decision /\ summary'.before = summary.before
  BY <1>1 DEF NrInv, NrTypeOK, NrFields
<1>9. NrTrialsOK'
  BY <1>1, <1>2, <1>3, <1>7, DecideFacts, TrialsStay
<1>10. NrTypeOK'
  BY <1>1, <1>5, <1>7, <1>8 DEF NrInv, NrTypeOK
<1>11. NrPlaceOK'
  <2>1. run.next <= LastOfBlock'
    BY <1>1, <1>7, LongerBlock, RunFacts
  <2>2. AllValid(run.next - 1)'
    BY <1>1, DecideFacts DEF AllValid
  <2> QED
    BY <1>1, <1>3, <1>7, <2>1, <2>2 DEF NrPlaceOK
<1>12. NrRowsOK'
  BY <1>1, <1>3, <1>7, <1>8, DecideFacts DEF NrInv, NrRowsOK, RowComplete
<1>13. NrDecided'
  BY <1>1, <1>3, <1>5, <1>6, <1>7, <1>8, DecideFacts DEF NrDecided
<1>14. NrClaimsOK'
  BY <1>1, <1>3, <1>7, <1>8, DecideFacts DEF NrClaimsOK, Written, Claims
<1> QED
  BY <1>9, <1>10, <1>11, <1>12, <1>13, <1>14 DEF NrInv

LEMMA DecideBaselineKeeps == ASSUME NrInv, DecideBaseline PROVE NrInv'
<1> DEFINE rows == Rows(summary.rows)
           extend == Decision(rows) = "extend_to_total_20"
<1>1. /\ run.at = "decide" /\ mode = "none" /\ run.block \in {2, 3}
      /\ run' = [run EXCEPT !.at = IF extend THEN "block" ELSE "finally",
                            !.block = IF extend THEN 3 ELSE @, !.wave = {}]
      /\ summary' = IF extend THEN summary
                    ELSE [summary EXCEPT !.decision = Decision(rows), !.status = StatusOf(rows)]
      /\ UNCHANGED <<mode, rewards, failure, trial, staged>>
  BY DEF DecideBaseline
<1>2. summary.rows = IF run.block = 2 THEN Minimum ELSE Maximum
  BY <1>1, DecideFacts DEF BlockOf
<1>3. rewards # <<>> /\ summary.interim = InterimDecision(Rows(Interim)) /\ summary.status = "running"
  BY <1>1 DEF NrInv, NrDecided
<1>4. CASE extend
  <2>1. run.block = 2
    <3>1. Len(rows) = summary.rows /\ Minimum < Maximum /\ Minimum \in Nat /\ Maximum \in Nat
      BY <1>2, BaselineAssumption DEF Rows
    <3>2. CASE run.block = 3
      <4>1. Len(rows) # Minimum
        BY <1>2, <3>1, <3>2
      <4>2. Decision(rows) # "extend_to_total_20"
        BY <4>1 DEF Decision
      <4> QED
        BY <1>4, <4>2
    <3> QED
      BY <1>1, <3>2
  <2>2. run' = [run EXCEPT !.at = "block", !.block = 3, !.wave = {}] /\ summary' = summary
    BY <1>1, <1>4
  <2>3. run' \in NrRuns /\ run'.at = "block" /\ run'.next = run.next /\ run'.reported = run.reported
        /\ run'.block = 3 /\ run'.spool = run.spool
    <3> DEFINE block == 3
    <3>1. run' = [run EXCEPT !.at = "block", !.block = block, !.wave = {}] /\ block \in 1 .. 3
      BY <2>2
    <3> HIDE DEF block
    <3>2. run' \in NrRuns /\ run'.at = "block" /\ run'.next = run.next /\ run'.reported = run.reported
          /\ run'.block = block /\ run'.spool = run.spool
      BY <3>1, RunFacts DEF NrRuns, NrPlaces
    <3> QED
      BY <3>2 DEF block
  <2>4. NrTrialsOK'
    BY <1>1, <2>3, DecideFacts, TrialsStay
  <2>5. NrTypeOK'
    <3>1. UNCHANGED <<mode, rewards, trial, summary>>
      BY <1>1, <2>2
    <3> QED
      BY <2>3, <3>1 DEF NrInv, NrTypeOK
  <2>6. NrPlaceOK'
    <3>1. run.next <= LastOfBlock'
      BY <1>1, <2>1, <2>3, LongerBlock
    <3>2. AllValid(run.next - 1)'
      BY <1>1, DecideFacts DEF AllValid
    <3> QED
      BY <1>1, <2>3, <3>1, <3>2 DEF NrPlaceOK
  <2>7. NrRowsOK'
    BY <1>1, <2>2, <2>3, DecideFacts DEF NrInv, NrRowsOK, RowComplete
  <2>8. NrDecided'
    <3>1. Decision(Rows(Minimum))' = Decision(rows) /\ InterimDecision(Rows(Interim))' = InterimDecision(Rows(Interim))
      BY <1>1, <1>2, <2>1 DEF Rows
    <3> QED
      BY <1>1, <1>3, <1>4, <2>2, <2>3, <3>1, DecideFacts DEF NrDecided
  <2>9. NrClaimsOK'
    BY <2>3 DEF NrClaimsOK, Written
  <2> QED
    BY <2>4, <2>5, <2>6, <2>7, <2>8, <2>9 DEF NrInv
<1>5. CASE ~extend
  <2> DEFINE status == StatusOf(rows)
             decision == Decision(rows)
  <2>1. status \in Claims
    BY DEF StatusOf, Claims
  <2>2. run' = [run EXCEPT !.at = "finally", !.wave = {}]
        /\ summary' = [summary EXCEPT !.decision = decision, !.status = status]
    <3>1. run' = [run EXCEPT !.at = "finally", !.block = run.block, !.wave = {}]
      BY <1>1, <1>5
    <3>2. run' = [run EXCEPT !.at = "finally", !.wave = {}]
      BY <3>1, RunFacts DEF NrRuns
    <3> QED
      BY <1>1, <1>5, <3>2
  <2>3. run' \in NrRuns /\ run'.at = "finally" /\ run'.next = run.next /\ run'.reported = run.reported
        /\ run'.block = run.block /\ run'.spool = run.spool
    BY <2>2, RunFacts DEF NrRuns, NrPlaces
  <2>4. Rows(summary.rows)' = Rows(summary'.rows)
    BY <1>1 DEF Rows
  <2> HIDE DEF status, decision
  <2>5. /\ DOMAIN summary' = NrFields /\ summary' = [f \in NrFields |-> summary'[f]]
        /\ summary'.status = status /\ summary'.trials = summary.trials /\ summary'.rows = summary.rows
        /\ summary'.interim = summary.interim /\ summary'.before = summary.before /\ summary'.decision = decision
    BY <2>2 DEF NrInv, NrTypeOK, NrFields
  <2>6. NrTrialsOK'
    BY <1>1, <2>3, DecideFacts, TrialsStay
  <2>7. NrTypeOK'
    BY <1>1, <2>3, <2>5 DEF NrInv, NrTypeOK
  <2>8. NrPlaceOK'
    BY <1>1, <2>3 DEF NrPlaceOK
  <2>9. NrRowsOK'
    BY <1>1, <2>3, <2>5, DecideFacts DEF NrInv, NrRowsOK, RowComplete
  <2>10. NrDecided'
    <3>1. UNCHANGED <<mode, rewards>> /\ run.at = "decide" /\ mode = "none" /\ run.block \in {2, 3}
      BY <1>1
    <3>2. run.block = 3 => Decision(Rows(Minimum)) = "extend_to_total_20"
      BY DEF NrInv, NrDecided
    <3>3. Rows(Minimum)' = Rows(Minimum) /\ Rows(Interim)' = Rows(Interim)
      BY <3>1 DEF Rows
    <3>4. Decision(Rows(Minimum))' = Decision(Rows(Minimum)) /\ InterimDecision(Rows(Interim))' = InterimDecision(Rows(Interim))
      BY <3>1 DEF Rows
    <3> QED
      BY <1>3, <2>3, <2>5, <3>1, <3>2, <3>4 DEF NrDecided
  <2>11. NrMeasured(status)'
    <3>1. summary'.rows = BlockOf(mode, run.block) /\ BlockOf(mode, run.block)' = BlockOf(mode, run.block)
      BY <1>1, <2>3, <2>5, DecideFacts DEF BlockOf
    <3>2. decision = Decision(Rows(summary.rows))' /\ status = StatusOf(Rows(summary.rows))'
          /\ Decision(Rows(summary.rows))' # "extend_to_total_20"
      BY <1>1, <1>5, <2>5 DEF decision, status, Rows
    <3>3. AllValid(run.next - 1)' /\ \A k \in Plan : k >= run'.next => trial'[k].at = "planned"
      BY <1>1, <2>3, DecideFacts DEF AllValid
    <3>4. summary'.trials = summary'.rows * TaskCount /\ summary'.trials = run'.next - 1
          /\ run'.spool /\ run'.reported = summary'.rows
      BY <1>1, <2>3, <2>5, DecideFacts
    <3>5. status' = status
      BY <1>1, <2>5 DEF status, Rows
    <3> QED
      BY <1>1, <1>3, <2>3, <2>5, <3>1, <3>2, <3>3, <3>4, <3>5 DEF NrMeasured
  <2>12. NrClaimsOK'
    <3>1. summary'.before = "none" /\ summary'.status # "retrieval_pending"
      BY <1>1, <2>1, <2>5, DecideFacts DEF Claims
    <3>2. NrMeasured(summary.status)'
      <4>1. status' = status
        BY <1>1, <2>5 DEF status, Rows
      <4> QED
        BY <2>5, <2>11, <4>1 DEF NrMeasured
    <3> QED
      BY <2>3, <3>1, <3>2 DEF NrClaimsOK, Written
  <2> QED
    BY <2>6, <2>7, <2>8, <2>9, <2>10, <2>12 DEF NrInv
<1> QED
  BY <1>4, <1>5

LEMMA DecideOtherKeeps == ASSUME NrInv, DecideOther PROVE NrInv'
<1> DEFINE comparison == IF mode = "compressor"
                         THEN CompareQuality(BaselineRows, [r \in 1 .. summary.rows |-> rewards'[r]], 1)
                         ELSE summary.comparison
<1>1. run.at = "decide" /\ mode # "none" /\ Read /\ UNCHANGED <<mode, failure, trial, staged>>
  BY DEF DecideOther
<1>2. run' = [run EXCEPT !.at = "finally", !.wave = {}]
      /\ summary' = [summary EXCEPT !.status = "complete", !.comparison = comparison]
  BY DEF DecideOther
<1>3. mode = "compressor" => comparison = CompareQuality(BaselineRows, Rows(summary.rows)', 1) \/ summary'.rows # summary.rows
  BY DEF Rows
<1> HIDE DEF comparison
<1>4. run' \in NrRuns /\ run'.at = "finally" /\ run'.next = run.next /\ run'.reported = run.reported
      /\ run'.block = run.block /\ run'.spool = run.spool
  BY <1>2, RunFacts DEF NrRuns, NrPlaces
<1>5. /\ DOMAIN summary' = NrFields /\ summary' = [f \in NrFields |-> summary'[f]]
      /\ summary'.status = "complete" /\ summary'.trials = summary.trials /\ summary'.rows = summary.rows
      /\ summary'.interim = summary.interim /\ summary'.before = summary.before /\ summary'.comparison = comparison
  BY <1>2 DEF NrInv, NrTypeOK, NrFields
<1>6. NrTrialsOK'
  BY <1>1, <1>4, DecideFacts, TrialsStay
<1>7. NrTypeOK'
  BY <1>1, <1>4, <1>5, ReadOnce DEF NrInv, NrTypeOK
<1>8. run.block = 1 /\ mode # "none"
  BY <1>1, RunFacts
<1>9. NrPlaceOK'
  BY <1>1, <1>4, <1>8 DEF NrPlaceOK
<1>10. NrRowsOK'
  BY <1>1, <1>4, <1>5, DecideFacts DEF NrInv, NrRowsOK, RowComplete
<1>11. NrDecided'
  BY <1>1, <1>4, <1>8 DEF NrDecided
<1>12. NrMeasured("complete")'
  <2>1. summary'.rows = BlockOf(mode, run.block) /\ BlockOf(mode, run.block)' = BlockOf(mode, run.block)
    BY <1>1, <1>4, <1>5, DecideFacts DEF BlockOf
  <2>2. AllValid(run.next - 1)' /\ \A k \in Plan : k >= run'.next => trial'[k].at = "planned"
    BY <1>1, <1>4, DecideFacts DEF AllValid
  <2>3. summary'.trials = summary'.rows * TaskCount /\ summary'.trials = run'.next - 1
        /\ run'.spool /\ run'.reported = summary'.rows
    BY <1>1, <1>4, <1>5, DecideFacts
  <2>4. mode = "compressor" => summary'.comparison = CompareQuality(BaselineRows, Rows(summary.rows), 1)'
    BY <1>3, <1>5
  <2> QED
    BY <1>1, <1>4, <2>1, <2>2, <2>3, <2>4 DEF NrMeasured
<1>13. NrClaimsOK'
  <2>1. summary'.before = "none"
    BY <1>1, <1>5, DecideFacts
  <2> QED
    BY <1>4, <1>5, <1>12, <2>1 DEF NrClaimsOK, Written
<1> QED
  BY <1>6, <1>7, <1>9, <1>10, <1>11, <1>13 DEF NrInv

LEMMA FinishKeeps == ASSUME NrInv, Finish PROVE NrInv'
<1>1. PICK closeFails \in BOOLEAN, finishRaises \in BOOLEAN, upload \in Uploads :
         LET status == IF closeFails THEN "stopped" ELSE summary.status
             shown == IF finishRaises THEN "retrieval_pending" ELSE upload
         IN  /\ IF closeFails \/ finishRaises THEN Fault ELSE UNCHANGED faults
             /\ finishRaises => run.spool
             /\ failure' = IF closeFails THEN Stopped("CompressorCloseError") ELSE failure
             /\ summary' = [summary EXCEPT
                              !.status = FinalStatus(status, shown),
                              !.before = IF FinalStatus(status, shown) # status THEN status ELSE "none",
                              !.upload = IF finishRaises THEN "finalization_error" ELSE upload,
                              !.items = IF finishRaises THEN <<>> ELSE staged,
                              !.reason = failure']
  BY Zenon DEF Finish
<1> DEFINE status == IF closeFails THEN "stopped" ELSE summary.status
           shown == IF finishRaises THEN "retrieval_pending" ELSE upload
           final == FinalStatus(status, shown)
           before == IF final # status THEN status ELSE "none"
           uploaded == IF finishRaises THEN "finalization_error" ELSE upload
           items == IF finishRaises THEN <<>> ELSE staged
<1>2. failure # NoFailure => failure' # NoFailure
  BY <1>1, StoppedKeeps DEF NoFailure
<1>3. summary' = [summary EXCEPT !.status = final, !.before = before, !.upload = uploaded, !.items = items,
                                 !.reason = failure']
  BY <1>1
<1>4. /\ run.at = "finally" /\ run' = [run EXCEPT !.at = "written"] /\ \A k \in Plan : UnderWay(trial[k]) = 0
      /\ UNCHANGED <<mode, rewards, trial, staged>>
  BY DEF Finish
<1>5. ASSUME (IF before # "none" THEN before ELSE final) \in Claims, uploaded # "finalization_error"
      PROVE  /\ summary.status \in Claims /\ (IF before # "none" THEN before ELSE final) = summary.status
             /\ items = staged /\ uploaded \in Uploads
             /\ final \in Claims => uploaded # "retrieval_pending"
             /\ final = "retrieval_pending" => uploaded = "retrieval_pending"
             /\ final \in Claims \cup {"retrieval_pending"}
  <2>1. ~finishRaises /\ shown = upload /\ items = staged /\ uploaded = upload
    BY <1>5
  <2>2. ~closeFails
    BY <1>5 DEF FinalStatus, Claims
  <2>3. status = summary.status /\ summary.status # "retrieval_pending"
    BY <1>4, <2>2 DEF NrInv, NrClaimsOK
  <2> QED
    BY <1>5, <2>1, <2>3 DEF FinalStatus, Claims
<1> HIDE DEF final, before, uploaded, items
<1>6. run' \in NrRuns /\ run'.at = "written" /\ run'.next = run.next /\ run'.reported = run.reported
      /\ run'.block = run.block /\ run'.spool = run.spool
  BY <1>4, RunFacts DEF NrRuns, NrPlaces
<1>7. /\ DOMAIN summary' = NrFields /\ summary' = [f \in NrFields |-> summary'[f]]
      /\ summary'.trials = summary.trials /\ summary'.rows = summary.rows
      /\ summary'.interim = summary.interim /\ summary'.comparison = summary.comparison
      /\ summary'.decision = summary.decision
      /\ summary'.status = final /\ summary'.before = before /\ summary'.upload = uploaded /\ summary'.items = items
  BY <1>3 DEF NrInv, NrTypeOK, NrFields
<1>8. NrTrialsOK'
  BY <1>2, <1>4, <1>6, BetweenWaves, TrialsStay
<1>9. NrTypeOK'
  BY <1>4, <1>6, <1>7 DEF NrInv, NrTypeOK
<1>10. NrPlaceOK'
  BY <1>4, <1>6 DEF NrInv, NrPlaceOK
<1>11. NrRowsOK'
  BY <1>4, <1>6, <1>7 DEF NrInv, NrRowsOK, RowComplete
<1>12. NrDecided'
  BY <1>4, <1>6, <1>7 DEF NrInv, NrDecided, Rows
<1>13. ASSUME Measured' \in Claims, summary'.upload # "finalization_error"
       PROVE  /\ NrMeasured(Measured)' /\ summary'.items = staged'
              /\ summary'.status \in Claims => summary'.upload = "uploaded"
              /\ summary'.status = "retrieval_pending" => summary'.upload = "retrieval_pending"
              /\ summary'.status \in Claims \cup {"retrieval_pending"}
  <2>1. Measured' = IF before # "none" THEN before ELSE final
    BY <1>7 DEF Measured
  <2>2. /\ summary.status \in Claims /\ Measured' = summary.status
        /\ items = staged /\ uploaded \in Uploads
        /\ final \in Claims => uploaded # "retrieval_pending"
        /\ final = "retrieval_pending" => uploaded = "retrieval_pending"
        /\ final \in Claims \cup {"retrieval_pending"}
    BY <1>5, <1>7, <1>13, <2>1
  <2>3. NrMeasured(summary.status)
    BY <1>4, <2>2 DEF NrInv, NrClaimsOK
  <2>4. NrMeasured(Measured)'
    BY <1>4, <1>6, <1>7, <2>2, <2>3 DEF NrMeasured, AllValid, BlockOf, Rows
  <2>5. Uploads = {"uploaded", "retrieval_pending"}
    <3>1. run.spool /\ run.reported = Blocks[run.block] /\ run.reported > 0
      BY <2>3, RunFacts DEF NrMeasured
    <3>2. staged # <<>>
      <4>1. DOMAIN staged = 1 .. run.reported /\ 1 \in 1 .. run.reported /\ DOMAIN <<>> = {}
        BY <3>1, RunFacts DEF NrInv, NrRowsOK
      <4> QED
        BY <4>1
    <3> QED
      BY <3>1, <3>2 DEF Uploads
  <2> QED
    BY <1>4, <1>7, <2>2, <2>4, <2>5
<1>14. NrClaimsOK'
  BY <1>6, <1>13 DEF NrClaimsOK, Written
<1> QED
  BY <1>8, <1>9, <1>10, <1>11, <1>12, <1>14 DEF NrInv

LEMMA NrStarts == Init => NrInv
<1> SUFFICES ASSUME Init PROVE NrInv
  OBVIOUS
<1>1. /\ mode \in Modes /\ rewards = <<>> /\ failure = NoFailure /\ staged = <<>>
      /\ run = [at |-> "setup", block |-> 1, wave |-> {}, next |-> 1, reported |-> 0, spool |-> FALSE]
      /\ \A k \in Plan : trial[k] = [at |-> "planned", leader |-> "none", group |-> FALSE, stopped |-> FALSE,
                                     limit |-> FALSE, waiting |-> 0, sent |-> 0, unread |-> 0, usage |-> "none",
                                     clean |-> FALSE, behind |-> FALSE, late |-> FALSE, valid |-> FALSE]
  BY DEF Init, Modes
<1>2. summary = [status |-> "running", trials |-> 0, rows |-> 0, interim |-> "none", decision |-> "none",
                 comparison |-> "none", before |-> "none", upload |-> "none", items |-> <<>>,
                 reason |-> NoFailure]
  BY DEF Init
<1>3. run \in NrRuns
  BY <1>1 DEF NrRuns, NrPlaces
<1>4. trial \in [Plan -> NrTrials]
  <2> DEFINE first == [at |-> "planned", leader |-> "none", group |-> FALSE, stopped |-> FALSE,
                       limit |-> FALSE, waiting |-> 0, sent |-> 0, unread |-> 0, usage |-> "none",
                       clean |-> FALSE, behind |-> FALSE, late |-> FALSE, valid |-> FALSE]
  <2>0. first \in NrTrials
    BY DEF NrTrials, NrStates, NrLeaders, NrUsages
  <2>1. \A k \in Plan : trial[k] \in NrTrials
    BY <1>1, <2>0
  <2> QED
    BY <2>1 DEF Init
<1>5. DOMAIN summary = NrFields /\ summary = [f \in NrFields |-> summary[f]]
      /\ summary.trials = 0 /\ summary.rows = 0 /\ summary.interim = "none" /\ summary.status = "running"
      /\ summary.before = "none"
  BY <1>2 DEF NrFields
<1>6. NrTypeOK
  BY <1>1, <1>3, <1>4, <1>5 DEF NrTypeOK
<1>7. NrTrialsOK
  BY <1>1 DEF NrTrialsOK, NrTrialOK, UnderWay
<1>8. run.at = "setup" /\ run.next = 1 /\ run.block = 1 /\ run.reported = 0
  BY <1>1
<1>9. NrPlaceOK
  BY <1>8 DEF NrPlaceOK, AllValid
<1>10. NrRowsOK
  <2>1. 0 * TaskCount = 0
    BY TaskNumber
  <2>2. staged = [i \in 1 .. 0 |-> i]
    BY <1>1
  <2> QED
    BY <1>5, <1>8, <2>1, <2>2 DEF NrRowsOK
<1>11. NrDecided
  BY <1>5, <1>8 DEF NrDecided
<1>12. NrClaimsOK
  BY <1>8 DEF NrClaimsOK, Written
<1> QED
  BY <1>6, <1>7, <1>9, <1>10, <1>11, <1>12 DEF NrInv

LEMMA NrStep == NrInv /\ [Next]_vars => NrInv'
<1> SUFFICES ASSUME NrInv, [Next]_vars PROVE NrInv'
  OBVIOUS
<1>1. CASE UNCHANGED vars
  BY <1>1, FailureStep DEF vars
<1>2. CASE Next
  <2>1. ASSUME NEW k \in {j \in Plan : trial[j].at # "planned"},
               \/ Spawn(k) \/ Ask(k) \/ Send(k) \/ Drop(k) \/ Answer(k) \/ Deliver(k)
               \/ HitLimit(k) \/ Exits(k) \/ PollStops(k) \/ SupervisorRaises(k) \/ LateRequest(k)
               \/ ReadFailure(k) \/ Collect(k) \/ CollectRaises(k)
        PROVE  NrInv'
    BY <2>1, TrialsKeep
  <2>2. CASE SetupFails
    <3>1. "setup" # NoFailure
      BY DEF NoFailure
    <3> QED
      BY <2>2, <3>1, RaiseKeeps DEF SetupFails
  <2>3. CASE WaveRefused
    BY <2>3, RaiseKeeps DEF WaveRefused
  <2>4. CASE EndWaveRaises
    <3>1. "trial" # NoFailure
      BY DEF NoFailure
    <3> QED
      BY <2>4, <3>1, RaiseKeeps DEF EndWaveRaises
  <2>5. CASE ReportRaises
    <3>1. "stage" # NoFailure
      BY DEF NoFailure
    <3> QED
      BY <2>5, <3>1, RaiseKeeps DEF ReportRaises
  <2> QED
    BY <1>2, <2>1, <2>2, <2>3, <2>4, <2>5, SetupKeeps, StartWaveKeeps, EndWaveKeeps, ReportKeeps, MoreWavesKeeps,
       BlockIncompleteKeeps, BlockCompleteKeeps, DecideInterimKeeps, DecideBaselineKeeps, DecideOtherKeeps, FinishKeeps
       DEF Next
<1> QED
  BY <1>1, <1>2

(* Every state of a native run satisfies the inductive invariant: where the  *)
(* driver is among its blocks, what each trial's record may say, and what a   *)
(* claim of the summary rests on (execute_native of native_run.py).          *)
THEOREM NrInvariant == Spec => []NrInv
  BY NrStarts, NrStep, PTL DEF Spec

-----------------------------------------------------------------------------
(* What it shows                                                           *)

LEMMA InvRows == NrInv => OnlyCompleteRowsCount
<1> SUFFICES ASSUME NrInv, NEW r \in 1 .. Maximum, r \in ToSet(staged) \/ (Written /\ r <= summary.rows),
                    NEW k \in TrialsOf(r)
             PROVE  /\ trial[k].leader = "exit_zero" /\ ~trial[k].stopped /\ trial[k].clean
                    /\ trial[k].late \/ trial[k].usage = "known"
  BY DEF OnlyCompleteRowsCount
<1>1. RowComplete(r)
  <2>1. CASE r \in ToSet(staged)
    <3>1. r \in 1 .. run.reported
      BY <2>1 DEF ToSet, NrInv, NrRowsOK
    <3> QED
      BY <3>1 DEF NrInv, NrRowsOK
  <2>2. CASE r <= summary.rows
    <3>1. r \in 1 .. summary.rows
      BY <2>2 DEF NrInv, NrTypeOK
    <3> QED
      BY <3>1 DEF NrInv, NrRowsOK
  <2> QED
    BY <2>1, <2>2
<1>2. k \in Plan /\ trial[k].valid
  BY <1>1 DEF RowComplete, TrialsOf
<1> QED
  BY <1>2 DEF NrInv, NrTrialsOK, NrTrialOK

LEMMA InvVerifies == NrInv => MeasuredBundleVerifies
<1> SUFFICES ASSUME NrInv, Written, Measured \in Claims, summary.upload # "finalization_error"
             PROVE  RecordFollows /\ ((\A k \in 1 .. summary.trials : ~trial[k].behind) => Verifies)
  BY DEF MeasuredBundleVerifies, Claims
<1>1. /\ NrMeasured(Measured) /\ summary.items = staged
      /\ summary.status \in Claims => summary.upload = "uploaded"
      /\ summary.status = "retrieval_pending" => summary.upload = "retrieval_pending"
      /\ summary.status \in Claims \cup {"retrieval_pending"}
  BY DEF NrInv, NrClaimsOK
<1>2. /\ summary.trials = run.next - 1 /\ AllValid(summary.trials)
      /\ summary.rows = BlockOf(mode, run.block) /\ summary.trials = summary.rows * TaskCount
      /\ run.reported = summary.rows
      /\ summary.trials \in Nat /\ summary.rows \in Nat
  BY <1>1 DEF NrMeasured, NrInv, NrTypeOK
<1>3. \A k \in 1 .. summary.trials : k \in Plan /\ trial[k].valid /\ trial[k].at = "written"
  BY <1>2 DEF AllValid, NrInv, NrTrialsOK, NrTrialOK
<1>4. (\A k \in 1 .. summary.trials : ~trial[k].behind) => MetricsUnchanged
  BY <1>3 DEF MetricsUnchanged, NrInv, NrTrialsOK, NrTrialOK
<1>5. staged = [i \in 1 .. summary.rows |-> i]
  BY <1>2 DEF NrInv, NrRowsOK
<1>6. CASE mode = "cache_reuse"
  <2>1. summary.rows = 1
    BY <1>2, <1>6 DEF BlockOf
  <2>2. summary.trials = TaskCount
    BY <1>2, <2>1, TaskNumber
  <2>3. Measured = "complete"
    BY <1>1, <1>6 DEF NrMeasured
  <2>4. Len(summary.items) = 1
    BY <1>1, <1>5, <2>1
  <2> QED
    BY <1>4, <1>6, <2>1, <2>2, <2>3, <2>4 DEF Verifies, RecordFollows, CacheBundleFollows
<1>7. CASE mode # "cache_reuse"
  <2>1. EveryTrialIncluded
    <3>1. ASSUME NEW k \in Plan, trial[k].at = "written" PROVE k \in 1 .. summary.trials
      <4>1. ~(k >= run.next)
        BY <1>1, <3>1 DEF NrMeasured
      <4> QED
        BY <1>2, <4>1, PlanIsNat, RunFacts
    <3> QED
      BY <1>3, <3>1 DEF EveryTrialIncluded, RecordedTrials
  <2>2. RowsFollow
    <3>1. \A q \in 1 .. summary.rows : RowComplete(q)
      BY DEF NrInv, NrRowsOK
    <3>2. CompleteRows(summary.trials) = summary.rows
      BY <1>2, <3>1, CountedRows
    <3> QED
      BY <1>3, <3>2 DEF RowsFollow
  <2>3. RetrievalFollows
    BY <1>1, <1>5 DEF RetrievalFollows, Claims
  <2>4. BaselineFollows
    <3> SUFFICES ASSUME mode = "none"
                 PROVE  /\ summary.interim = IF summary.rows >= Interim THEN InterimDecision(Rows(Interim)) ELSE "none"
                        /\ summary.rows # Interim
                        /\ summary.rows \in {Minimum, Maximum}
                        /\ summary.rows = Maximum => Decision(Rows(Minimum)) # "observed_range_stabilized"
                        /\ summary.decision = Decision(Rows(summary.rows))
                        /\ (Measured = "complete") = Informative(Rows(summary.rows))
      BY DEF BaselineFollows
    <3>1. /\ run.block \in {2, 3}
          /\ summary.decision = Decision(Rows(summary.rows)) /\ Measured = StatusOf(Rows(summary.rows))
      BY <1>1 DEF NrMeasured
    <3>2. Interim \in Nat /\ Minimum \in Nat /\ Maximum \in Nat /\ Interim < Minimum /\ Minimum < Maximum
      BY BaselineAssumption
    <3>3. (run.block = 2 /\ summary.rows = Minimum) \/ (run.block = 3 /\ summary.rows = Maximum)
      BY <1>2, <3>1 DEF BlockOf
    <3>4. summary.interim = InterimDecision(Rows(Interim)) /\ summary.rows >= Interim /\ summary.rows # Interim
      BY <3>1, <3>2, <3>3 DEF NrInv, NrDecided
    <3>5. summary.rows = Maximum => Decision(Rows(Minimum)) = "extend_to_total_20"
      BY <3>2, <3>3 DEF NrInv, NrDecided
    <3>6. (Measured = "complete") = Informative(Rows(summary.rows))
      BY <3>1 DEF StatusOf, Informative
    <3> QED
      BY <3>1, <3>3, <3>4, <3>5, <3>6
  <2>5. ComparisonFollows
    BY <1>1 DEF ComparisonFollows, NrMeasured
  <2> QED
    BY <1>4, <1>7, <2>1, <2>2, <2>3, <2>4, <2>5 DEF Verifies, RecordFollows
<1> QED
  BY <1>6, <1>7

(* Whatever ended a run, a bundle that claims a measurement agrees with its   *)
(* own rows and decisions, and passes its verification if no counted trial   *)
(* had a request under way when its metrics were read; a repetition is       *)
(* counted or staged only when each of its trials ended well with every      *)
(* attempt answered (execute_native and verify_native_run, native_run.py):   *)
(* for any tasks, repetitions, concurrency, requests and faults.             *)
THEOREM MeasurementAlwaysHolds == Spec => []MeasurementHolds
<1>1. NrInv => MeasurementHolds
  BY InvRows, InvVerifies DEF MeasurementHolds
<1> QED
  BY <1>1, NrInvariant, PTL

(* A trial that was stopped leaves no process behind unless the whole run    *)
(* stops, and no request is under way beside a written bundle (terminate_group*)
(* and the finally block of execute_native).                                 *)
THEOREM NothingLeftBehind == Spec => []StoppedLeavesNothing
<1>1. NrInv => StoppedLeavesNothing
  BY DEF NrInv, NrTrialsOK, NrTrialOK, StoppedLeavesNothing, Written
<1> QED
  BY <1>1, NrInvariant, PTL

(***************************************************************************)
(* LocalRun.                                                               *)
(***************************************************************************)

LrIds == Nat \X Nat \X Nat
LrAttemptRows == [id : LrIds, included : BOOLEAN]
LrTotals == [http : Nat, included : SUBSET LrIds] \cup {NoTotals}
LrPhases == {"sets_up", "repetition", "closes", "reads", "ends", "saved", "over"}
LrHandlerRows == [at : {"idle", "waits", "sends", "replies"}, call : Nat, attempt : Nat]
LrRunnerRows ==
    [phase : LrPhases, repetition : Nat, raised : BOOLEAN, trials : Seq(Rewards),
     status : {"running", "passed", "failed", "error"}, totals : LrTotals, exit : {-1, 0, 1, 2, 3}]

LrTypeOK ==
    /\ runner \in LrRunnerRows
    /\ recorder \in [calls : Nat, failure : BOOLEAN]
    /\ handlers \in [Handlers -> LrHandlerRows]
    /\ DOMAIN upstream \subseteq LrIds /\ upstream \in [DOMAIN upstream -> Answers]
    /\ attempts \in Seq(LrAttemptRows)

LrBusy(h) == handlers[h].at \in {"sends", "replies"}

\* One request is with the model server at a time, and none outside a repetition.
LrOneAtATime ==
    /\ \A g, h \in Handlers : LrBusy(g) /\ LrBusy(h) => g = h
    /\ runner.phase \in {"sets_up", "reads", "ends", "saved", "over"} => \A h \in Handlers : handlers[h] = Idle
    /\ \A h \in Handlers : handlers[h].at = "sends" =>
          /\ handlers[h].call = recorder.calls /\ handlers[h].attempt \in 1 .. MaxAttempts
          /\ \A id \in DOMAIN upstream :
                id[1] = runner.repetition /\ id[2] = recorder.calls => id[3] < handlers[h].attempt

\* A call that was answered for good: with usage, or broken off.
LrAnswered(r, c) ==
    \E n \in 1 .. MaxAttempts : <<r, c, n>> \in DOMAIN upstream /\ upstream[<<r, c, n>>] \in {"usage", "broken"}

\* Only the last call of the repetition may have no such answer: it is still
\* being asked, or it was given up and the recorder latched.
LrLatched ==
    /\ \A id \in DOMAIN upstream : id[1] <= runner.repetition /\ (id[1] = runner.repetition => id[2] <= recorder.calls)
    /\ \A id \in DOMAIN upstream :
          \/ LrAnswered(id[1], id[2])
          \/ /\ id[1] = runner.repetition /\ id[2] = recorder.calls
             /\ recorder.failure \/ \E h \in Handlers : handlers[h].at = "sends"

\* attempts.jsonl has each answer once, but for those that broke off.
LrRecordedOnce ==
    /\ \A i, j \in 1 .. Len(attempts) : attempts[i].id = attempts[j].id => i = j
    /\ \A i \in 1 .. Len(attempts) :
          /\ attempts[i].id \in DOMAIN upstream /\ upstream[attempts[i].id] # "broken"
          /\ attempts[i].included <=> upstream[attempts[i].id] = "usage"
    /\ \A id \in DOMAIN upstream : upstream[id] # "broken" => \E i \in 1 .. Len(attempts) : attempts[i].id = id

LrAllClean ==
    /\ Len(runner.trials) = Repetitions /\ WithinBounds(runner.trials)
    /\ \A id \in DOMAIN upstream : LrAnswered(id[1], id[2])
\* What the runner says follows from what it read.
LrRunnerKnows ==
    /\ runner.phase = "sets_up" => runner.repetition = 0 /\ runner.trials = <<>> /\ DOMAIN upstream = {}
    /\ runner.phase \in {"repetition", "closes", "reads"} =>
          runner.repetition \in 1 .. Repetitions /\ Len(runner.trials) = runner.repetition - 1
    /\ runner.phase \in {"sets_up", "repetition", "closes", "reads"} => runner.exit = -1 /\ runner.status = "running"
    /\ runner.phase = "ends" => runner.exit = 1 \/ (runner.exit = -1 /\ runner.status # "running")
    /\ runner.phase = "saved" => runner.exit = -1 /\ runner.status # "running"
    /\ runner.status = "passed" => runner.phase \in {"ends", "saved", "over"} /\ LrAllClean
    /\ runner.exit = 0 => runner.phase = "over" /\ runner.status = "passed"
    /\ runner.totals # NoTotals => runner.phase \in {"saved", "over"} /\ runner.totals = TotalsOf(attempts)

LrInv == LrTypeOK /\ LrOneAtATime /\ LrLatched /\ LrRecordedOnce /\ LrRunnerKnows

-----------------------------------------------------------------------------
\* The totals of the records are those of the answers.
LEMMA LrTotalsTell ==
    ASSUME LrTypeOK, LrRecordedOnce
    PROVE  /\ TotalsOf(attempts).http = Cardinality({id \in DOMAIN upstream : upstream[id] # "broken"})
           /\ TotalsOf(attempts).included = {id \in DOMAIN upstream : upstream[id] = "usage"}
           /\ TotalsOf(attempts) \in LrTotals /\ TotalsOf(attempts) # NoTotals
<1> DEFINE n == Len(attempts)
           T == {id \in DOMAIN upstream : upstream[id] # "broken"}
           f == [i \in 1 .. n |-> attempts[i].id]
           counted == {attempts[i].id : i \in {j \in 1 .. Len(attempts) : attempts[j].included}}
<1>1. n \in Nat /\ \A i \in 1 .. n : attempts[i] \in LrAttemptRows
  BY DEF LrTypeOK
<1>2. f \in Bijection(1 .. n, T)
  <2>1. f \in [1 .. n -> T]
    BY DEF LrRecordedOnce
  <2>2. \A i, j \in 1 .. n : f[i] = f[j] => i = j
    BY DEF LrRecordedOnce
  <2>3. \A id \in T : \E i \in 1 .. n : f[i] = id
    BY DEF LrRecordedOnce
  <2> HIDE DEF f, T, n
  <2>4. f \in Injection(1 .. n, T)
    BY <2>1, <2>2 DEF Injection, IsInjective
  <2>5. f \in Surjection(1 .. n, T)
    BY <2>1, <2>3 DEF Surjection
  <2> QED
    BY <2>4, <2>5 DEF Bijection
<1>3. ExistsBijection(1 .. n, T)
  BY <1>2 DEF ExistsBijection
<1>4. IsFiniteSet(1 .. n) /\ Cardinality(1 .. n) = n
  BY <1>1, FS_Interval
<1>5. Cardinality(T) = n
  BY <1>3, <1>4, FS_Bijection
<1>6. counted = {id \in DOMAIN upstream : upstream[id] = "usage"}
  BY DEF LrRecordedOnce
<1>7. counted \subseteq LrIds
  BY <1>6 DEF LrTypeOK
<1>8. TotalsOf(attempts) = [http |-> n, included |-> counted]
  BY DEF TotalsOf
<1> HIDE DEF counted
<1>9. TotalsOf(attempts) \in [http : Nat, included : SUBSET LrIds]
  BY <1>1, <1>7, <1>8
<1>10. TotalsOf(attempts) # NoTotals
  <2>1. DOMAIN [http |-> n, included |-> counted] = {"http", "included"} /\ DOMAIN NoTotals = {"none"}
    BY DEF NoTotals
  <2> QED
    BY <1>8, <2>1
<1> QED
  BY <1>5, <1>6, <1>8, <1>9, <1>10 DEF LrTotals

LEMMA LrInvTrue == LrInv => LrSummaryIsTrue
<1> SUFFICES ASSUME LrInv PROVE LrSummaryIsTrue
  OBVIOUS
<1>1. TotalsAreWhole
  BY LrTotalsTell DEF LrInv, LrRunnerKnows, LrOneAtATime, TotalsAreWhole
<1>2. NoSecondBudget
  <2> SUFFICES ASSUME NEW one \in DOMAIN upstream, NEW other \in DOMAIN upstream, one[1] = other[1], one[2] < other[2]
               PROVE  LrAnswered(one[1], one[2])
    BY DEF NoSecondBudget, LrAnswered
  <2>1. one[1] \in Nat /\ one[2] \in Nat /\ other[2] \in Nat /\ recorder.calls \in Nat
    BY DEF LrInv, LrTypeOK, LrIds
  <2>2. ~(one[1] = runner.repetition /\ one[2] = recorder.calls)
    BY <2>1 DEF LrInv, LrLatched
  <2> QED
    BY <2>2 DEF LrInv, LrLatched
<1>3. PassedIsClean
  BY DEF LrInv, LrRunnerKnows, LrAllClean, LrAnswered, PassedIsClean
<1> QED
  BY <1>1, <1>2, <1>3 DEF LrSummaryIsTrue

LEMMA LrInitHolds == LrInit => LrInv
<1> SUFFICES ASSUME LrInit PROVE LrInv
  OBVIOUS
<1>1. DOMAIN upstream = {} /\ upstream \in [DOMAIN upstream -> Answers]
  BY DEF LrInit
<1>2. runner \in LrRunnerRows
  BY DEF LrInit, LrRunnerRows, LrPhases, LrTotals
<1>3. LrTypeOK
  BY <1>1, <1>2 DEF LrInit, LrTypeOK, LrHandlerRows, Idle
<1>4. Len(attempts) = 0 /\ runner.totals = NoTotals /\ runner.exit = -1 /\ runner.status = "running"
      /\ runner.phase = "sets_up" /\ runner.repetition = 0 /\ runner.trials = <<>>
      /\ \A h \in Handlers : handlers[h] = Idle
  BY DEF LrInit
<1>5. \A h \in Handlers : handlers[h].at = "idle"
  BY <1>4 DEF Idle
<1> QED
  BY <1>1, <1>3, <1>4, <1>5 DEF LrInv, LrOneAtATime, LrLatched, LrRecordedOnce, LrRunnerKnows, LrBusy

-----------------------------------------------------------------------------
\* Steps that leave the answers, the recorder's count and the runner alone.
LEMMA LrRequestKeeps ==
    ASSUME LrInv, NEW h \in Handlers, LrRequest(h)
    PROVE  LrInv'
<1>1. /\ runner.phase = "repetition" /\ handlers[h] = Idle /\ handlers' = [handlers EXCEPT ![h].at = "waits"]
      /\ UNCHANGED <<runner, recorder, upstream, attempts>>
  BY DEF LrRequest
<1>2. LrTypeOK'
  BY <1>1 DEF LrInv, LrTypeOK, LrHandlerRows
<1>3. handlers'[h].at = "waits" /\ handlers[h].at = "idle" /\ \A g \in Handlers : g # h => handlers'[g] = handlers[g]
  BY <1>1 DEF LrInv, LrTypeOK, LrHandlerRows, Idle
<1>4. LrOneAtATime'
  BY <1>1, <1>3 DEF LrInv, LrOneAtATime, LrBusy
<1>5. LrLatched'
  BY <1>1, <1>3 DEF LrInv, LrLatched, LrAnswered
<1> QED
  BY <1>1, <1>2, <1>4, <1>5 DEF LrInv, LrRecordedOnce, LrRunnerKnows, LrAllClean, LrAnswered

LEMMA LrStrayKeeps ==
    ASSUME LrInv, NEW away \in BOOLEAN, LrStray(away)
    PROVE  LrInv'
<1> DEFINE latched == away \/ recorder.failure
<1>1. recorder' = [recorder EXCEPT !.failure = latched] /\ UNCHANGED <<runner, handlers, upstream, attempts>>
  BY DEF LrStray
<1>2. latched \in BOOLEAN /\ (recorder.failure => latched)
  BY DEF LrInv, LrTypeOK
<1> HIDE DEF latched
<1>3. recorder'.calls = recorder.calls /\ (recorder.failure => recorder'.failure) /\ recorder' \in [calls : Nat, failure : BOOLEAN]
  BY <1>1, <1>2 DEF LrInv, LrTypeOK
<1>4. LrTypeOK'
  BY <1>1, <1>3 DEF LrInv, LrTypeOK
<1>5. LrLatched'
  BY <1>1, <1>3 DEF LrInv, LrLatched, LrAnswered
<1>6. LrOneAtATime'
  BY <1>1, <1>3 DEF LrInv, LrOneAtATime, LrBusy
<1> QED
  BY <1>1, <1>4, <1>5, <1>6 DEF LrInv, LrRecordedOnce, LrRunnerKnows, LrAllClean, LrAnswered

\* The end of a reply under the lock.
LEMMA LrReplyKeeps ==
    ASSUME LrInv, NEW h \in Handlers, NEW away \in BOOLEAN, LrReply(h, away)
    PROVE  LrInv'
<1> DEFINE latched == away \/ recorder.failure
<1>1. /\ handlers[h].at = "replies" /\ handlers' = [handlers EXCEPT ![h] = Idle]
      /\ recorder' = [recorder EXCEPT !.failure = latched] /\ UNCHANGED <<runner, upstream, attempts>>
  BY DEF LrReply
<1>2. latched \in BOOLEAN /\ (recorder.failure => latched)
  BY DEF LrInv, LrTypeOK
<1> HIDE DEF latched
<1>3. recorder'.calls = recorder.calls /\ (recorder.failure => recorder'.failure) /\ recorder' \in [calls : Nat, failure : BOOLEAN]
  BY <1>1, <1>2 DEF LrInv, LrTypeOK
<1>4. Idle \in LrHandlerRows /\ Idle.at = "idle"
  BY DEF Idle, LrHandlerRows
<1>5. LrTypeOK'
  BY <1>1, <1>3, <1>4 DEF LrInv, LrTypeOK
<1>6. handlers'[h] = Idle /\ \A g \in Handlers : g # h => handlers'[g] = handlers[g]
  BY <1>1 DEF LrInv, LrTypeOK
<1>7. LrOneAtATime'
  BY <1>1, <1>3, <1>4, <1>6 DEF LrInv, LrOneAtATime, LrBusy
<1>8. \A g \in Handlers : handlers[g].at = "sends" => handlers'[g].at = "sends"
  BY <1>1, <1>6
<1>9. LrLatched'
  BY <1>1, <1>3, <1>8 DEF LrInv, LrLatched, LrAnswered
<1> QED
  BY <1>1, <1>5, <1>7, <1>9 DEF LrInv, LrRecordedOnce, LrRunnerKnows, LrAllClean, LrAnswered

\* A request that gets the lock: it is refused, or it is the next call.
LEMMA LrForwardKeeps ==
    ASSUME LrInv, NEW h \in Handlers, NEW asLedger \in BOOLEAN, LrForward(h, asLedger)
    PROVE  LrInv'
<1> DEFINE asked == recorder.calls + 1
<1>1. handlers[h].at = "waits" /\ (\A g \in Handlers : ~LrBusy(g)) /\ UNCHANGED <<runner, attempts>>
  BY DEF LrForward, Locked, LrBusy
<1>2. asked \in Nat /\ asked > recorder.calls /\ recorder.calls \in Nat
  BY DEF LrInv, LrTypeOK
<1>3. handlers[h] # Idle /\ runner.phase \notin {"sets_up", "reads", "ends", "saved", "over"}
  BY <1>1 DEF LrInv, LrOneAtATime, Idle
<1>4. upstream' = upstream
  BY DEF LrForward, Sends
<1>5. runner.status # "passed" /\ runner.totals = NoTotals
  BY <1>3 DEF LrInv, LrRunnerKnows
<1> HIDE DEF asked
<1>6. CASE handlers' = [handlers EXCEPT ![h].at = "replies"]
           /\ (recorder' = recorder \/ recorder' = [calls |-> asked, failure |-> TRUE]) /\ (recorder' = recorder => recorder.failure)
  <2>1. handlers'[h].at = "replies" /\ \A g \in Handlers : g # h => handlers'[g] = handlers[g]
    BY <1>6 DEF LrInv, LrTypeOK
  <2>2. LrTypeOK'
    <3>1. handlers' \in [Handlers -> LrHandlerRows]
      BY <1>6 DEF LrInv, LrTypeOK, LrHandlerRows
    <3>2. recorder \in [calls : Nat, failure : BOOLEAN] /\ [calls |-> asked, failure |-> TRUE] \in [calls : Nat, failure : BOOLEAN]
      BY <1>2 DEF LrInv, LrTypeOK
    <3>3. recorder' \in [calls : Nat, failure : BOOLEAN]
      BY <1>6, <3>2
    <3> QED
      BY <1>1, <1>4, <3>1, <3>3 DEF LrInv, LrTypeOK
  <2>3. LrOneAtATime'
    BY <1>1, <1>3, <2>1 DEF LrInv, LrOneAtATime, LrBusy
  <2>4. recorder'.failure /\ recorder'.calls \in {recorder.calls, asked}
    BY <1>6
  <2>5. LrLatched'
    <3>1. CASE recorder' = recorder
      BY <1>1, <1>4, <2>4, <3>1 DEF LrInv, LrLatched, LrAnswered, LrTypeOK
    <3>2. CASE recorder' = [calls |-> asked, failure |-> TRUE] /\ ~recorder.failure
      <4>1. \A id \in DOMAIN upstream : LrAnswered(id[1], id[2])
        BY <1>1, <3>2 DEF LrInv, LrLatched, LrBusy
      <4>2. \A id \in DOMAIN upstream : id[2] \in Nat
        BY DEF LrInv, LrTypeOK, LrIds
      <4>3. recorder'.calls = asked
        BY <3>2
      <4>4. \A id \in DOMAIN upstream : id[1] <= runner.repetition /\ (id[1] = runner.repetition => id[2] <= asked)
        BY <1>2, <4>2 DEF LrInv, LrLatched
      <4> QED
        BY <1>1, <1>4, <4>1, <4>3, <4>4 DEF LrLatched, LrAnswered
    <3>3. recorder.failure => recorder' = recorder
      BY <1>6 DEF LrForward, Sends
    <3> QED
      BY <1>6, <3>1, <3>2, <3>3
  <2> QED
    BY <1>1, <1>4, <1>5, <2>2, <2>3, <2>5 DEF LrInv, LrRecordedOnce, LrRunnerKnows
<1>7. CASE handlers' = [handlers EXCEPT ![h] = [at |-> "sends", call |-> asked, attempt |-> 1]]
           /\ recorder' = [recorder EXCEPT !.calls = asked] /\ ~recorder.failure
  <2> DEFINE one == 1
             row == [at |-> "sends", call |-> asked, attempt |-> one]
  <2>1. row \in LrHandlerRows /\ row.at = "sends" /\ row.call = asked /\ row.attempt = 1
    BY <1>2 DEF LrHandlerRows
  <2>2. handlers' = [handlers EXCEPT ![h] = row]
    BY <1>7
  <2> HIDE DEF row
  <2>3. handlers'[h] = row /\ (\A g \in Handlers : g # h => handlers'[g] = handlers[g]) /\ handlers' \in [Handlers -> LrHandlerRows]
    BY <2>1, <2>2 DEF LrInv, LrTypeOK
  <2>4. recorder'.calls = asked /\ recorder'.failure = recorder.failure /\ recorder' \in [calls : Nat, failure : BOOLEAN]
    BY <1>2, <1>7 DEF LrInv, LrTypeOK
  <2>5. LrTypeOK'
    BY <1>1, <1>4, <2>3, <2>4 DEF LrInv, LrTypeOK
  <2>6. \A id \in DOMAIN upstream : id[2] \in Nat
    BY DEF LrInv, LrTypeOK, LrIds
  <2>7. \A id \in DOMAIN upstream : id[1] <= runner.repetition /\ ~(id[1] = runner.repetition /\ id[2] = asked)
                                    /\ (id[1] = runner.repetition => id[2] <= asked)
    BY <1>2, <2>6 DEF LrInv, LrLatched
  <2>8. 1 \in 1 .. MaxAttempts
    BY LrAssumption
  <2>9. LrOneAtATime'
    <3>1. \A g \in Handlers : g # h => ~LrBusy(g)' /\ handlers'[g].at # "sends"
      BY <1>1, <2>3 DEF LrBusy
    <3>2. \A g \in Handlers : handlers'[g].at = "sends" => g = h
      BY <3>1
    <3>3. /\ handlers'[h].call = recorder'.calls /\ handlers'[h].attempt \in 1 .. MaxAttempts
          /\ \A id \in DOMAIN upstream' :
                id[1] = runner'.repetition /\ id[2] = recorder'.calls => id[3] < handlers'[h].attempt
      BY <1>1, <1>4, <2>1, <2>3, <2>4, <2>7, <2>8
    <3>4. \A f, g \in Handlers : LrBusy(f)' /\ LrBusy(g)' => f = g
      BY <3>1
    <3>5. runner'.phase \notin {"sets_up", "reads", "ends", "saved", "over"}
      BY <1>1, <1>3
    <3> HIDE DEF row
    <3> QED
      BY <3>2, <3>3, <3>4, <3>5 DEF LrOneAtATime
  <2>10. LrLatched'
    <3>1. \A id \in DOMAIN upstream : LrAnswered(id[1], id[2])
      BY <1>1, <1>7 DEF LrInv, LrLatched, LrBusy
    <3> QED
      BY <1>1, <1>4, <2>4, <2>7, <3>1 DEF LrLatched, LrAnswered
  <2> QED
    BY <1>1, <1>4, <1>5, <2>5, <2>9, <2>10 DEF LrInv, LrRecordedOnce, LrRunnerKnows
<1> QED
  BY <1>6, <1>7 DEF LrForward, Sends, asked

\* An answer, which is to the attempt that is being made.
LEMMA LrAnswerKeeps ==
    ASSUME LrInv, NEW h \in Handlers, NEW answer \in Answers, LrAnswer(h, answer)
    PROVE  LrInv'
<1> DEFINE r == runner.repetition
           c == handlers[h].call
           a == handlers[h].attempt
           new == <<r, c, a>>
<1>1. handlers[h].at = "sends" /\ runner' = runner /\ LrBusy(h)
  BY DEF LrAnswer, LrBusy
<1>2. /\ r \in Nat /\ c \in Nat /\ a \in Nat /\ c = recorder.calls /\ a \in 1 .. MaxAttempts /\ new \in LrIds
      /\ new[1] = r /\ new[2] = c /\ new[3] = a
  BY <1>1 DEF LrInv, LrTypeOK, LrHandlerRows, LrRunnerRows, LrOneAtATime, LrIds
<1>3. /\ DOMAIN upstream' = DOMAIN upstream \cup {new} /\ upstream'[new] = answer
      /\ \A id \in DOMAIN upstream : id # new => upstream'[id] = upstream[id]
      /\ upstream' \in [DOMAIN upstream' -> Answers]
  <2>1. upstream' = [id \in DOMAIN upstream \cup {new} |-> IF id = new THEN answer ELSE upstream[id]]
    BY DEF LrAnswer, IdOf
  <2> HIDE DEF new
  <2>2. DOMAIN upstream' = DOMAIN upstream \cup {new}
    BY <2>1
  <2>3. \A id \in DOMAIN upstream' : upstream'[id] \in Answers
    BY <2>1 DEF LrInv, LrTypeOK
  <2>4. upstream' \in [DOMAIN upstream' -> Answers]
    BY <2>1, <2>2, <2>3
  <2> QED
    BY <2>1, <2>2, <2>4
<1>4. new \notin DOMAIN upstream
  BY <1>1, <1>2 DEF LrInv, LrOneAtATime
<1>5. \A id \in DOMAIN upstream : id # new /\ upstream'[id] = upstream[id]
  BY <1>3, <1>4
<1>6. DOMAIN upstream' \subseteq LrIds
  BY <1>2, <1>3 DEF LrInv, LrTypeOK
<1> DEFINE row == [id |-> new, included |-> Included(answer)]
<1>7. row \in LrAttemptRows /\ row.id = new /\ (row.included <=> answer = "usage")
  BY <1>2 DEF LrAttemptRows, Included
<1>8. IF answer = "broken" THEN attempts' = attempts ELSE attempts' = Append(attempts, row)
  BY DEF LrAnswer, IdOf
<1> HIDE DEF row, new
<1>9. attempts' \in Seq(LrAttemptRows)
  BY <1>7, <1>8 DEF LrInv, LrTypeOK
<1>10. \A b, d : LrAnswered(b, d) => LrAnswered(b, d)'
  BY <1>3, <1>5 DEF LrAnswered
<1>11. answer \in {"usage", "broken"} =>
          \E n \in 1 .. MaxAttempts : <<r, c, n>> \in DOMAIN upstream' /\ upstream'[<<r, c, n>>] \in {"usage", "broken"}
  <2>1. new = <<r, c, a>> /\ <<r, c, a>> \in DOMAIN upstream' /\ upstream'[<<r, c, a>>] = answer
    BY <1>3 DEF new
  <2> QED
    BY <1>2, <2>1
<1>12. LrRecordedOnce'
  <2>1. Len(attempts) \in Nat /\ \A i \in 1 .. Len(attempts) : attempts[i].id \in DOMAIN upstream
    BY DEF LrInv, LrTypeOK, LrRecordedOnce
  <2>2. CASE answer = "broken"
    <3>1. attempts' = attempts /\ upstream'[new] = "broken"
      BY <1>3, <1>8, <2>2
    <3> QED
      BY <1>3, <1>5, <2>1, <3>1 DEF LrInv, LrRecordedOnce
  <2>3. CASE answer # "broken"
    <3>1. /\ Len(attempts') = Len(attempts) + 1 /\ attempts'[Len(attempts) + 1] = row
          /\ \A i \in 1 .. Len(attempts) : attempts'[i] = attempts[i]
      BY <1>8, <2>1, <2>3 DEF LrInv, LrTypeOK
    <3>2. \A i \in 1 .. Len(attempts') : i \in 1 .. Len(attempts) \/ i = Len(attempts) + 1
      BY <2>1, <3>1
    <3>3. \A i \in 1 .. Len(attempts) : attempts[i].id # new
      BY <1>5, <2>1
    <3>4. \A i, j \in 1 .. Len(attempts') : attempts'[i].id = attempts'[j].id => i = j
      BY <1>7, <3>1, <3>2, <3>3 DEF LrInv, LrRecordedOnce
    <3>5. \A i \in 1 .. Len(attempts') :
             /\ attempts'[i].id \in DOMAIN upstream' /\ upstream'[attempts'[i].id] # "broken"
             /\ attempts'[i].included <=> upstream'[attempts'[i].id] = "usage"
      <4> SUFFICES ASSUME NEW i \in 1 .. Len(attempts')
                   PROVE  /\ attempts'[i].id \in DOMAIN upstream' /\ upstream'[attempts'[i].id] # "broken"
                          /\ attempts'[i].included <=> upstream'[attempts'[i].id] = "usage"
        OBVIOUS
      <4>1. CASE i \in 1 .. Len(attempts)
        BY <1>3, <1>5, <3>1, <4>1 DEF LrInv, LrRecordedOnce
      <4>2. CASE i = Len(attempts) + 1
        BY <1>3, <1>7, <2>3, <3>1, <4>2
      <4> QED
        BY <3>2, <4>1, <4>2
    <3>6. \A id \in DOMAIN upstream' : upstream'[id] # "broken" => \E i \in 1 .. Len(attempts') : attempts'[i].id = id
      <4> SUFFICES ASSUME NEW id \in DOMAIN upstream', upstream'[id] # "broken"
                   PROVE  \E i \in 1 .. Len(attempts') : attempts'[i].id = id
        OBVIOUS
      <4>1. CASE id = new
        <5>1. Len(attempts) + 1 \in 1 .. Len(attempts') /\ attempts'[Len(attempts) + 1].id = new
          BY <1>7, <2>1, <3>1
        <5> QED
          BY <4>1, <5>1
      <4>2. CASE id \in DOMAIN upstream
        <5>1. PICK i \in 1 .. Len(attempts) : attempts[i].id = id
          BY <1>5, <4>2 DEF LrInv, LrRecordedOnce
        <5>2. i \in 1 .. Len(attempts') /\ attempts'[i].id = id
          BY <2>1, <3>1, <5>1
        <5> QED
          BY <5>2
      <4> QED
        BY <1>3, <4>1, <4>2
    <3> QED
      BY <3>4, <3>5, <3>6 DEF LrRecordedOnce
  <2> QED
    BY <2>2, <2>3
<1>13. runner.phase \notin {"sets_up", "reads", "ends", "saved", "over"} /\ runner.status # "passed" /\ runner.totals = NoTotals
       /\ \A g \in Handlers : g # h => ~LrBusy(g) /\ handlers[g].at # "sends"
  BY <1>1 DEF LrInv, LrOneAtATime, LrRunnerKnows, LrBusy, Idle
<1>14. LrRunnerKnows'
  BY <1>1, <1>13 DEF LrInv, LrRunnerKnows
<1>15. \A id \in DOMAIN upstream' : id[1] <= r /\ (id[1] = r => id[2] <= recorder.calls)
  BY <1>2, <1>3 DEF LrInv, LrLatched
\* Three ways on: the call is over, it is asked again, it is given up.
<1>16. \E row2 \in LrHandlerRows, latched \in BOOLEAN :
          /\ handlers' = [handlers EXCEPT ![h] = row2]
          /\ recorder' = [recorder EXCEPT !.failure = latched]
          /\ recorder.failure => latched
          /\ \/ row2.at \in {"idle", "replies"} /\ (answer \in {"usage", "broken"} \/ latched)
             \/ row2.at = "sends" /\ row2.call = c /\ row2.attempt = a + 1 /\ a + 1 \in 1 .. MaxAttempts
  <2>1. recorder \in [calls : Nat, failure : BOOLEAN] /\ handlers[h] \in LrHandlerRows /\ handlers \in [Handlers -> LrHandlerRows]
    BY DEF LrInv, LrTypeOK
  <2>2. recorder' = recorder => recorder' = [recorder EXCEPT !.failure = recorder.failure] /\ recorder.failure \in BOOLEAN
    BY <2>1
  <2>3. CASE answer = "broken"
    <3>1. handlers' = [handlers EXCEPT ![h] = Idle] /\ recorder' = recorder
      BY <2>3 DEF LrAnswer, Included, Retried
    <3>2. Idle \in LrHandlerRows /\ Idle.at = "idle"
      BY DEF Idle, LrHandlerRows
    <3> QED
      BY <2>2, <2>3, <3>1, <3>2
  <2> DEFINE done == [handlers[h] EXCEPT !.at = "replies"]
             again == [handlers[h] EXCEPT !.attempt = a + 1]
  <2>4. done \in LrHandlerRows /\ done.at = "replies"
    BY <2>1 DEF LrHandlerRows
  <2>5. CASE answer = "usage"
    <3>1. handlers' = [handlers EXCEPT ![h].at = "replies"] /\ recorder' = recorder
      BY <2>5 DEF LrAnswer, Included, Retried
    <3>2. handlers' = [handlers EXCEPT ![h] = done]
      BY <2>1, <3>1
    <3> HIDE DEF done
    <3> QED
      BY <2>2, <2>4, <2>5, <3>1, <3>2
  <2>6. CASE answer = "limited" /\ a < MaxAttempts
    <3>1. handlers' = [handlers EXCEPT ![h].attempt = a + 1] /\ recorder' = recorder
      BY <2>6 DEF LrAnswer, Included, Retried
    <3>2. handlers' = [handlers EXCEPT ![h] = again]
      BY <2>1, <3>1
    <3>3. again \in LrHandlerRows /\ again.at = "sends" /\ again.call = c /\ again.attempt = a + 1
      BY <1>1, <1>2, <2>1 DEF LrHandlerRows
    <3>4. a + 1 \in 1 .. MaxAttempts
      BY <1>2, <2>6, LrAssumption
    <3> HIDE DEF again
    <3> QED
      BY <2>2, <3>1, <3>2, <3>3, <3>4
  <2>7. CASE answer \notin {"broken", "usage"} /\ ~(answer = "limited" /\ a < MaxAttempts)
    <3>1. GivesUp(h)
      BY <2>7 DEF LrAnswer, Included, Retried
    <3>2. recorder' = [recorder EXCEPT !.failure = TRUE] /\ handlers' = [handlers EXCEPT ![h] = done]
      BY <2>1, <3>1 DEF GivesUp
    <3> HIDE DEF done
    <3> QED
      BY <2>4, <3>2
  <2> QED
    BY <2>3, <2>5, <2>6, <2>7 DEF Answers
<1>17. PICK row2 \in LrHandlerRows, latched \in BOOLEAN :
          /\ handlers' = [handlers EXCEPT ![h] = row2]
          /\ recorder' = [recorder EXCEPT !.failure = latched]
          /\ recorder.failure => latched
          /\ \/ row2.at \in {"idle", "replies"} /\ (answer \in {"usage", "broken"} \/ latched)
             \/ row2.at = "sends" /\ row2.call = c /\ row2.attempt = a + 1 /\ a + 1 \in 1 .. MaxAttempts
  BY <1>16
<1>18. /\ handlers'[h] = row2 /\ (\A g \in Handlers : g # h => handlers'[g] = handlers[g])
       /\ handlers' \in [Handlers -> LrHandlerRows]
       /\ recorder'.calls = recorder.calls /\ recorder'.failure = latched /\ recorder' \in [calls : Nat, failure : BOOLEAN]
  BY <1>17 DEF LrInv, LrTypeOK
<1>19. LrTypeOK'
  BY <1>1, <1>3, <1>6, <1>9, <1>18 DEF LrInv, LrTypeOK
<1>20. LrOneAtATime'
  <2>1. \A g \in Handlers : LrBusy(g)' => g = h
    BY <1>13, <1>18 DEF LrBusy
  <2>2. \A g \in Handlers : handlers'[g].at = "sends" => g = h
    BY <1>13, <1>18
  <2>3. handlers'[h].at = "sends" =>
           /\ handlers'[h].call = recorder'.calls /\ handlers'[h].attempt \in 1 .. MaxAttempts
           /\ \A id \in DOMAIN upstream' :
                 id[1] = runner'.repetition /\ id[2] = recorder'.calls => id[3] < handlers'[h].attempt
    <3> SUFFICES ASSUME handlers'[h].at = "sends"
                 PROVE  /\ handlers'[h].call = recorder'.calls /\ handlers'[h].attempt \in 1 .. MaxAttempts
                        /\ \A id \in DOMAIN upstream' :
                              id[1] = runner'.repetition /\ id[2] = recorder'.calls => id[3] < handlers'[h].attempt
      OBVIOUS
    <3>1. handlers'[h].call = c /\ handlers'[h].attempt = a + 1 /\ a + 1 \in 1 .. MaxAttempts
      BY <1>17, <1>18
    <3>2. \A id \in DOMAIN upstream : id[1] = r /\ id[2] = recorder.calls => id[3] < a
      BY <1>1 DEF LrInv, LrOneAtATime
    <3>3. \A id \in DOMAIN upstream : id[3] \in Nat
      BY DEF LrInv, LrTypeOK, LrIds
    <3>4. \A id \in DOMAIN upstream' : id[1] = r /\ id[2] = recorder.calls => id[3] < a + 1
      BY <1>2, <1>3, <3>2, <3>3
    <3> QED
      BY <1>1, <1>2, <1>18, <3>1, <3>4
  <2> QED
    BY <1>1, <1>13, <2>1, <2>2, <2>3 DEF LrOneAtATime
<1>21. LrLatched'
  <2>1. \A id \in DOMAIN upstream' :
           \/ LrAnswered(id[1], id[2])'
           \/ id[1] = r /\ id[2] = recorder.calls /\ (latched \/ row2.at = "sends")
    <3> SUFFICES ASSUME NEW id \in DOMAIN upstream', ~(latched \/ row2.at = "sends") \/ ~(id[1] = r /\ id[2] = recorder.calls)
                 PROVE  LrAnswered(id[1], id[2])'
      OBVIOUS
    <3>1. CASE id[1] = r /\ id[2] = recorder.calls
      <4>1. answer \in {"usage", "broken"}
        BY <1>17, <3>1
      <4>2. PICK k \in Nat : k = c
        BY <1>2
      <4>3. LrAnswered(id[1], k)'
        BY <1>11, <3>1, <4>1, <4>2 DEF LrAnswered
      <4> QED
        BY <1>2, <3>1, <4>2, <4>3
    <3>2. CASE ~(id[1] = r /\ id[2] = recorder.calls)
      <4>1. id \in DOMAIN upstream
        BY <1>2, <1>3, <3>2
      <4>2. LrAnswered(id[1], id[2])
        BY <3>2, <4>1 DEF LrInv, LrLatched
      <4> QED
        BY <1>10, <4>2
    <3> QED
      BY <3>1, <3>2
  <2>2. row2.at = "sends" => \E g \in Handlers : handlers'[g].at = "sends"
    BY <1>18
  <2> QED
    BY <1>1, <1>15, <1>18, <2>1, <2>2 DEF LrLatched
<1> QED
  BY <1>12, <1>14, <1>19, <1>20, <1>21 DEF LrInv

-----------------------------------------------------------------------------
\* Steps of the runner that leave the proxy and its records alone.
LEMMA LrRunnerOnly ==
    ASSUME LrInv, UNCHANGED <<recorder, handlers, upstream, attempts>>,
           runner' \in LrRunnerRows, runner'.repetition = runner.repetition,
           runner'.phase \in {"sets_up", "reads", "ends", "saved", "over"} => \A h \in Handlers : handlers[h] = Idle,
           LrRunnerKnows'
    PROVE  LrInv'
<1>1. LrTypeOK' /\ LrRecordedOnce'
  BY DEF LrInv, LrTypeOK, LrRecordedOnce
<1>2. LrOneAtATime'
  BY DEF LrInv, LrOneAtATime, LrBusy
<1>3. LrLatched'
  BY DEF LrInv, LrLatched, LrAnswered
<1> QED
  BY <1>1, <1>2, <1>3 DEF LrInv

\* A repetition begins with a recorder of its own, and none of its answers.
LEMMA LrNewRepetition ==
    ASSUME LrInv, UNCHANGED <<handlers, upstream, attempts>>, \A h \in Handlers : handlers[h] = Idle,
           runner' \in LrRunnerRows, runner'.repetition = runner.repetition + 1,
           recorder' \in [calls : Nat, failure : BOOLEAN],
           \A id \in DOMAIN upstream : LrAnswered(id[1], id[2]), LrRunnerKnows'
    PROVE  LrInv'
<1>1. LrTypeOK' /\ LrRecordedOnce'
  BY DEF LrInv, LrTypeOK, LrRecordedOnce
<1>2. \A h \in Handlers : handlers[h].at = "idle"
  BY DEF Idle
<1>3. LrOneAtATime'
  BY <1>2 DEF LrInv, LrOneAtATime, LrBusy
<1>4. \A id \in DOMAIN upstream : id[1] \in Nat /\ id[1] <= runner.repetition
  BY DEF LrInv, LrTypeOK, LrIds, LrLatched
<1>5. runner.repetition \in Nat
  BY DEF LrInv, LrTypeOK, LrRunnerRows
<1>6. \A id \in DOMAIN upstream : id[1] <= runner'.repetition /\ id[1] # runner'.repetition
  BY <1>4, <1>5
<1>7. LrLatched'
  BY <1>6 DEF LrLatched, LrAnswered
<1> QED
  BY <1>1, <1>3, <1>7 DEF LrInv

LEMMA LrSetUpKeeps ==
    ASSUME LrInv, NEW ready \in BOOLEAN, LrSetUp(ready)
    PROVE  LrInv'
<1>1. runner.phase = "sets_up" /\ UNCHANGED <<recorder, handlers, upstream, attempts>>
      /\ (\A h \in Handlers : handlers[h] = Idle) /\ runner \in LrRunnerRows
      /\ runner.repetition = 0 /\ runner.trials = <<>> /\ runner.exit = -1 /\ runner.status = "running" /\ runner.totals = NoTotals
  BY DEF LrSetUp, LrInv, LrOneAtATime, LrRunnerKnows, LrTypeOK
<1>2. CASE ready
  <2> DEFINE first == 1
  <2>1. first \in Nat /\ first = 1
    OBVIOUS
  <2>2. runner' = [runner EXCEPT !.phase = "repetition", !.repetition = first]
    BY <1>2 DEF LrSetUp, Repeats
  <2> HIDE DEF first
  <2>3. runner' \in LrRunnerRows /\ runner'.repetition = first /\ runner'.phase = "repetition" /\ runner'.trials = runner.trials
        /\ runner'.exit = runner.exit /\ runner'.status = runner.status /\ runner'.totals = runner.totals
    BY <1>1, <2>1, <2>2 DEF LrRunnerRows, LrPhases
  <2>4. Len(runner'.trials) = runner'.repetition - 1 /\ runner'.repetition \in 1 .. Repetitions
        /\ runner'.repetition = runner.repetition + 1
    BY <1>1, <2>1, <2>3, LrAssumption
  <2>5. LrRunnerKnows'
    BY <1>1, <2>3, <2>4 DEF LrRunnerKnows
  <2>6. \A id \in DOMAIN upstream : LrAnswered(id[1], id[2])
    BY <1>1 DEF LrInv, LrRunnerKnows
  <2> QED
    BY <1>1, <2>3, <2>4, <2>5, <2>6, LrNewRepetition DEF LrInv, LrTypeOK
<1>3. CASE ~ready
  <2>1. runner' = [runner EXCEPT !.phase = "ends", !.status = "error"]
    BY <1>3 DEF LrSetUp, EndsAs
  <2>2. runner' \in LrRunnerRows /\ runner'.phase = "ends" /\ runner'.status = "error" /\ runner'.exit = -1
        /\ runner'.totals = NoTotals /\ runner'.repetition = runner.repetition
    BY <1>1, <2>1 DEF LrRunnerRows, LrPhases
  <2>3. LrRunnerKnows'
    BY <2>2 DEF LrRunnerKnows
  <2> QED
    BY <1>1, <2>2, <2>3, LrRunnerOnly
<1> QED
  BY <1>2, <1>3

LEMMA LrHarborEndsKeeps ==
    ASSUME LrInv, NEW raises \in BOOLEAN, LrHarborEnds(raises)
    PROVE  LrInv'
<1>1. runner.phase = "repetition" /\ runner \in LrRunnerRows /\ UNCHANGED <<recorder, handlers, upstream, attempts>>
      /\ runner' = [runner EXCEPT !.phase = "closes", !.raised = raises]
  BY DEF LrHarborEnds, LrInv, LrTypeOK
<1>2. runner' \in LrRunnerRows /\ runner'.phase = "closes" /\ runner'.repetition = runner.repetition /\ runner'.trials = runner.trials
      /\ runner'.exit = runner.exit /\ runner'.status = runner.status /\ runner'.totals = runner.totals
  BY <1>1 DEF LrRunnerRows, LrPhases
<1>3. LrRunnerKnows'
  BY <1>1, <1>2 DEF LrInv, LrRunnerKnows
<1> QED
  BY <1>1, <1>2, <1>3, LrRunnerOnly

LEMMA LrCloseKeeps ==
    ASSUME LrInv, LrClose
    PROVE  LrInv'
<1>1. runner.phase = "closes" /\ runner \in LrRunnerRows /\ UNCHANGED <<recorder, handlers, upstream, attempts>>
      /\ \A h \in Handlers : handlers[h] = Idle
  BY DEF LrClose, ThreadsDone, LrInv, LrTypeOK
<1>2. runner' \in {[runner EXCEPT !.phase = "ends", !.status = "error"], [runner EXCEPT !.phase = "reads"]}
  BY DEF LrClose, EndsAs
<1>3. runner' \in LrRunnerRows /\ runner'.repetition = runner.repetition /\ runner'.trials = runner.trials
      /\ runner'.exit = runner.exit /\ runner'.totals = runner.totals
      /\ \/ runner'.phase = "ends" /\ runner'.status = "error"
         \/ runner'.phase = "reads" /\ runner'.status = runner.status
  BY <1>1, <1>2 DEF LrRunnerRows, LrPhases
<1>4. LrRunnerKnows'
  BY <1>1, <1>3 DEF LrInv, LrRunnerKnows
<1> QED
  BY <1>1, <1>3, <1>4, LrRunnerOnly

\* With no thread at work and no failure latched, every call has its answer.
LEMMA LrAllAnswered ==
    ASSUME LrInv, \A h \in Handlers : handlers[h] = Idle, ~recorder.failure
    PROVE  \A id \in DOMAIN upstream : LrAnswered(id[1], id[2])
<1>1. \A h \in Handlers : handlers[h].at # "sends"
  BY DEF Idle
<1> QED
  BY <1>1 DEF LrInv, LrLatched

LEMMA LrReadResultKeeps ==
    ASSUME LrInv, NEW found \in {"result", "unverified", "missing"}, NEW reward \in Rewards, NEW exception \in BOOLEAN,
           LrReadResult(found, reward, exception)
    PROVE  LrInv'
<1> DEFINE trials == Append(runner.trials, reward)
           code == 1
           next == runner.repetition + 1
<1>1. runner.phase = "reads" /\ runner \in LrRunnerRows /\ UNCHANGED <<handlers, upstream, attempts>>
      /\ (\A h \in Handlers : handlers[h] = Idle)
      /\ runner.repetition \in 1 .. Repetitions /\ Len(runner.trials) = runner.repetition - 1
      /\ runner.exit = -1 /\ runner.status = "running" /\ runner.totals = NoTotals
  BY DEF LrReadResult, LrInv, LrTypeOK, LrOneAtATime, LrRunnerKnows
<1>2. runner.trials \in Seq(Rewards) /\ runner.repetition \in Nat /\ Repetitions \in Nat
  BY <1>1, LrAssumption DEF LrRunnerRows
<1>3. trials \in Seq(Rewards) /\ Len(trials) = runner.repetition
  BY <1>1, <1>2
<1>4. code \in {-1, 0, 1, 2, 3} /\ code = 1 /\ next \in Nat /\ next = runner.repetition + 1
  BY <1>2
<1>5. \/ runner' = [runner EXCEPT !.phase = "ends", !.status = "error"] /\ recorder' = recorder
      \/ runner' = [runner EXCEPT !.phase = "ends", !.status = "running", !.exit = code] /\ recorder' = recorder
      \/ runner' = [runner EXCEPT !.trials = trials, !.phase = "ends", !.status = "error"] /\ recorder' = recorder
      \/ /\ runner' = [runner EXCEPT !.trials = trials, !.phase = "repetition", !.repetition = next]
         /\ runner.repetition < Repetitions /\ ~recorder.failure /\ recorder' = [calls |-> 0, failure |-> FALSE]
      \/ /\ runner' = [runner EXCEPT !.trials = trials, !.phase = "ends", !.status = "failed"] /\ recorder' = recorder
      \/ /\ runner' = [runner EXCEPT !.trials = trials, !.phase = "ends", !.status = "passed"] /\ recorder' = recorder
         /\ WithinBounds(trials) /\ ~(runner.repetition < Repetitions) /\ ~recorder.failure
  <2>1. CASE found = "missing"
    <3>1. runner' = [runner EXCEPT !.phase = "ends", !.status = "error"]
      BY <2>1 DEF LrReadResult, EndsAs
    <3>2. runner'.phase = "ends"
      BY <1>1, <3>1 DEF LrRunnerRows
    <3>3. recorder' = recorder
      BY <3>2 DEF LrReadResult
    <3> QED
      BY <3>1, <3>3
  <2>2. CASE found = "unverified"
    <3>1. runner' = [runner EXCEPT !.phase = "ends", !.status = "running", !.exit = code]
      BY <2>2 DEF LrReadResult, EndsAs
    <3>2. runner'.phase = "ends"
      BY <1>1, <3>1 DEF LrRunnerRows
    <3>3. recorder' = recorder
      BY <3>2 DEF LrReadResult
    <3> QED
      BY <3>1, <3>3
  <2>3. CASE found = "result" /\ (recorder.failure \/ exception)
    <3>1. runner' = [runner EXCEPT !.trials = trials, !.phase = "ends", !.status = "error"]
      BY <2>3 DEF LrReadResult
    <3> HIDE DEF trials
    <3>2. runner'.phase = "ends"
      BY <1>1, <3>1 DEF LrRunnerRows
    <3>3. recorder' = recorder
      BY <3>2 DEF LrReadResult
    <3> QED
      BY <3>1, <3>3
  <2>4. CASE found = "result" /\ ~(recorder.failure \/ exception) /\ runner.repetition < Repetitions
    <3>1. runner' = [runner EXCEPT !.trials = trials, !.phase = "repetition", !.repetition = next]
      BY <2>4 DEF LrReadResult
    <3> HIDE DEF trials, next
    <3>2. runner'.phase = "repetition"
      BY <1>1, <3>1 DEF LrRunnerRows
    <3>3. recorder' = [calls |-> 0, failure |-> FALSE]
      BY <3>2 DEF LrReadResult
    <3> QED
      BY <2>4, <3>1, <3>3
  <2>5. CASE found = "result" /\ ~(recorder.failure \/ exception) /\ ~(runner.repetition < Repetitions)
    <3>1. \/ runner' = [runner EXCEPT !.trials = trials, !.phase = "ends", !.status = "failed"]
          \/ runner' = [runner EXCEPT !.trials = trials, !.phase = "ends", !.status = "passed"] /\ WithinBounds(trials)
      BY <2>5 DEF LrReadResult
    <3> HIDE DEF trials
    <3>2. runner'.phase = "ends"
      BY <1>1, <3>1 DEF LrRunnerRows
    <3>3. recorder' = recorder
      BY <3>2 DEF LrReadResult
    <3> QED
      BY <2>5, <3>1, <3>3
  <2> QED
    BY <2>1, <2>2, <2>3, <2>4, <2>5
<1> HIDE DEF trials, code, next
<1>6. CASE /\ runner' = [runner EXCEPT !.trials = trials, !.phase = "repetition", !.repetition = next]
           /\ runner.repetition < Repetitions /\ ~recorder.failure /\ recorder' = [calls |-> 0, failure |-> FALSE]
  <2>1. runner' \in LrRunnerRows /\ runner'.phase = "repetition" /\ runner'.repetition = next /\ runner'.trials = trials
        /\ runner'.exit = -1 /\ runner'.status = "running" /\ runner'.totals = NoTotals
    BY <1>1, <1>3, <1>4, <1>6 DEF LrRunnerRows, LrPhases
  <2>2. runner'.repetition \in 1 .. Repetitions /\ Len(runner'.trials) = runner'.repetition - 1
    BY <1>1, <1>2, <1>3, <1>4, <1>6, <2>1
  <2>3. LrRunnerKnows'
    BY <2>1, <2>2 DEF LrRunnerKnows
  <2>4. recorder' \in [calls : Nat, failure : BOOLEAN]
    <3> DEFINE zero == 0
    <3>1. recorder' = [calls |-> zero, failure |-> FALSE] /\ zero \in Nat
      BY <1>6
    <3> HIDE DEF zero
    <3> QED
      BY <3>1
  <2> QED
    BY <1>1, <1>4, <1>6, <2>1, <2>3, <2>4, LrAllAnswered, LrNewRepetition
<1>7. CASE /\ runner' = [runner EXCEPT !.trials = trials, !.phase = "ends", !.status = "passed"] /\ recorder' = recorder
           /\ WithinBounds(trials) /\ ~(runner.repetition < Repetitions) /\ ~recorder.failure
  <2>1. runner' \in LrRunnerRows /\ runner'.phase = "ends" /\ runner'.repetition = runner.repetition /\ runner'.trials = trials
        /\ runner'.exit = -1 /\ runner'.status = "passed" /\ runner'.totals = NoTotals
    BY <1>1, <1>3, <1>7 DEF LrRunnerRows, LrPhases
  <2>2. LrAllClean'
    <3>1. Len(runner'.trials) = Repetitions
      BY <1>1, <1>2, <1>3, <1>7, <2>1
    <3>3. \A id \in DOMAIN upstream : LrAnswered(id[1], id[2])
      BY <1>1, <1>7, LrAllAnswered
    <3>4. WithinBounds(runner'.trials)
      BY <1>7, <2>1
    <3> QED
      BY <1>1, <3>1, <3>3, <3>4 DEF LrAllClean, LrAnswered, WithinBounds
  <2>3. LrRunnerKnows'
    BY <2>1, <2>2 DEF LrRunnerKnows
  <2> QED
    BY <1>1, <1>7, <2>1, <2>3, LrRunnerOnly
<1>8. CASE /\ recorder' = recorder
           /\ \/ runner' = [runner EXCEPT !.phase = "ends", !.status = "error"]
              \/ runner' = [runner EXCEPT !.phase = "ends", !.status = "running", !.exit = code]
              \/ runner' = [runner EXCEPT !.trials = trials, !.phase = "ends", !.status = "error"]
              \/ runner' = [runner EXCEPT !.trials = trials, !.phase = "ends", !.status = "failed"]
  <2>1. runner' \in LrRunnerRows /\ runner'.phase = "ends" /\ runner'.repetition = runner.repetition
        /\ runner'.totals = NoTotals
        /\ \/ runner'.exit = -1 /\ runner'.status \in {"error", "failed"}
           \/ runner'.exit = 1 /\ runner'.status = "running"
    BY <1>1, <1>3, <1>4, <1>8 DEF LrRunnerRows, LrPhases
  <2>2. LrRunnerKnows'
    BY <2>1 DEF LrRunnerKnows
  <2> QED
    BY <1>1, <1>8, <2>1, <2>2, LrRunnerOnly
<1> QED
  BY <1>5, <1>6, <1>7, <1>8

LEMMA LrFinishKeeps ==
    ASSUME LrInv, NEW removed \in BOOLEAN, NEW intact \in BOOLEAN, LrFinish(removed, intact)
    PROVE  LrInv'
<1> DEFINE counts == intact /\ CountedOnce
           phase == IF runner.exit = 1 THEN "over" ELSE "saved"
           status == IF removed /\ counts THEN runner.status ELSE "error"
           totals == IF counts THEN TotalsOf(attempts) ELSE NoTotals
<1>1. runner.phase = "ends" /\ runner \in LrRunnerRows /\ UNCHANGED <<recorder, handlers, upstream, attempts>>
      /\ \A h \in Handlers : handlers[h] = Idle
  BY DEF LrFinish, LrInv, LrTypeOK, LrOneAtATime
<1>2. runner' = [runner EXCEPT !.phase = phase, !.status = status, !.totals = totals]
  BY <1>1 DEF LrFinish
<1>3. status \in {runner.status, "error"} /\ totals \in {TotalsOf(attempts), NoTotals} /\ phase \in {"over", "saved"}
      /\ (phase = "saved" => runner.exit # 1)
  OBVIOUS
<1>4. totals \in LrTotals
  BY <1>3, LrTotalsTell DEF LrInv, LrTotals
<1> HIDE DEF counts, phase, status, totals
<1>5. runner' \in LrRunnerRows /\ runner'.phase = phase /\ runner'.status = status /\ runner'.totals = totals
      /\ runner'.repetition = runner.repetition /\ runner'.exit = runner.exit /\ runner'.trials = runner.trials
  BY <1>1, <1>2, <1>3, <1>4 DEF LrRunnerRows, LrPhases
<1>6. LrRunnerKnows'
  <2>1. runner.exit = 1 \/ (runner.exit = -1 /\ runner.status # "running")
    BY <1>1 DEF LrInv, LrRunnerKnows
  <2>2. runner.status = "passed" => LrAllClean
    BY DEF LrInv, LrRunnerKnows
  <2>3. LrAllClean => LrAllClean'
    BY <1>1, <1>5 DEF LrAllClean, LrAnswered, WithinBounds
  <2>4. TotalsOf(attempts)' = TotalsOf(attempts) /\ NoTotals' = NoTotals
    BY <1>1 DEF TotalsOf, NoTotals
  <2>5. runner'.phase \in {"over", "saved"} /\ runner'.exit # 0
    BY <1>3, <1>5, <2>1
  <2>6. runner'.status = "passed" => LrAllClean'
    BY <1>3, <1>5, <2>2, <2>3
  <2>7. runner'.totals # NoTotals => runner'.totals = TotalsOf(attempts)'
    BY <1>3, <1>5, <2>4
  <2>8. runner'.phase = "saved" => runner'.exit = -1 /\ runner'.status # "running"
    BY <1>3, <1>5, <2>1
  <2> QED
    BY <2>4, <2>5, <2>6, <2>7, <2>8 DEF LrRunnerKnows
<1> QED
  BY <1>1, <1>5, <1>6, LrRunnerOnly

LEMMA LrVerifyKeeps ==
    ASSUME LrInv, NEW intact \in BOOLEAN, LrVerify(intact)
    PROVE  LrInv'
<1> DEFINE sound == intact /\ runner.totals = TotalsOf(attempts)
           two == 2
           code == IF sound THEN ExitCodeOf(runner.status) ELSE two
<1>1. runner.phase = "saved" /\ runner \in LrRunnerRows /\ UNCHANGED <<recorder, handlers, upstream, attempts>>
      /\ (\A h \in Handlers : handlers[h] = Idle) /\ runner.status \in {"passed", "failed", "error"}
  BY DEF LrVerify, LrInv, LrTypeOK, LrOneAtATime, LrRunnerKnows, LrRunnerRows
<1>2. runner' = [runner EXCEPT !.phase = "over", !.exit = code]
  BY DEF LrVerify
<1>3. code \in {-1, 0, 1, 2, 3} /\ (code = 0 => runner.status = "passed")
  BY <1>1 DEF ExitCodeOf
<1> HIDE DEF code
<1>4. runner' \in LrRunnerRows /\ runner'.phase = "over" /\ runner'.exit = code /\ runner'.status = runner.status
      /\ runner'.repetition = runner.repetition /\ runner'.totals = runner.totals /\ runner'.trials = runner.trials
  BY <1>1, <1>2, <1>3 DEF LrRunnerRows, LrPhases
<1>5. LrRunnerKnows'
  <2>1. LrAllClean => LrAllClean'
    BY <1>1, <1>4 DEF LrAllClean, LrAnswered, WithinBounds
  <2>2. TotalsOf(attempts)' = TotalsOf(attempts) /\ NoTotals' = NoTotals
    BY <1>1 DEF TotalsOf, NoTotals
  <2>3. (runner.status = "passed" => LrAllClean) /\ (runner.totals # NoTotals => runner.totals = TotalsOf(attempts))
    BY DEF LrInv, LrRunnerKnows
  <2> QED
    BY <1>3, <1>4, <2>1, <2>2, <2>3 DEF LrRunnerKnows
<1> QED
  BY <1>1, <1>4, <1>5, LrRunnerOnly

-----------------------------------------------------------------------------
\* What the summary of a local run says is what its server and verifier did:
\* its totals hold every answer of the server once, no call follows one that was
\* given up, and exit code 0 means that every repetition was within the bounds.
THEOREM LrSummaryAlwaysTrue == LrSpec => []LrSummaryIsTrue
<1>1. LrInit => LrInv
  BY LrInitHolds
<1>2. LrInv /\ [LrNext]_lrVars => LrInv'
  <2> SUFFICES ASSUME LrInv, [LrNext]_lrVars PROVE LrInv'
    OBVIOUS
  <2>1. ASSUME NEW h \in Handlers, LrRequest(h) PROVE LrInv'
    BY <2>1, LrRequestKeeps
  <2>2. ASSUME NEW h \in Handlers, NEW asLedger \in BOOLEAN, LrForward(h, asLedger) PROVE LrInv'
    BY <2>2, LrForwardKeeps
  <2>3. ASSUME NEW h \in Handlers, NEW answer \in Answers, LrAnswer(h, answer) PROVE LrInv'
    BY <2>3, LrAnswerKeeps
  <2>4. ASSUME NEW h \in Handlers, NEW away \in BOOLEAN, LrReply(h, away) PROVE LrInv'
    BY <2>4, LrReplyKeeps
  <2>5. CASE LrClose
    BY <2>5, LrCloseKeeps
  <2>6. ASSUME NEW yes \in BOOLEAN, LrStray(yes) PROVE LrInv'
    BY <2>6, LrStrayKeeps
  <2>7. ASSUME NEW yes \in BOOLEAN, LrSetUp(yes) PROVE LrInv'
    BY <2>7, LrSetUpKeeps
  <2>8. ASSUME NEW yes \in BOOLEAN, LrHarborEnds(yes) PROVE LrInv'
    BY <2>8, LrHarborEndsKeeps
  <2>9. ASSUME NEW yes \in BOOLEAN, LrVerify(yes) PROVE LrInv'
    BY <2>9, LrVerifyKeeps
  <2>10. ASSUME NEW found \in {"result", "unverified", "missing"}, NEW reward \in Rewards, NEW exception \in BOOLEAN,
               LrReadResult(found, reward, exception)
         PROVE LrInv'
    BY <2>10, LrReadResultKeeps
  <2>11. ASSUME NEW removed \in BOOLEAN, NEW intact \in BOOLEAN, LrFinish(removed, intact) PROVE LrInv'
    BY <2>11, LrFinishKeeps
  <2>12. CASE UNCHANGED lrVars
    BY <2>12 DEF lrVars, LrInv, LrTypeOK, LrOneAtATime, LrBusy, LrLatched, LrAnswered, LrRecordedOnce, LrRunnerKnows,
                 LrAllClean, WithinBounds, TotalsOf
  <2> QED
    BY <2>1, <2>2, <2>3, <2>4, <2>5, <2>6, <2>7, <2>8, <2>9, <2>10, <2>11, <2>12 DEF LrNext
<1>3. LrInv => LrSummaryIsTrue
  BY LrInvTrue
<1> QED
  BY <1>1, <1>2, <1>3, PTL DEF LrSpec

(***************************************************************************)
(* StaticRun.                                                              *)
(***************************************************************************)

\* What FlattenSeq joins, piece by piece.
PrJoins(f, pieces, n) == f = [i \in 1 .. n |-> IF i = 1 THEN pieces[i] ELSE f[i - 1] \o pieces[i]]

LEMMA PrJoinsExists ==
    ASSUME NEW pieces, NEW m \in Nat
    PROVE  \E f : PrJoins(f, pieces, m)
<1> DEFINE Bad == {n \in 0 .. m : ~ \E f : PrJoins(f, pieces, n)}
<1>1. SUFFICES ASSUME Bad # {} PROVE FALSE
  OBVIOUS
<1> DEFINE n == Min(Bad)
<1>2. n \in Bad /\ \A x \in Bad : n <= x
  <2>1. Bad \subseteq Nat /\ Bad # {}
    BY <1>1
  <2> QED
    BY <2>1, LeastOf
<1> HIDE DEF n
<1>3. n \in 0 .. m /\ n \in Nat /\ ~ \E f : PrJoins(f, pieces, n)
  BY <1>2
<1>4. CASE n = 0
  <2>1. PrJoins([i \in 1 .. 0 |-> <<>>], pieces, 0)
    BY DEF PrJoins
  <2> QED
    BY <1>3, <1>4, <2>1
<1>5. CASE n # 0
  <2>1. n - 1 \in 0 .. m /\ n - 1 \notin Bad
    BY <1>2, <1>3, <1>5
  <2>2. PICK f : PrJoins(f, pieces, n - 1)
    BY <2>1
  <2> DEFINE g == [i \in 1 .. n |-> IF i = n THEN IF i = 1 THEN pieces[i] ELSE f[i - 1] \o pieces[i] ELSE f[i]]
  <2>3. \A i \in 1 .. n : g[i] = IF i = 1 THEN pieces[i] ELSE g[i - 1] \o pieces[i]
    <3> TAKE i \in 1 .. n
    <3>1. CASE i = n
      <4>1. i # 1 => g[i - 1] = f[i - 1]
        BY <1>3, <3>1
      <4> QED
        BY <3>1, <4>1, <1>3, <1>5
    <3>2. CASE i # n
      <4>1. i \in 1 .. n - 1 /\ (i # 1 => i - 1 \in 1 .. n /\ i - 1 # n)
        BY <3>2, <1>3
      <4>2. f[i] = IF i = 1 THEN pieces[i] ELSE f[i - 1] \o pieces[i]
        BY <4>1, <2>2 DEF PrJoins
      <4>3. g[i] = f[i] /\ (i # 1 => g[i - 1] = f[i - 1])
        BY <4>1, <3>2
      <4> QED
        BY <4>2, <4>3
    <3> QED
      BY <3>1, <3>2
  <2>4. g = [i \in 1 .. n |-> g[i]]
    OBVIOUS
  <2> HIDE DEF g
  <2>5. PrJoins(g, pieces, n)
    BY <2>3, <2>4 DEF PrJoins
  <2> QED
    BY <2>5, <1>3
<1> QED
  BY <1>4, <1>5

LEMMA PrFlattens ==
    ASSUME NEW pieces, Len(pieces) \in Nat, Len(pieces) # 0
    PROVE  \E f : PrJoins(f, pieces, Len(pieces)) /\ FlattenSeq(pieces) = f[Len(pieces)]
<1> DEFINE c == CHOOSE f : f = [i \in 1 .. Len(pieces) |-> IF i = 1 THEN pieces[i] ELSE f[i - 1] \o pieces[i]]
<1>1. PrJoins(c, pieces, Len(pieces))
  BY PrJoinsExists DEF PrJoins
<1>2. FlattenSeq(pieces) = c[Len(pieces)]
  BY DEF FlattenSeq
<1> QED
  BY <1>1, <1>2

\* Joining adds one piece at a time, of the type of the pieces.
LEMMA PrJoinsSteps ==
    ASSUME NEW f, NEW pieces \in Seq(Seq(Nat)), PrJoins(f, pieces, Len(pieces)), Len(pieces) # 0
    PROVE  /\ f[1] = pieces[1]
           /\ \A i \in 2 .. Len(pieces) : f[i] = f[i - 1] \o pieces[i]
           /\ \A i \in 1 .. Len(pieces) : f[i] \in Seq(Nat)
<1>1. Len(pieces) \in Nat /\ \A i \in 1 .. Len(pieces) : pieces[i] \in Seq(Nat)
  OBVIOUS
<1>2. \A i \in 1 .. Len(pieces) : f[i] = IF i = 1 THEN pieces[i] ELSE f[i - 1] \o pieces[i]
  BY DEF PrJoins
<1>3. f[1] = pieces[1] /\ \A i \in 2 .. Len(pieces) : f[i] = f[i - 1] \o pieces[i]
  <2>1. 1 \in 1 .. Len(pieces) /\ \A i \in 2 .. Len(pieces) : i \in 1 .. Len(pieces) /\ i # 1
    BY <1>1
  <2> QED
    BY <1>2, <2>1
<1> DEFINE Bad == {i \in 1 .. Len(pieces) : f[i] \notin Seq(Nat)}
<1>4. ASSUME Bad # {} PROVE FALSE
  <2> DEFINE n == Min(Bad)
  <2>1. n \in Bad /\ \A x \in Bad : n <= x
    <3>1. Bad \subseteq Nat
      OBVIOUS
    <3> QED
      BY <3>1, <1>4, LeastOf
  <2> HIDE DEF n
  <2>2. n \in 1 .. Len(pieces) /\ f[n] \notin Seq(Nat)
    BY <2>1
  <2>3. n # 1
    BY <1>1, <1>3, <2>2
  <2>4. n \in 2 .. Len(pieces) /\ n - 1 \in 1 .. Len(pieces) /\ ~(n <= n - 1)
    BY <1>1, <2>2, <2>3
  <2>5. f[n - 1] \in Seq(Nat)
    BY <2>1, <2>4
  <2>6. f[n] = f[n - 1] \o pieces[n] /\ pieces[n] \in Seq(Nat)
    BY <1>1, <1>3, <2>2, <2>4
  <2>7. f[n - 1] \o pieces[n] \in Seq(Nat)
    BY <2>5, <2>6
  <2> QED
    BY <2>2, <2>6, <2>7
<1> QED
  BY <1>3, <1>4

LEMMA PrFlattenType ==
    ASSUME NEW pieces \in Seq(Seq(Nat))
    PROVE  FlattenSeq(pieces) \in Seq(Nat)
<1>1. CASE Len(pieces) = 0
  <2>1. FlattenSeq(pieces) = pieces /\ pieces = <<>>
    BY <1>1 DEF FlattenSeq
  <2> QED
    BY <2>1
<1>2. CASE Len(pieces) # 0
  <2>1. PICK f : PrJoins(f, pieces, Len(pieces)) /\ FlattenSeq(pieces) = f[Len(pieces)]
    BY <1>2, PrFlattens
  <2>2. Len(pieces) \in 1 .. Len(pieces)
    BY <1>2
  <2> QED
    BY <1>2, <2>1, <2>2, PrJoinsSteps
<1> QED
  BY <1>1, <1>2

LEMMA PrPrefix ==
    ASSUME NEW s \in Seq(Nat), NEW t \in Seq(Nat)
    PROVE  IsPrefix(s, t) <=> Len(s) <= Len(t) /\ \A i \in 1 .. Len(s) : s[i] = t[i]
<1>1. Len(s) \in Nat /\ Len(t) \in Nat
  OBVIOUS
<1>2. CASE Len(s) <= Len(t)
  <2>1. SubSeq(s, 1, Len(s)) = [i \in 1 .. Len(s) |-> s[i]]
    BY <1>1
  <2>2. SubSeq(t, 1, Len(s)) = [i \in 1 .. Len(s) |-> t[i]]
    BY <1>1, <1>2
  <2>3. IsPrefix(s, t) <=> [i \in 1 .. Len(s) |-> s[i]] = [i \in 1 .. Len(s) |-> t[i]]
    BY <1>2, <2>1, <2>2 DEF IsPrefix
  <2>4. [i \in 1 .. Len(s) |-> s[i]] = [i \in 1 .. Len(s) |-> t[i]] <=> \A i \in 1 .. Len(s) : s[i] = t[i]
    <3>1. ASSUME [i \in 1 .. Len(s) |-> s[i]] = [i \in 1 .. Len(s) |-> t[i]], NEW i \in 1 .. Len(s) PROVE s[i] = t[i]
      <4>1. [k \in 1 .. Len(s) |-> s[k]][i] = s[i] /\ [k \in 1 .. Len(s) |-> t[k]][i] = t[i]
        OBVIOUS
      <4> QED
        BY <3>1, <4>1
    <3> QED
      BY <3>1
  <2> QED
    BY <1>2, <2>3, <2>4
<1>3. CASE ~(Len(s) <= Len(t))
  BY <1>3 DEF IsPrefix
<1> QED
  BY <1>2, <1>3

\* The first piece that is not empty begins the whole.
LEMMA PrFlattenBegins ==
    ASSUME NEW pieces \in Seq(Seq(Nat)), NEW a \in 1 .. Len(pieces), \A i \in 1 .. a - 1 : pieces[i] = <<>>
    PROVE  IsPrefix(pieces[a], FlattenSeq(pieces))
<1>1. Len(pieces) \in Nat /\ Len(pieces) # 0 /\ \A i \in 1 .. Len(pieces) : pieces[i] \in Seq(Nat)
  OBVIOUS
<1>2. PICK f : PrJoins(f, pieces, Len(pieces)) /\ FlattenSeq(pieces) = f[Len(pieces)]
  BY <1>1, PrFlattens
<1>3. /\ f[1] = pieces[1] /\ \A i \in 2 .. Len(pieces) : f[i] = f[i - 1] \o pieces[i]
      /\ \A i \in 1 .. Len(pieces) : f[i] \in Seq(Nat)
  BY <1>1, <1>2, PrJoinsSteps
<1> DEFINE Good(i) == (i < a => f[i] = <<>>) /\ (i >= a => IsPrefix(pieces[a], f[i]))
           Bad == {i \in 1 .. Len(pieces) : ~ Good(i)}
<1>4. ASSUME Bad # {} PROVE FALSE
  <2> DEFINE n == Min(Bad)
  <2>1. n \in Bad /\ \A x \in Bad : n <= x
    <3>1. Bad \subseteq Nat
      OBVIOUS
    <3> QED
      BY <3>1, <1>4, LeastOf
  <2> HIDE DEF n
  <2>2. n \in 1 .. Len(pieces) /\ ~ Good(n)
    BY <2>1
  <2>3. CASE n = 1
    <3>1. CASE a = 1
      <4>1. IsPrefix(pieces[a], f[1])
        BY <3>1, <1>1, <1>3 DEF IsPrefix
      <4> QED
        BY <2>2, <2>3, <3>1, <4>1
    <3>2. CASE a # 1
      <4>1. 1 \in 1 .. a - 1
        BY <3>2, <1>1
      <4>2. pieces[1] = <<>>
        BY <4>1
      <4>3. f[1] = <<>>
        BY <1>3, <4>2
      <4> QED
        BY <2>2, <2>3, <3>2, <4>3
    <3> QED
      BY <3>1, <3>2
  <2>4. CASE n # 1
    <3>1. n \in 2 .. Len(pieces) /\ n - 1 \in 1 .. Len(pieces) /\ ~(n <= n - 1)
      BY <1>1, <2>2, <2>4
    <3>2. Good(n - 1)
      BY <2>1, <3>1
    <3>3. f[n] = f[n - 1] \o pieces[n] /\ f[n - 1] \in Seq(Nat) /\ f[n] \in Seq(Nat) /\ pieces[n] \in Seq(Nat)
      <4>1. f[n] = f[n - 1] \o pieces[n]
        BY <1>3, <3>1
      <4> QED
        BY <1>1, <1>3, <2>2, <3>1, <4>1
    <3>4. CASE n < a
      <4>1. f[n - 1] = <<>> /\ pieces[n] = <<>>
        BY <3>1, <3>2, <3>4
      <4>2. f[n] = <<>>
        BY <3>3, <4>1
      <4> QED
        BY <2>2, <3>4, <4>2
    <3>5. CASE n = a
      <4>1. f[n - 1] = <<>>
        BY <3>1, <3>2, <3>5
      <4>2. f[n] = pieces[a]
        BY <3>3, <3>5, <4>1
      <4>3. IsPrefix(pieces[a], f[n])
        BY <4>2, <1>1 DEF IsPrefix
      <4> QED
        BY <2>2, <3>5, <4>3
    <3>6. CASE n > a
      <4>1. IsPrefix(pieces[a], f[n - 1])
        BY <3>1, <3>2, <3>6
      <4>2. IsPrefix(pieces[a], f[n - 1] \o pieces[n])
        <5>1. /\ Len(pieces[a]) <= Len(f[n - 1]) /\ pieces[a] \in Seq(Nat) /\ Len(pieces[a]) \in Nat
              /\ \A i \in 1 .. Len(pieces[a]) : pieces[a][i] = f[n - 1][i]
          BY <1>1, <3>3, <4>1, PrPrefix
        <5> DEFINE b == f[n - 1]
                   q == pieces[n]
        <5>2. b \in Seq(Nat) /\ q \in Seq(Nat) /\ Len(pieces[a]) <= Len(b) /\ \A i \in 1 .. Len(pieces[a]) : pieces[a][i] = b[i]
          BY <3>3, <5>1
        <5> HIDE DEF b, q
        <5>3. /\ Len(b \o q) = Len(b) + Len(q) /\ Len(b) \in Nat /\ Len(q) \in Nat /\ b \o q \in Seq(Nat)
              /\ \A i \in 1 .. Len(b) : (b \o q)[i] = b[i]
          BY <5>2
        <5>4. Len(pieces[a]) <= Len(b \o q) /\ \A i \in 1 .. Len(pieces[a]) : i \in 1 .. Len(b)
          BY <5>1, <5>2, <5>3
        <5>5. \A i \in 1 .. Len(pieces[a]) : pieces[a][i] = (b \o q)[i]
          BY <5>2, <5>3, <5>4
        <5>6. IsPrefix(pieces[a], b \o q)
          BY <5>1, <5>3, <5>4, <5>5, PrPrefix
        <5> QED
          BY <5>6 DEF b, q
      <4> QED
        BY <2>2, <3>3, <3>6, <4>2
    <3> QED
      BY <2>2, <3>4, <3>5, <3>6
  <2> QED
    BY <2>3, <2>4
<1>5. Len(pieces) \in 1 .. Len(pieces) /\ Len(pieces) >= a
  BY <1>1
<1> QED
  BY <1>2, <1>4, <1>5

LEMMA PrSuffix ==
    ASSUME NEW s \in Seq(Nat), NEW t \in Seq(Nat)
    PROVE  IsSuffix(s, t) <=> Len(s) <= Len(t) /\ \A i \in 1 .. Len(s) : s[i] = t[Len(t) - Len(s) + i]
<1>1. Len(s) \in Nat /\ Len(t) \in Nat
  OBVIOUS
<1>2. \A u \in Seq(Nat) : Reverse(u) \in Seq(Nat) /\ Len(Reverse(u)) = Len(u) /\ \A i \in 1 .. Len(u) : Reverse(u)[i] = u[Len(u) - i + 1]
  <2> TAKE u \in Seq(Nat)
  <2>1. Len(u) \in Nat /\ \A i \in 1 .. Len(u) : u[i] \in Nat /\ Len(u) - i + 1 \in 1 .. Len(u)
    OBVIOUS
  <2>2. Reverse(u) \in [1 .. Len(u) -> Nat]
    BY <2>1 DEF Reverse
  <2> QED
    BY <2>1, <2>2 DEF Reverse
<1>3. IsSuffix(s, t) <=> Len(s) <= Len(t) /\ \A i \in 1 .. Len(s) : Reverse(s)[i] = Reverse(t)[i]
  <2> DEFINE x == Reverse(s)
             y == Reverse(t)
  <2>1. x \in Seq(Nat) /\ y \in Seq(Nat) /\ Len(x) = Len(s) /\ Len(y) = Len(t)
    BY <1>2
  <2>2. IsSuffix(s, t) <=> IsPrefix(x, y)
    BY DEF IsSuffix
  <2> HIDE DEF x, y
  <2>3. IsPrefix(x, y) <=> Len(s) <= Len(t) /\ \A i \in 1 .. Len(s) : x[i] = y[i]
    BY <2>1, PrPrefix
  <2> QED
    BY <2>2, <2>3 DEF x, y
<1>4. ASSUME Len(s) <= Len(t)
      PROVE  (\A i \in 1 .. Len(s) : Reverse(s)[i] = Reverse(t)[i]) <=> \A i \in 1 .. Len(s) : s[i] = t[Len(t) - Len(s) + i]
  <2>1. \A i \in 1 .. Len(s) : Len(s) - i + 1 \in 1 .. Len(s) /\ i \in 1 .. Len(t)
                               /\ Len(t) - Len(s) + (Len(s) - i + 1) = Len(t) - i + 1
                               /\ Len(s) - (Len(s) - i + 1) + 1 = i
    BY <1>1, <1>4
  <2>2. \A i \in 1 .. Len(s) : Reverse(s)[i] = s[Len(s) - i + 1] /\ Reverse(t)[i] = t[Len(t) - i + 1]
    BY <1>2, <2>1
  <2>3. ASSUME \A i \in 1 .. Len(s) : s[i] = t[Len(t) - Len(s) + i], NEW i \in 1 .. Len(s)
        PROVE  Reverse(s)[i] = Reverse(t)[i]
    <3>1. s[Len(s) - i + 1] = t[Len(t) - Len(s) + (Len(s) - i + 1)]
      BY <2>1, <2>3
    <3> QED
      BY <3>1, <2>1, <2>2
  <2>4. ASSUME \A i \in 1 .. Len(s) : Reverse(s)[i] = Reverse(t)[i], NEW i \in 1 .. Len(s)
        PROVE  s[i] = t[Len(t) - Len(s) + i]
    <3> DEFINE k == Len(s) - i + 1
    <3>1. k \in 1 .. Len(s) /\ Len(s) - k + 1 = i /\ Len(t) - k + 1 = Len(t) - Len(s) + i
      BY <1>1
    <3> HIDE DEF k
    <3>2. s[Len(s) - k + 1] = t[Len(t) - k + 1]
      BY <2>2, <2>4, <3>1
    <3> QED
      BY <3>1, <3>2
  <2> QED
    BY <2>3, <2>4
<1> QED
  BY <1>3, <1>4

\* The last piece that is not empty ends the whole.
LEMMA PrFlattenEnds ==
    ASSUME NEW pieces \in Seq(Seq(Nat)), NEW a \in 1 .. Len(pieces), \A i \in a + 1 .. Len(pieces) : pieces[i] = <<>>
    PROVE  IsSuffix(pieces[a], FlattenSeq(pieces))
<1>1. Len(pieces) \in Nat /\ Len(pieces) # 0 /\ \A i \in 1 .. Len(pieces) : pieces[i] \in Seq(Nat)
  OBVIOUS
<1>2. PICK f : PrJoins(f, pieces, Len(pieces)) /\ FlattenSeq(pieces) = f[Len(pieces)]
  BY <1>1, PrFlattens
<1>3. /\ f[1] = pieces[1] /\ \A i \in 2 .. Len(pieces) : f[i] = f[i - 1] \o pieces[i]
      /\ \A i \in 1 .. Len(pieces) : f[i] \in Seq(Nat)
  BY <1>1, <1>2, PrJoinsSteps
<1> DEFINE Bad == {i \in a .. Len(pieces) : ~ IsSuffix(pieces[a], f[i])}
<1>4. ASSUME Bad # {} PROVE FALSE
  <2> DEFINE n == Min(Bad)
  <2>1. n \in Bad /\ \A x \in Bad : n <= x
    <3>1. Bad \subseteq Nat
      OBVIOUS
    <3> QED
      BY <3>1, <1>4, LeastOf
  <2> HIDE DEF n
  <2>2. n \in a .. Len(pieces) /\ n \in 1 .. Len(pieces) /\ ~ IsSuffix(pieces[a], f[n])
    BY <2>1
  <2>3. pieces[a] \in Seq(Nat) /\ f[n] \in Seq(Nat)
    BY <1>1, <1>3, <2>2
  <2>4. CASE n = a
    <3>1. CASE a = 1
      <4>1. f[n] = pieces[a]
        BY <1>3, <2>4, <3>1
      <4> QED
        BY <2>2, <2>3, <4>1, PrSuffix
    <3>2. CASE a # 1
      <4>1. a \in 2 .. Len(pieces) /\ a - 1 \in 1 .. Len(pieces)
        BY <3>2, <1>1
      <4>2. f[n] = f[a - 1] \o pieces[a] /\ f[a - 1] \in Seq(Nat)
        BY <1>3, <2>4, <4>1
      <4> DEFINE b == f[a - 1]
      <4> HIDE DEF b
      <4>3. b \in Seq(Nat) /\ f[n] = b \o pieces[a]
        BY <4>2 DEF b
      <4>4. /\ Len(b) \in Nat /\ Len(pieces[a]) \in Nat /\ Len(f[n]) = Len(b) + Len(pieces[a])
            /\ \A i \in 1 .. Len(pieces[a]) : f[n][Len(b) + i] = pieces[a][i]
        BY <2>3, <4>3
      <4>5. Len(pieces[a]) <= Len(f[n]) /\ Len(f[n]) - Len(pieces[a]) = Len(b)
        BY <4>4
      <4>6. \A i \in 1 .. Len(pieces[a]) : pieces[a][i] = f[n][Len(f[n]) - Len(pieces[a]) + i]
        BY <4>4, <4>5
      <4>7. IsSuffix(pieces[a], f[n])
        BY <2>3, <4>5, <4>6, PrSuffix
      <4> QED
        BY <2>2, <4>7
    <3> QED
      BY <3>1, <3>2
  <2>5. CASE n # a
    <3>1. n - 1 \in a .. Len(pieces) /\ n \in a + 1 .. Len(pieces) /\ n \in 2 .. Len(pieces) /\ ~(n <= n - 1)
          /\ n - 1 \in 1 .. Len(pieces)
      BY <1>1, <2>2, <2>5
    <3>2. IsSuffix(pieces[a], f[n - 1])
      BY <2>1, <3>1
    <3>3. f[n] = f[n - 1] \o pieces[n] /\ pieces[n] = <<>>
      BY <1>3, <3>1
    <3>4. f[n - 1] \in Seq(Nat)
      BY <1>3, <3>1
    <3>5. f[n] = f[n - 1]
      BY <3>3, <3>4
    <3> QED
      BY <2>2, <3>2, <3>5
  <2> QED
    BY <2>4, <2>5
<1>5. Len(pieces) \in a .. Len(pieces)
  BY <1>1
<1> QED
  BY <1>2, <1>4, <1>5

\* Each candidate has its own place among the texts that may be replaced.
LEMMA PrRanks ==
    ASSUME NEW segments \in Seq(Segments)
    PROVE  /\ Cardinality(CandidatesOf(segments)) \in Nat
           /\ \A i \in CandidatesOf(segments) : RankOf(segments, i) \in 1 .. Cardinality(CandidatesOf(segments))
           /\ \A i, j \in CandidatesOf(segments) : RankOf(segments, i) = RankOf(segments, j) => i = j
<1> DEFINE C == CandidatesOf(segments)
           Up(i) == {j \in CandidatesOf(segments) :
                        \/ segments[j].message < segments[i].message
                        \/ segments[j].message = segments[i].message /\ j <= i}
<1>1. DOMAIN segments = 1 .. Len(segments) /\ Len(segments) \in Nat /\ \A i \in C : segments[i].message \in Nat /\ i \in Nat
  <2>1. DOMAIN segments = 1 .. Len(segments) /\ Len(segments) \in Nat /\ \A i \in 1 .. Len(segments) : segments[i] \in Segments
    OBVIOUS
  <2>2. \A x \in Segments : x.message \in Nat
    BY DEF Segments
  <2>3. \A i \in C : i \in 1 .. Len(segments)
    BY <2>1 DEF CandidatesOf
  <2> QED
    BY <2>1, <2>2, <2>3
<1>2. IsFiniteSet(C)
  <2>1. \A n \in Nat : IsFiniteSet(1 .. n)
    BY FS_Interval
  <2>2. C \subseteq 1 .. Len(segments)
    BY <1>1 DEF CandidatesOf
  <2> QED
    BY <1>1, <2>1, <2>2, FS_Subset
<1>3. ASSUME NEW i PROVE RankOf(segments, i) = Cardinality(Up(i))
  BY DEF RankOf
<1>9. /\ \A i : Up(i) \subseteq C
      /\ \A i, j : j \in Up(i) <=> /\ j \in C
                                   /\ \/ segments[j].message < segments[i].message
                                      \/ segments[j].message = segments[i].message /\ j <= i
  OBVIOUS
<1> HIDE DEF C, Up
<1>4. Cardinality(C) \in Nat
  BY <1>2, FS_CardinalityType
<1>5. ASSUME NEW i \in C PROVE Cardinality(Up(i)) \in 1 .. Cardinality(C)
  <2>1. Up(i) \subseteq C /\ i \in Up(i)
    BY <1>1, <1>9
  <2> DEFINE U == Up(i)
  <2>2. U \subseteq C /\ i \in U
    BY <2>1
  <2> HIDE DEF U
  <2>3. IsFiniteSet(U) /\ Cardinality(U) <= Cardinality(C) /\ Cardinality(U) \in Nat
    BY <1>2, <2>2, FS_Subset, FS_CardinalityType
  <2>4. Cardinality(U) # 0
    BY <2>2, <2>3, FS_EmptySet
  <2>5. Cardinality(U) \in 1 .. Cardinality(C)
    BY <1>4, <2>3, <2>4
  <2> QED
    BY <2>5 DEF U
<1>6. ASSUME NEW i \in C, NEW j \in C,
             segments[i].message < segments[j].message \/ (segments[i].message = segments[j].message /\ i < j)
      PROVE  Cardinality(Up(i)) < Cardinality(Up(j))
  <2>1. Up(i) \subseteq Up(j) /\ j \in Up(j) /\ j \notin Up(i) /\ Up(j) \subseteq C
    <3>1. /\ segments[i].message \in Nat /\ i \in Nat /\ segments[j].message \in Nat /\ j \in Nat
      BY <1>1
    <3>2. ASSUME NEW x \in Up(i) PROVE x \in Up(j)
      <4>1. /\ x \in C /\ x \in Nat /\ segments[x].message \in Nat
            /\ segments[x].message < segments[i].message \/ (segments[x].message = segments[i].message /\ x <= i)
        BY <1>1, <1>9, <3>2
      <4>2. segments[x].message < segments[j].message \/ (segments[x].message = segments[j].message /\ x <= j)
        <5>1. CASE segments[i].message < segments[j].message
          BY <5>1, <3>1, <4>1
        <5>2. CASE segments[i].message = segments[j].message /\ i < j
          BY <5>2, <3>1, <4>1
        <5> QED
          BY <1>6, <5>1, <5>2
      <4> QED
        BY <1>9, <4>1, <4>2
    <3>3. j \in Up(j)
      BY <1>6, <1>9, <3>1
    <3>4. j \notin Up(i)
      BY <1>6, <1>9, <3>1
    <3> QED
      BY <1>9, <3>2, <3>3, <3>4
  <2> DEFINE U == Up(i)
             V == Up(j)
  <2>2. U \subseteq V /\ V # U /\ V \subseteq C
    BY <2>1
  <2> HIDE DEF U, V
  <2>3. IsFiniteSet(V)
    BY <1>2, <2>2, FS_Subset
  <2>4. Cardinality(U) < Cardinality(V)
    BY <2>2, <2>3, FS_Subset, FS_CardinalityType
  <2> QED
    BY <2>4 DEF U, V
<1>7. ASSUME NEW i \in C, NEW j \in C, i # j PROVE Cardinality(Up(i)) # Cardinality(Up(j))
  <2>1. \/ segments[i].message < segments[j].message \/ (segments[i].message = segments[j].message /\ i < j)
        \/ segments[j].message < segments[i].message \/ (segments[j].message = segments[i].message /\ j < i)
    BY <1>1, <1>7
  <2>2. Cardinality(Up(i)) \in Nat /\ Cardinality(Up(j)) \in Nat
    BY <1>5
  <2>3. Cardinality(Up(i)) < Cardinality(Up(j)) \/ Cardinality(Up(j)) < Cardinality(Up(i))
    BY <1>6, <2>1
  <2> QED
    BY <2>2, <2>3
<1> QED
  BY <1>3, <1>4, <1>5, <1>7 DEF C

\* What With joins for a message.
PrPiece(source, segments, r, i) ==
    IF segments[i].candidate THEN r[RankOf(segments, i)] ELSE TextAt(source, segments[i])
PrPieces(source, segments, r, k) ==
    [i \in DOMAIN segments |-> IF segments[i].message = k THEN PrPiece(source, segments, r, i) ELSE <<>>]

LEMMA PrWithIs ==
    ASSUME NEW source \in Requests, NEW segments, NEW r
    PROVE  /\ With(source, segments, r).settings = source.settings
           /\ DOMAIN With(source, segments, r).messages = DOMAIN source.messages
           /\ \A k \in DOMAIN source.messages :
                 With(source, segments, r).messages[k]
                     = [source.messages[k] EXCEPT !.content = FlattenSeq(PrPieces(source, segments, r, k))]
           /\ With(source, segments, r)
                 = [source EXCEPT !.messages = [k \in DOMAIN source.messages |->
                     [source.messages[k] EXCEPT !.content = FlattenSeq(PrPieces(source, segments, r, k))]]]
<1> DEFINE messages == [k \in DOMAIN source.messages |->
                          [source.messages[k] EXCEPT !.content = FlattenSeq(PrPieces(source, segments, r, k))]]
<1>1. With(source, segments, r) = [source EXCEPT !.messages = messages]
  BY DEF With, PrPieces, PrPiece
<1>2. \A k \in DOMAIN source.messages :
         messages[k] = [source.messages[k] EXCEPT !.content = FlattenSeq(PrPieces(source, segments, r, k))]
  OBVIOUS
<1>3. DOMAIN messages = DOMAIN source.messages
  OBVIOUS
<1> HIDE DEF messages
<1>4. [source EXCEPT !.messages = messages].messages = messages /\ [source EXCEPT !.messages = messages].settings = source.settings
  BY DEF Requests
<1> QED
  BY <1>1, <1>2, <1>3, <1>4 DEF messages

\* What a well-formed request's segments cut out of it.
LEMMA PrCut ==
    ASSUME NEW given \in FrozenRequests, WellFormed(given)
    PROVE  LET source == given.source
               segments == given.segments
           IN  /\ source \in Requests /\ given.frozen = source /\ segments \in Seq(Segments)
               /\ Len(segments) \in Nat /\ DOMAIN segments = 1 .. Len(segments)
               /\ Len(source.messages) \in Nat /\ DOMAIN source.messages = 1 .. Len(source.messages)
               /\ \A k \in 1 .. Len(source.messages) :
                     /\ source.messages[k] \in [role : STRING, content : Seq(Nat)]
                     /\ source.messages[k].content \in Seq(Nat) /\ Len(source.messages[k].content) \in Nat
                     /\ Covered(source.messages[k].content, segments, k)
               /\ \A i \in 1 .. Len(segments) :
                     /\ segments[i] \in Segments /\ segments[i].message \in 1 .. Len(source.messages)
                     /\ segments[i].start \in Nat /\ segments[i].end \in Nat /\ segments[i].candidate \in BOOLEAN
                     /\ segments[i].start < segments[i].end
                     /\ segments[i].end <= Len(source.messages[segments[i].message].content)
                     /\ TextAt(source, segments[i]) = segments[i].text /\ segments[i].text \in Seq(Nat)
<1> DEFINE source == given.source
           segments == given.segments
<1>1. source \in Requests /\ given.frozen = source /\ segments \in Seq(Segments)
  BY DEF FrozenRequests, WellFormed
<1>6. /\ \A k \in 1 .. Len(source.messages) : Covered(source.messages[k].content, segments, k)
      /\ \A s \in ToSet(segments) : s.message \in 1 .. Len(source.messages)
  BY DEF WellFormed
<1> HIDE DEF source, segments
<1> DEFINE M == [role : STRING, content : Seq(Nat)]
<1>2. source.messages \in Seq(M)
  BY <1>1 DEF Requests
<1>9. \A m \in M : m.content \in Seq(Nat) /\ Len(m.content) \in Nat
  OBVIOUS
<1> HIDE DEF M
<1>3. Len(segments) \in Nat /\ DOMAIN segments = 1 .. Len(segments) /\ \A i \in 1 .. Len(segments) : segments[i] \in Segments
  BY <1>1
<1>4. /\ Len(source.messages) \in Nat /\ DOMAIN source.messages = 1 .. Len(source.messages)
      /\ \A k \in 1 .. Len(source.messages) : source.messages[k] \in M
  BY <1>2
<1>5. \A k \in 1 .. Len(source.messages) : source.messages[k].content \in Seq(Nat) /\ Len(source.messages[k].content) \in Nat
  BY <1>4, <1>9
<1>7. \A i \in 1 .. Len(segments) : segments[i].message \in 1 .. Len(source.messages)
  BY <1>3, <1>6 DEF ToSet
<1>8. ASSUME NEW i \in 1 .. Len(segments)
      PROVE  /\ segments[i].start \in Nat /\ segments[i].end \in Nat /\ segments[i].candidate \in BOOLEAN
             /\ segments[i].start < segments[i].end
             /\ segments[i].end <= Len(source.messages[segments[i].message].content)
             /\ TextAt(source, segments[i]) = segments[i].text /\ segments[i].text \in Seq(Nat)
  <2>1. i \in Of(segments, segments[i].message) /\ Covered(source.messages[segments[i].message].content, segments, segments[i].message)
    BY <1>3, <1>6, <1>7 DEF Of
  <2>2. segments[i] \in Segments
    BY <1>3
  <2> QED
    BY <2>1, <2>2 DEF Covered, Segments, TextAt
<1> QED
  BY <1>1, <1>3, <1>4, <1>5, <1>6, <1>7, <1>8 DEF source, segments, M

\* Texts for the candidates: one for each.
PrFits(given, r) == \A i \in CandidatesOf(given.segments) : r[RankOf(given.segments, i)] \in Seq(Nat)

\* As many texts as there are candidates.
LEMMA PrEnough ==
    ASSUME NEW given \in FrozenRequests, NEW r \in Seq(Seq(Nat)), ReplacementsFit(given, r)
    PROVE  PrFits(given, r)
<1> DEFINE segments == given.segments
<1>1. segments \in Seq(Segments)
  BY DEF FrozenRequests
<1>2. Len(r) = Cardinality(CandidatesOf(segments))
  BY DEF ReplacementsFit
<1> HIDE DEF segments
<1>3. \A i \in CandidatesOf(segments) : RankOf(segments, i) \in 1 .. Len(r)
  BY <1>1, <1>2, PrRanks
<1>4. \A i \in CandidatesOf(segments) : r[RankOf(segments, i)] \in Seq(Nat)
  BY <1>3
<1> QED
  BY <1>4 DEF segments, PrFits

\* What With puts together is typed.
LEMMA PrPiecesTyped ==
    ASSUME NEW given \in FrozenRequests, WellFormed(given), NEW r, PrFits(given, r),
           NEW k \in 1 .. Len(given.source.messages)
    PROVE  LET pieces == PrPieces(given.source, given.segments, r, k)
           IN  /\ pieces \in Seq(Seq(Nat)) /\ Len(pieces) = Len(given.segments)
               /\ \A i \in 1 .. Len(given.segments) :
                     /\ given.segments[i].message # k => pieces[i] = <<>>
                     /\ given.segments[i].message = k /\ i \notin CandidatesOf(given.segments)
                           => pieces[i] = given.segments[i].text
                     /\ given.segments[i].message = k /\ i \in CandidatesOf(given.segments)
                           => pieces[i] = r[RankOf(given.segments, i)]
<1> DEFINE source == given.source
           segments == given.segments
           pieces == PrPieces(source, segments, r, k)
<1>1. /\ segments \in Seq(Segments) /\ Len(segments) \in Nat /\ DOMAIN segments = 1 .. Len(segments)
      /\ \A i \in 1 .. Len(segments) : TextAt(source, segments[i]) = segments[i].text /\ segments[i].text \in Seq(Nat)
                                       /\ segments[i].candidate \in BOOLEAN
  BY PrCut
<1>4. \A i \in CandidatesOf(segments) : r[RankOf(segments, i)] \in Seq(Nat)
  BY DEF PrFits
<1> HIDE DEF source, segments
<1>3. \A i \in 1 .. Len(segments) : i \in CandidatesOf(segments) <=> segments[i].candidate
  BY <1>1 DEF CandidatesOf
<1>5. \A i \in 1 .. Len(segments) : pieces[i] = IF segments[i].message = k THEN PrPiece(source, segments, r, i) ELSE <<>>
  BY <1>1 DEF PrPieces
<1>6. \A i \in 1 .. Len(segments) :
         /\ segments[i].message # k => pieces[i] = <<>>
         /\ segments[i].message = k /\ i \notin CandidatesOf(segments) => pieces[i] = segments[i].text
         /\ segments[i].message = k /\ i \in CandidatesOf(segments) => pieces[i] = r[RankOf(segments, i)]
  BY <1>1, <1>3, <1>5 DEF PrPiece
<1>7. \A i \in 1 .. Len(segments) : pieces[i] \in Seq(Nat)
  <2> TAKE i \in 1 .. Len(segments)
  <2>1. <<>> \in Seq(Nat)
    OBVIOUS
  <2> HIDE DEF pieces
  <2>2. CASE segments[i].message # k
    BY <1>6, <2>1, <2>2
  <2>3. CASE segments[i].message = k /\ i \notin CandidatesOf(segments)
    BY <1>1, <1>6, <2>3
  <2>4. CASE segments[i].message = k /\ i \in CandidatesOf(segments)
    BY <1>4, <1>6, <2>4
  <2> QED
    BY <2>2, <2>3, <2>4
<1>8. pieces = [i \in 1 .. Len(segments) |-> pieces[i]]
  BY <1>1 DEF PrPieces
<1> HIDE DEF pieces
<1>9. pieces \in Seq(Seq(Nat)) /\ Len(pieces) = Len(segments)
  <2> DEFINE T == Seq(Nat)
  <2>1. \A i \in 1 .. Len(segments) : pieces[i] \in T
    BY <1>7
  <2> HIDE DEF T
  <2>2. pieces \in Seq(T) /\ Len(pieces) = Len(segments)
    BY <1>1, <1>8, <2>1
  <2> QED
    BY <2>2 DEF T
<1> QED
  BY <1>6, <1>9 DEF source, segments, pieces

\* The original texts put together are the message.
LEMMA PrWhole ==
    ASSUME NEW given \in FrozenRequests, WellFormed(given), NEW k \in 1 .. Len(given.source.messages),
           NEW pieces \in Seq(Seq(Nat)), Len(pieces) = Len(given.segments),
           \A i \in 1 .. Len(given.segments) :
               pieces[i] = IF given.segments[i].message = k THEN given.segments[i].text ELSE <<>>
    PROVE  FlattenSeq(pieces) = given.source.messages[k].content
<1> DEFINE segments == given.segments
           content == given.source.messages[k].content
           O == Of(segments, k)
           U(i) == {j \in O : j <= i}
           B(i) == {j \in O : j < i}
<1>1. /\ Len(segments) \in Nat /\ DOMAIN segments = 1 .. Len(segments)
      /\ content \in Seq(Nat) /\ Len(content) \in Nat /\ Covered(content, segments, k)
      /\ \A i \in 1 .. Len(segments) : segments[i].start \in Nat /\ segments[i].end \in Nat
  BY PrCut
<1>2. \A i \in 1 .. Len(segments) : pieces[i] = IF i \in O THEN segments[i].text ELSE <<>>
  BY <1>1 DEF Of
<1>3. Len(pieces) = Len(segments) /\ O \subseteq 1 .. Len(segments)
  BY <1>1 DEF Of
<1> HIDE DEF segments, content
<1>4. /\ \A i \in O : /\ segments[i].start = EndOf(segments, {j \in O : j < i})
                      /\ segments[i].start < segments[i].end /\ segments[i].end <= Len(content)
                      /\ segments[i].text = SubSeq(content, segments[i].start + 1, segments[i].end)
      /\ Len(content) = EndOf(segments, O)
  BY <1>1 DEF Covered
<1> HIDE DEF O
<1>7. \A j \in O : j \in 1 .. Len(segments) /\ j \in Nat /\ j >= 1
  BY <1>1, <1>3
<1>8. \A i, j : (j \in U(i) <=> j \in O /\ j <= i) /\ (j \in B(i) <=> j \in O /\ j < i)
  OBVIOUS
<1>9. \A i \in O : segments[i].start = EndOf(segments, B(i))
  BY <1>4
<1> HIDE DEF U, B
<1>5. CASE Len(segments) = 0
  <2>1. O = {}
    BY <1>3, <1>5
  <2>2. Len(content) = 0
    BY <1>4, <2>1 DEF EndOf
  <2>3. content = <<>> /\ pieces = <<>>
    BY <1>1, <1>3, <1>5, <2>2
  <2>4. FlattenSeq(pieces) = <<>>
    BY <2>3 DEF FlattenSeq
  <2> QED
    BY <2>3, <2>4 DEF content
<1>6. CASE Len(segments) # 0
  <2>1. PICK f : PrJoins(f, pieces, Len(pieces)) /\ FlattenSeq(pieces) = f[Len(pieces)]
    BY <1>1, <1>3, <1>6, PrFlattens
  <2>2. /\ f[1] = pieces[1] /\ \A i \in 2 .. Len(segments) : f[i] = f[i - 1] \o pieces[i]
        /\ \A i \in 1 .. Len(segments) : f[i] \in Seq(Nat)
    BY <1>3, <1>6, <2>1, PrJoinsSteps
  <2> DEFINE Good(i) == f[i] = SubSeq(content, 1, EndOf(segments, U(i))) /\ EndOf(segments, U(i)) \in 0 .. Len(content)
             Bad == {i \in 1 .. Len(segments) : ~ Good(i)}
  <2>3. ASSUME NEW i \in O
        PROVE  EndOf(segments, U(i)) = segments[i].end /\ i \in 1 .. Len(segments)
    <3>1. i \in 1 .. Len(segments) /\ i \in Nat
      BY <1>7, <2>3
    <3>2. U(i) \subseteq 0 .. i /\ i \in U(i)
      <4>1. ASSUME NEW j \in U(i) PROVE j \in 0 .. i
        <5>1. j \in O /\ j <= i
          BY <1>8, <4>1
        <5> QED
          BY <1>7, <3>1, <5>1
      <4>2. i \in U(i)
        BY <1>8, <3>1
      <4> QED
        BY <4>1, <4>2
    <3>3. Max(U(i)) \in U(i) /\ \A y \in U(i) : y <= Max(U(i))
      BY <3>1, <3>2, GreatestOf
    <3>4. Max(U(i)) = i
      <4> DEFINE m == Max(U(i))
      <4>1. m \in 0 .. i /\ i <= m
        BY <3>2, <3>3
      <4> HIDE DEF m
      <4>2. m = i
        BY <3>1, <4>1
      <4> QED
        BY <4>2 DEF m
    <3>5. U(i) # {}
      BY <3>2
    <3> QED
      BY <3>1, <3>4, <3>5 DEF EndOf
  <2>4. ASSUME Bad # {} PROVE FALSE
    <3> DEFINE n == Min(Bad)
    <3>1. n \in Bad /\ \A x \in Bad : n <= x
      <4>1. Bad \subseteq Nat
        OBVIOUS
      <4> QED
        BY <4>1, <2>4, LeastOf
    <3> HIDE DEF n
    <3>2. n \in 1 .. Len(segments) /\ ~ Good(n) /\ n \in Nat
      BY <3>1
    <3> DEFINE before == B(n)
               e == EndOf(segments, before)
               b == SubSeq(content, 1, e)
    <3>4. e \in 0 .. Len(content) /\ f[n] = b \o pieces[n]
      <4>1. CASE n = 1
        <5>1. before = {}
          BY <1>7, <1>8, <4>1
        <5>2. e = 0
          BY <5>1 DEF EndOf
        <5> HIDE DEF e
        <5>3. b = <<>>
          BY <5>2, <1>1
        <5>4. pieces[n] \in Seq(Nat) /\ f[n] = pieces[n]
          BY <2>2, <3>2, <4>1, <1>3
        <5> QED
          BY <1>1, <5>2, <5>3, <5>4
      <4>2. CASE n # 1
        <5>1. n - 1 \in 1 .. Len(segments) /\ n \in 2 .. Len(segments) /\ ~(n <= n - 1)
          BY <1>1, <3>2, <4>2
        <5>2. Good(n - 1)
          BY <3>1, <5>1
        <5>3. U(n - 1) = before
          <6>1. \A j \in O : j <= n - 1 <=> j < n
            BY <1>7, <3>2
          <6>2. \A j : j \in U(n - 1) <=> j \in before
            BY <1>8, <6>1
          <6> QED
            BY <6>2
        <5>4. f[n] = f[n - 1] \o pieces[n]
          BY <2>2, <5>1
        <5> QED
          BY <5>2, <5>3, <5>4
      <4> QED
        BY <4>1, <4>2
    <3>5. CASE n \in O
      <4>1. segments[n].start = e /\ segments[n].start < segments[n].end /\ segments[n].end <= Len(content)
            /\ pieces[n] = SubSeq(content, segments[n].start + 1, segments[n].end)
        BY <1>2, <1>4, <1>9, <3>2, <3>5
      <4>2. segments[n].end \in Nat /\ EndOf(segments, U(n)) = segments[n].end
        BY <1>1, <2>3, <3>2, <3>5
      <4> DEFINE z == segments[n].end
      <4>3. e \in 0 .. Len(content) /\ z \in e .. Len(content) /\ pieces[n] = SubSeq(content, e + 1, z)
        BY <1>1, <3>4, <4>1, <4>2
      <4>4. f[n] = SubSeq(content, 1, e) \o SubSeq(content, e + 1, z)
        BY <3>4, <4>3
      <4> HIDE DEF e, z
      <4>5. 1 \in 1 .. Len(content) + 1 /\ e \in 1 - 1 .. Len(content)
        BY <1>1, <4>3
      <4>6. SubSeq(content, 1, e) \o SubSeq(content, e + 1, z) = SubSeq(content, 1, z)
        BY <1>1, <4>3, <4>5, ConcatAdjacentSubSeq
      <4>7. z \in 0 .. Len(content)
        BY <1>1, <4>3
      <4> QED
        BY <3>2, <4>2, <4>4, <4>6, <4>7 DEF z
    <3>6. CASE n \notin O
      <4>1. U(n) = before
        <5>1. \A j \in O : j <= n <=> j < n
          BY <1>7, <3>2, <3>6
        <5>2. \A j : j \in U(n) <=> j \in before
          BY <1>8, <5>1
        <5> QED
          BY <5>2
      <4>2. pieces[n] = <<>>
        BY <1>2, <3>2, <3>6
      <4>3. b \in Seq(Nat)
        <5> HIDE DEF e
        <5> QED
          BY <1>1, <3>4
      <4>4. b \o <<>> = b
        BY <4>3
      <4>5. f[n] = b
        BY <3>4, <4>2, <4>4
      <4> QED
        BY <3>2, <3>4, <4>1, <4>5
    <3> QED
      BY <3>5, <3>6
  <2>5. Good(Len(segments))
    <3>1. Len(segments) \in 1 .. Len(segments)
      BY <1>1, <1>6
    <3> QED
      BY <2>4, <3>1
  <2>6. U(Len(segments)) = O
    <3>1. \A j \in O : j <= Len(segments)
      BY <1>1, <1>7
    <3>2. \A j : j \in U(Len(segments)) <=> j \in O
      BY <1>8, <3>1
    <3> QED
      BY <3>2
  <2>7. f[Len(segments)] = SubSeq(content, 1, Len(content))
    BY <1>4, <2>5, <2>6
  <2>8. f[Len(segments)] = content
    BY <1>1, <2>7
  <2> QED
    BY <1>3, <2>1, <2>8 DEF content
<1> QED
  BY <1>5, <1>6

\* A request is typed after its candidates were replaced.
LEMMA PrWithTyped ==
    ASSUME NEW given \in FrozenRequests, WellFormed(given), NEW r, PrFits(given, r)
    PROVE  /\ With(given.source, given.segments, r) \in Requests
           /\ Len(With(given.source, given.segments, r).messages) = Len(given.source.messages)
<1> DEFINE source == given.source
           after == With(given.source, given.segments, r)
           M == [role : STRING, content : Seq(Nat)]
<1>1. /\ source \in Requests /\ Len(source.messages) \in Nat /\ DOMAIN source.messages = 1 .. Len(source.messages)
      /\ \A k \in 1 .. Len(source.messages) : source.messages[k] \in M
  BY PrCut
<1>2. \A k \in 1 .. Len(source.messages) : FlattenSeq(PrPieces(source, given.segments, r, k)) \in Seq(Nat)
  BY PrPiecesTyped, PrFlattenType
<1> DEFINE messages == [k \in DOMAIN source.messages |->
                          [source.messages[k] EXCEPT !.content = FlattenSeq(PrPieces(source, given.segments, r, k))]]
<1>9. source \in Requests
  BY PrCut
<1>3. after = [source EXCEPT !.messages = messages]
  BY DEF With, PrPieces, PrPiece
<1>4. \A m \in M, c \in Seq(Nat) : [m EXCEPT !.content = c] \in M
  OBVIOUS
<1>5. \A k \in 1 .. Len(source.messages) : messages[k] \in M
  BY <1>1, <1>2, <1>4
<1> DEFINE n == Len(source.messages)
<1>6. messages = [k \in 1 .. n |-> messages[k]]
  BY <1>1
<1>10. n \in Nat /\ \A k \in 1 .. n : messages[k] \in M
  BY <1>1, <1>5
<1> HIDE DEF source, M, messages, after, n
<1>7. messages \in Seq(M) /\ Len(messages) = n
  BY <1>6, <1>10
<1>8. after \in Requests /\ after.messages = messages
  BY <1>1, <1>3, <1>7 DEF Requests, M
<1> QED
  BY <1>7, <1>8 DEF source, after, n

\* A message whose candidates are replaced by themselves stays.
LEMMA PrStays ==
    ASSUME NEW given \in FrozenRequests, WellFormed(given), NEW r, PrFits(given, r),
           NEW k \in 1 .. Len(given.source.messages),
           \A i \in CandidatesOf(given.segments) :
               given.segments[i].message = k => r[RankOf(given.segments, i)] = given.segments[i].text
    PROVE  With(given.source, given.segments, r).messages[k] = given.source.messages[k]
<1> DEFINE source == given.source
           segments == given.segments
           pieces == PrPieces(source, segments, r, k)
<1>1. /\ source \in Requests /\ DOMAIN source.messages = 1 .. Len(source.messages)
      /\ source.messages[k] \in [role : STRING, content : Seq(Nat)]
  BY PrCut
<1>2. /\ pieces \in Seq(Seq(Nat)) /\ Len(pieces) = Len(segments)
      /\ \A i \in 1 .. Len(segments) :
            /\ segments[i].message # k => pieces[i] = <<>>
            /\ segments[i].message = k /\ i \notin CandidatesOf(segments) => pieces[i] = segments[i].text
            /\ segments[i].message = k /\ i \in CandidatesOf(segments) => pieces[i] = r[RankOf(segments, i)]
  BY PrPiecesTyped
<1>3. With(source, segments, r).messages[k] = [source.messages[k] EXCEPT !.content = FlattenSeq(pieces)]
  BY <1>1, PrWithIs
<1> HIDE DEF pieces
<1>4. \A i \in 1 .. Len(segments) : pieces[i] = IF segments[i].message = k THEN segments[i].text ELSE <<>>
  BY <1>2
<1>5. FlattenSeq(pieces) = source.messages[k].content
  BY <1>2, <1>4, PrWhole
<1>6. \A m \in [role : STRING, content : Seq(Nat)] : [m EXCEPT !.content = m.content] = m
  OBVIOUS
<1> QED
  BY <1>1, <1>3, <1>5, <1>6

\* What With changes is approved: nothing but logs in a user's message after the first.
LEMMA PrApproved ==
    ASSUME NEW given \in FrozenRequests, WellFormed(given), NEW r, PrFits(given, r)
    PROVE  LET object == With(given.source, given.segments, r)
               segments == given.segments
           IN  /\ object.settings = given.frozen.settings
               /\ \A k \in DOMAIN given.frozen.messages :
                    LET before == given.frozen.messages[k]
                        after == object.messages[k]
                    IN  /\ after.role = before.role
                        /\ (k = 1 \/ before.role # "user") => after = before
                        /\ \A i \in Of(segments, k) \ CandidatesOf(segments) :
                            /\ (\A j \in Of(segments, k) : i <= j) => IsPrefix(segments[i].text, after.content)
                            /\ (\A j \in Of(segments, k) : j <= i) => IsSuffix(segments[i].text, after.content)
<1> DEFINE source == given.source
           segments == given.segments
           object == With(source, segments, r)
<1>1. /\ source \in Requests /\ given.frozen = source
      /\ Len(segments) \in Nat /\ DOMAIN segments = 1 .. Len(segments)
      /\ DOMAIN source.messages = 1 .. Len(source.messages)
      /\ \A k \in 1 .. Len(source.messages) : source.messages[k] \in [role : STRING, content : Seq(Nat)]
  BY PrCut
<1>2. \A i \in CandidatesOf(segments) : segments[i].message # 1 /\ source.messages[segments[i].message].role = "user"
  <2>1. \A s \in ToSet(segments) : s.candidate => MayBeTransformed(source, s)
    BY DEF WellFormed
  <2>2. \A i \in CandidatesOf(segments) : segments[i] \in ToSet(segments) /\ segments[i].candidate
    BY DEF CandidatesOf, ToSet
  <2> QED
    BY <2>1, <2>2 DEF MayBeTransformed
<1>3. object.settings = source.settings
  BY <1>1, PrWithIs
<1>4. ASSUME NEW k \in 1 .. Len(source.messages)
      PROVE  /\ object.messages[k].role = source.messages[k].role
             /\ (k = 1 \/ source.messages[k].role # "user") => object.messages[k] = source.messages[k]
             /\ \A i \in Of(segments, k) \ CandidatesOf(segments) :
                  /\ (\A j \in Of(segments, k) : i <= j) => IsPrefix(segments[i].text, object.messages[k].content)
                  /\ (\A j \in Of(segments, k) : j <= i) => IsSuffix(segments[i].text, object.messages[k].content)
  <2> DEFINE pieces == PrPieces(source, segments, r, k)
  <2>1. object.messages[k] = [source.messages[k] EXCEPT !.content = FlattenSeq(pieces)]
    BY <1>1, PrWithIs
  <2>2. /\ pieces \in Seq(Seq(Nat)) /\ Len(pieces) = Len(segments)
        /\ \A i \in 1 .. Len(segments) :
              /\ segments[i].message # k => pieces[i] = <<>>
              /\ segments[i].message = k /\ i \notin CandidatesOf(segments) => pieces[i] = segments[i].text
    BY PrPiecesTyped
  <2>3. \A m \in [role : STRING, content : Seq(Nat)] : \A c :
            [m EXCEPT !.content = c].role = m.role /\ [m EXCEPT !.content = c].content = c
    OBVIOUS
  <2> HIDE DEF pieces
  <2>4. object.messages[k].role = source.messages[k].role /\ object.messages[k].content = FlattenSeq(pieces)
    BY <1>1, <2>1, <2>3
  <2>5. ASSUME k = 1 \/ source.messages[k].role # "user" PROVE object.messages[k] = source.messages[k]
    <3>1. \A i \in CandidatesOf(segments) : segments[i].message # k
      BY <1>2, <2>5
    <3> QED
      BY <3>1, PrStays
  <2>6. ASSUME NEW i \in Of(segments, k) \ CandidatesOf(segments)
        PROVE  /\ (\A j \in Of(segments, k) : i <= j) => IsPrefix(segments[i].text, FlattenSeq(pieces))
               /\ (\A j \in Of(segments, k) : j <= i) => IsSuffix(segments[i].text, FlattenSeq(pieces))
    <3>1. i \in 1 .. Len(segments) /\ segments[i].message = k /\ pieces[i] = segments[i].text /\ i \in 1 .. Len(pieces)
      BY <1>1, <2>2 DEF Of
    <3>2. \A j \in 1 .. Len(segments) : j \notin Of(segments, k) => pieces[j] = <<>>
      BY <1>1, <2>2 DEF Of
    <3>3. ASSUME \A j \in Of(segments, k) : i <= j PROVE IsPrefix(segments[i].text, FlattenSeq(pieces))
      <4>1. \A j \in 1 .. i - 1 : j \in 1 .. Len(segments) /\ ~(i <= j)
        BY <1>1, <3>1
      <4>2. \A j \in 1 .. i - 1 : pieces[j] = <<>>
        BY <3>2, <3>3, <4>1
      <4> QED
        BY <2>2, <3>1, <4>2, PrFlattenBegins
    <3>4. ASSUME \A j \in Of(segments, k) : j <= i PROVE IsSuffix(segments[i].text, FlattenSeq(pieces))
      <4>1. \A j \in i + 1 .. Len(pieces) : j \in 1 .. Len(segments) /\ ~(j <= i)
        BY <1>1, <2>2, <3>1
      <4>2. \A j \in i + 1 .. Len(pieces) : pieces[j] = <<>>
        BY <3>2, <3>4, <4>1
      <4> QED
        BY <2>2, <3>1, <4>2, PrFlattenEnds
    <3> QED
      BY <3>3, <3>4
  <2> QED
    BY <2>4, <2>5, <2>6
<1> HIDE DEF object, source, segments
<1>5. object.settings = given.frozen.settings
  BY <1>1, <1>3
<1> QED
  BY <1>1, <1>4, <1>5 DEF object, source, segments

\* A request whose candidates are replaced by themselves stays.
LEMMA PrOriginals ==
    ASSUME NEW given \in FrozenRequests, WellFormed(given)
    PROVE  With(given.source, given.segments, CandidateTexts(given.source, given.segments)) = given.source
<1> DEFINE source == given.source
           segments == given.segments
           r == CandidateTexts(source, segments)
           n == Cardinality(CandidatesOf(segments))
           The(a) == CHOOSE i \in CandidatesOf(segments) : RankOf(segments, i) = a
<1>1. /\ source \in Requests /\ segments \in Seq(Segments) /\ DOMAIN segments = 1 .. Len(segments)
      /\ DOMAIN source.messages = 1 .. Len(source.messages)
      /\ \A k \in 1 .. Len(source.messages) : source.messages[k] \in [role : STRING, content : Seq(Nat)]
      /\ \A i \in 1 .. Len(segments) : TextAt(source, segments[i]) = segments[i].text /\ segments[i].text \in Seq(Nat)
  BY PrCut
<1>2. /\ n \in Nat
      /\ \A i \in CandidatesOf(segments) : RankOf(segments, i) \in 1 .. n
      /\ \A i, j \in CandidatesOf(segments) : RankOf(segments, i) = RankOf(segments, j) => i = j
  BY <1>1, PrRanks
<1>3. \A i \in CandidatesOf(segments) : i \in 1 .. Len(segments)
  BY <1>1 DEF CandidatesOf
<1>4. r = [a \in 1 .. n |-> TextAt(source, segments[The(a)])]
  BY DEF CandidateTexts
<1>5. \A i \in CandidatesOf(segments) : The(RankOf(segments, i)) = i
  <2> TAKE i \in CandidatesOf(segments)
  <2> DEFINE j == The(RankOf(segments, i))
  <2>1. j \in CandidatesOf(segments) /\ RankOf(segments, j) = RankOf(segments, i)
    OBVIOUS
  <2> HIDE DEF j
  <2>2. j = i
    BY <1>2, <2>1
  <2> QED
    BY <2>2 DEF j
<1> HIDE DEF r, The, n
<1>6. \A i \in CandidatesOf(segments) : r[RankOf(segments, i)] = segments[i].text
  BY <1>1, <1>2, <1>3, <1>4, <1>5
<1>7. PrFits(given, r)
  BY <1>1, <1>3, <1>6 DEF PrFits
<1>9. \A k \in 1 .. Len(source.messages) : With(source, segments, r).messages[k] = source.messages[k]
  BY <1>6, <1>7, PrStays
<1> DEFINE messages == [k \in DOMAIN source.messages |->
                          [source.messages[k] EXCEPT !.content = FlattenSeq(PrPieces(source, segments, r, k))]]
           M == [role : STRING, content : Seq(Nat)]
           m == Len(source.messages)
<1>10. With(source, segments, r) = [source EXCEPT !.messages = messages]
  BY DEF With, PrPieces, PrPiece
<1>11. source.messages \in Seq(M) /\ [source EXCEPT !.messages = messages].messages = messages
  BY <1>1 DEF Requests
<1>12. messages = [k \in 1 .. m |-> messages[k]]
  BY <1>1
<1>13. \A k \in 1 .. m : messages[k] = source.messages[k]
  BY <1>9, <1>10, <1>11
<1> HIDE DEF messages, M, m
<1>14. source.messages = [k \in 1 .. m |-> source.messages[k]]
  BY <1>11 DEF m
<1>15. messages = source.messages
  BY <1>12, <1>13, <1>14
<1>16. [source EXCEPT !.messages = source.messages] = source
  BY <1>1 DEF Requests
<1>17. With(source, segments, r) = source
  BY <1>10, <1>15, <1>16
<1> QED
  BY <1>17 DEF r

PrGuards == [given : GivenRequests, fails : BOOLEAN, expected : {Empty} \cup Requests]

\* What a guard expects is its request with texts for its candidates; what waits
\* for a sender, and what senders read, is what its guard expects.
PrTyped ==
    /\ guard \in [Guards -> {NoGuard} \cup PrGuards]
    /\ outgoing \in [Guards -> {Empty} \cup Requests]
    /\ sent \in Seq([guard : Guards, object : Requests])
PrExpects(g) ==
    guard[g] # NoGuard =>
        /\ ~guard[g].fails => WellFormed(guard[g].given)
        /\ guard[g].expected # Empty =>
            /\ WellFormed(guard[g].given)
            /\ \E r \in Replacements : /\ ReplacementsFit(guard[g].given, r)
                                      /\ guard[g].expected = With(guard[g].given.source, guard[g].given.segments, r)
PrOut(g) == outgoing[g] # Empty => guard[g] # NoGuard /\ outgoing[g] = guard[g].expected
PrSentOut(n) ==
    LET g == sent[n].guard
    IN  guard[g] # NoGuard /\ guard[g].expected # Empty /\ sent[n].object = guard[g].expected
PrInv ==
    /\ PrTyped
    /\ \A g \in Guards : PrExpects(g) /\ PrOut(g)
    /\ \A n \in 1 .. Len(sent) : PrSentOut(n)

LEMMA PrKinds ==
    /\ NoGuard \notin PrGuards
    /\ Empty \notin Requests
<1>1. \A x \in PrGuards : "given" \in DOMAIN x
  BY DEF PrGuards
<1>2. \A x \in Requests : "messages" \in DOMAIN x
  BY DEF Requests
<1>3. "given" \notin DOMAIN NoGuard /\ "messages" \notin DOMAIN Empty
  BY DEF NoGuard, Empty
<1> QED
  BY <1>1, <1>2, <1>3

LEMMA PrTexts ==
    ASSUME NEW r \in Replacements
    PROVE  r \in Seq(Seq(Nat))
<1>1. PICK n \in 0 .. TextsLimit : r \in [1 .. n -> Texts]
  BY DEF Replacements
<1>2. Texts \subseteq Seq(Nat) /\ n \in Nat
  BY PrAssumption
<1> DEFINE T == Seq(Nat)
<1>3. Texts \subseteq T
  BY <1>2
<1> HIDE DEF T
<1>4. r \in Seq(T)
  BY <1>1, <1>2, <1>3
<1> QED
  BY <1>4 DEF T

\* A guard that is made, or made and used at once.
LEMMA PrMade ==
    ASSUME NEW given \in GivenRequests, NEW r \in Replacements
    PROVE  /\ given \in FrozenRequests
           /\ MadeGuard(given) \in PrGuards /\ MadeGuard(given).given = given
           /\ MadeGuard(given).fails = ~WellFormed(given) /\ MadeGuard(given).expected = Empty
           /\ WellFormed(given) /\ ReplacementsFit(given, r) =>
                /\ With(given.source, given.segments, r) \in Requests
                /\ With(given.source, given.segments, r) # Empty
<1>1. given \in FrozenRequests
  BY PrAssumption
<1>2. MadeGuard(given) \in PrGuards /\ MadeGuard(given).given = given
      /\ MadeGuard(given).fails = ~WellFormed(given) /\ MadeGuard(given).expected = Empty
  <2>1. WellFormed(given) \in BOOLEAN
    BY DEF WellFormed
  <2> QED
    BY <2>1 DEF MadeGuard, PrGuards
<1>3. ASSUME WellFormed(given), ReplacementsFit(given, r)
      PROVE  With(given.source, given.segments, r) \in Requests
  BY <1>1, <1>3, PrTexts, PrEnough, PrWithTyped
<1> QED
  BY <1>1, <1>2, <1>3, PrKinds

LEMMA PrInitInv == PrInit => PrInv
<1> SUFFICES ASSUME PrInit PROVE PrInv
  OBVIOUS
<1>1. PrTyped
  BY DEF PrInit, PrTyped
<1>2. \A g \in Guards : PrExpects(g) /\ PrOut(g)
  BY DEF PrInit, PrExpects, PrOut
<1>3. sent = <<>>
  BY DEF PrInit
<1> QED
  BY <1>1, <1>2, <1>3 DEF PrInv

\* A change of one guard that keeps what it expects.
LEMMA PrOneGuard ==
    ASSUME PrInv, NEW g \in Guards, NEW x \in PrGuards, guard' = [guard EXCEPT ![g] = x],
           ~x.fails => WellFormed(x.given),
           guard[g] # NoGuard => x.given = guard[g].given /\ (guard[g].expected # Empty => x.expected = guard[g].expected),
           x.expected # Empty =>
               /\ WellFormed(x.given)
               /\ \E r \in Replacements : ReplacementsFit(x.given, r) /\ x.expected = With(x.given.source, x.given.segments, r),
           outgoing' = outgoing \/ \E h \in Guards, y \in Requests : /\ outgoing' = [outgoing EXCEPT ![h] = y]
                                                                     /\ guard'[h] # NoGuard /\ guard'[h].expected = y,
           sent' = sent \/ (x.expected \in Requests /\ sent' = Append(sent, [guard |-> g, object |-> x.expected]))
    PROVE  PrInv'
<1>1. /\ guard \in [Guards -> {NoGuard} \cup PrGuards] /\ outgoing \in [Guards -> {Empty} \cup Requests]
      /\ sent \in Seq([guard : Guards, object : Requests])
      /\ \A h \in Guards : PrExpects(h) /\ PrOut(h)
      /\ \A n \in 1 .. Len(sent) : PrSentOut(n)
  BY DEF PrInv, PrTyped
<1>2. guard'[g] = x /\ x # NoGuard /\ \A h \in Guards : h # g => guard'[h] = guard[h]
  BY <1>1, PrKinds
<1>3. \A h \in Guards : guard[h] # NoGuard /\ guard[h].expected # Empty =>
                          guard'[h] # NoGuard /\ guard'[h].expected = guard[h].expected
  BY <1>2
<1>4. PrTyped'
  <2>1. guard' \in [Guards -> {NoGuard} \cup PrGuards]
    BY <1>1
  <2>2. outgoing' \in [Guards -> {Empty} \cup Requests]
    BY <1>1
  <2>3. sent' \in Seq([guard : Guards, object : Requests])
    <3> DEFINE S == [guard : Guards, object : Requests]
    <3>1. x.expected \in Requests => [guard |-> g, object |-> x.expected] \in S
      OBVIOUS
    <3> HIDE DEF S
    <3>2. sent \in Seq(S)
      BY <1>1 DEF S
    <3>3. sent' \in Seq(S)
      BY <3>1, <3>2
    <3> QED
      BY <3>3 DEF S
  <2> QED
    BY <2>1, <2>2, <2>3 DEF PrTyped
<1>5. ASSUME NEW h \in Guards PROVE PrExpects(h)'
  <2>1. CASE h = g
    BY <1>2, <2>1 DEF PrExpects
  <2>2. CASE h # g
    BY <1>1, <1>2, <2>2 DEF PrExpects
  <2> QED
    BY <2>1, <2>2
<1>6. ASSUME NEW h \in Guards PROVE PrOut(h)'
  <2>1. CASE outgoing'[h] = outgoing[h]
    <3>1. outgoing[h] # Empty => guard[h] # NoGuard /\ guard[h].expected # Empty /\ outgoing[h] = guard[h].expected
      BY <1>1 DEF PrOut
    <3> QED
      BY <1>3, <2>1, <3>1 DEF PrOut
  <2>2. CASE outgoing'[h] # outgoing[h]
    <3>1. guard'[h] # NoGuard /\ guard'[h].expected = outgoing'[h]
      BY <1>1, <2>2
    <3> QED
      BY <3>1 DEF PrOut
  <2> QED
    BY <2>1, <2>2
<1>7. ASSUME NEW n \in 1 .. Len(sent') PROVE PrSentOut(n)'
  <2> DEFINE S == [guard : Guards, object : Requests]
  <2>1. sent \in Seq(S) /\ (x.expected \in Requests => [guard |-> g, object |-> x.expected] \in S)
    BY <1>1
  <2>2. \A e \in S : e.guard \in Guards
    OBVIOUS
  <2> HIDE DEF S
  <2>3. CASE n \in 1 .. Len(sent)
    <3>1. sent'[n] = sent[n] /\ sent[n] \in S
      BY <2>1, <2>3
    <3>2. PrSentOut(n)
      BY <1>1, <2>3
    <3> QED
      BY <1>3, <2>2, <3>1, <3>2 DEF PrSentOut
  <2>4. CASE n \notin 1 .. Len(sent)
    <3>1. x.expected \in Requests /\ sent'[n] = [guard |-> g, object |-> x.expected]
      BY <2>1, <2>4, <1>7
    <3>2. x.expected # Empty
      BY <3>1, PrKinds
    <3> QED
      BY <1>2, <3>1, <3>2 DEF PrSentOut
  <2> QED
    BY <2>3, <2>4
<1> QED
  BY <1>4, <1>5, <1>6, <1>7 DEF PrInv

LEMMA PrNextInv == PrInv /\ [PrNext]_prVars => PrInv'
<1> SUFFICES ASSUME PrInv, [PrNext]_prVars PROVE PrInv'
  OBVIOUS
<1>0. /\ guard \in [Guards -> {NoGuard} \cup PrGuards] /\ outgoing \in [Guards -> {Empty} \cup Requests]
      /\ sent \in Seq([guard : Guards, object : Requests])
      /\ \A h \in Guards : PrExpects(h) /\ PrOut(h)
      /\ \A n \in 1 .. Len(sent) : PrSentOut(n)
  BY DEF PrInv, PrTyped
<1>u. \A x \in PrGuards : /\ x.given \in GivenRequests /\ x.fails \in BOOLEAN /\ x.expected \in {Empty} \cup Requests
                          /\ [x EXCEPT !.fails = TRUE] \in PrGuards /\ [x EXCEPT !.fails = TRUE].fails
                          /\ [x EXCEPT !.fails = TRUE].given = x.given /\ [x EXCEPT !.fails = TRUE].expected = x.expected
  BY DEF PrGuards
<1>v. ASSUME NEW x \in PrGuards, NEW y \in Requests
      PROVE  /\ [x EXCEPT !.expected = y] \in PrGuards /\ [x EXCEPT !.expected = y].expected = y
             /\ [x EXCEPT !.expected = y].given = x.given /\ [x EXCEPT !.expected = y].fails = x.fails
  <2> DEFINE R == {Empty} \cup Requests
  <2>1. y \in R
    OBVIOUS
  <2> HIDE DEF R
  <2>2. PrGuards = [given : GivenRequests, fails : BOOLEAN, expected : R]
    BY DEF R, PrGuards
  <2> QED
    BY <2>1, <2>2
<1>b. ASSUME NEW g \in Guards, guard[g] # NoGuard, guard' = Broken(g),
             outgoing' = outgoing, sent' = sent
      PROVE  PrInv'
  <2> DEFINE x == [guard[g] EXCEPT !.fails = TRUE]
  <2>1. guard[g] \in PrGuards /\ guard' = [guard EXCEPT ![g] = x]
    BY <1>0, <1>b DEF Broken
  <2>2. x \in PrGuards /\ x.given = guard[g].given /\ x.expected = guard[g].expected /\ x.fails
    BY <1>u, <2>1
  <2>3. PrExpects(g)
    BY <1>0
  <2> HIDE DEF x
  <2>4. x.expected # Empty =>
            /\ WellFormed(x.given)
            /\ \E r \in Replacements : ReplacementsFit(x.given, r) /\ x.expected = With(x.given.source, x.given.segments, r)
    BY <1>b, <2>2, <2>3 DEF PrExpects
  <2> QED
    BY <1>b, <2>1, <2>2, <2>4, PrOneGuard
<1>s. ASSUME guard' = guard, outgoing' = outgoing, sent' = sent PROVE PrInv'
  BY <1>s DEF PrInv, PrTyped, PrExpects, PrOut, PrSentOut
<1>1. ASSUME NEW g \in Guards, NEW given \in GivenRequests, PrConstruct(g, given) PROVE PrInv'
  <2>1. guard[g] = NoGuard /\ guard' = [guard EXCEPT ![g] = MadeGuard(given)] /\ outgoing' = outgoing /\ sent' = sent
    BY <1>1 DEF PrConstruct
  <2>2. <<>> \in Replacements
    <3>1. 0 \in 0 .. TextsLimit /\ <<>> \in [1 .. 0 -> Texts]
      BY PrAssumption
    <3> QED
      BY <3>1 DEF Replacements
  <2>3. MadeGuard(given) \in PrGuards /\ MadeGuard(given).given = given
        /\ MadeGuard(given).fails = ~WellFormed(given) /\ MadeGuard(given).expected = Empty
    BY <2>2, PrMade
  <2> QED
    BY <2>1, <2>3, PrOneGuard
<1>2. ASSUME NEW g \in Guards, NEW r \in Replacements, PrPrepare(g, r) PROVE PrInv'
  <2>1. guard[g] \in PrGuards /\ ~guard[g].fails /\ outgoing' = outgoing /\ sent' = sent /\ guard[g] # NoGuard
    BY <1>0, <1>2 DEF PrPrepare, Usable
  <2>2. CASE guard[g].expected = Empty /\ ReplacementsFit(guard[g].given, r)
    <3> DEFINE made == With(guard[g].given.source, guard[g].given.segments, r)
               x == [guard[g] EXCEPT !.expected = made]
    <3>1. guard' = [guard EXCEPT ![g] = x]
      BY <1>2, <2>2 DEF PrPrepare
    <3>2. WellFormed(guard[g].given) /\ guard[g].given \in GivenRequests
      BY <1>0, <1>u, <2>1 DEF PrExpects
    <3>3. made \in Requests
      BY <2>2, <3>2, PrMade
    <3> HIDE DEF made
    <3>4. x \in PrGuards /\ x.given = guard[g].given /\ x.expected = made /\ x.fails = guard[g].fails
      BY <1>v, <2>1, <3>3
    <3> USE DEF made
    <3>5. \E q \in Replacements : ReplacementsFit(guard[g].given, q) /\ made = With(guard[g].given.source, guard[g].given.segments, q)
      BY <2>2
    <3> HIDE DEF made, x
    <3> QED
      BY <2>1, <2>2, <3>1, <3>2, <3>4, <3>5, PrOneGuard
  <2>3. CASE ~(guard[g].expected = Empty /\ ReplacementsFit(guard[g].given, r))
    <3>1. guard' = Broken(g)
      BY <1>2, <2>3 DEF PrPrepare
    <3> QED
      BY <1>b, <2>1, <3>1
  <2> QED
    BY <2>2, <2>3
<1>3. ASSUME NEW g \in Guards, PrVerify(g) PROVE PrInv'
  <2>1. guard[g] # NoGuard /\ outgoing' = outgoing /\ sent' = sent /\ (guard' = guard \/ guard' = Broken(g))
    BY <1>3 DEF PrVerify, Usable
  <2> QED
    BY <1>b, <1>s, <2>1
<1>4. ASSUME NEW g \in Guards, PrForward(g) PROVE PrInv'
  <2>1. guard[g] # NoGuard /\ guard[g] \in PrGuards /\ sent' = sent
    BY <1>0, <1>4 DEF PrForward
  <2>2. CASE Usable(g) /\ Verified(g, payload[g])
    <3>1. guard' = guard /\ outgoing' = [outgoing EXCEPT ![g] = payload[g]]
      BY <1>4, <2>2 DEF PrForward
    <3>2. guard[g].expected # Empty /\ payload[g] = guard[g].expected /\ guard[g].expected \in Requests
      BY <1>u, <2>1, <2>2 DEF Verified
    <3>3. guard' = [guard EXCEPT ![g] = guard[g]]
      BY <1>0, <3>1
    <3>4. PrExpects(g)
      BY <1>0
    <3>5. outgoing' = [outgoing EXCEPT ![g] = guard[g].expected] /\ guard'[g] = guard[g]
      BY <3>1, <3>2
    <3> QED
      BY <2>1, <3>2, <3>3, <3>4, <3>5, PrOneGuard DEF PrExpects
  <2>3. CASE ~(Usable(g) /\ Verified(g, payload[g]))
    <3>1. guard' = Broken(g) /\ outgoing' = outgoing
      BY <1>4, <2>3 DEF PrForward
    <3> QED
      BY <1>b, <2>1, <3>1
  <2> QED
    BY <2>2, <2>3
<1>5. ASSUME NEW g \in Guards, PrSend(g) PROVE PrInv'
  <2>1. /\ outgoing[g] # Empty /\ guard' = guard
        /\ sent' = Append(sent, [guard |-> g, object |-> outgoing[g]]) /\ outgoing' = [outgoing EXCEPT ![g] = Empty]
    BY <1>5 DEF PrSend, Handed
  <2>2. outgoing[g] \in Requests /\ guard[g] # NoGuard /\ outgoing[g] = guard[g].expected
    BY <1>0, <2>1 DEF PrOut
  <2> DEFINE S == [guard : Guards, object : Requests]
             e == [guard |-> g, object |-> outgoing[g]]
  <2>3. e \in S /\ sent \in Seq(S) /\ e.guard = g /\ e.object = outgoing[g]
    BY <1>0, <2>2
  <2> HIDE DEF S, e
  <2>4. sent' = Append(sent, e)
    BY <2>1 DEF e
  <2>5. sent' \in Seq(S)
    BY <2>3, <2>4
  <2>6. PrTyped'
    BY <1>0, <2>1, <2>5 DEF PrTyped, S
  <2>7. ASSUME NEW h \in Guards PROVE PrExpects(h)' /\ PrOut(h)'
    <3>1. PrExpects(h) /\ PrOut(h) /\ (outgoing'[h] = outgoing[h] \/ outgoing'[h] = Empty)
      BY <1>0, <2>1
    <3> QED
      BY <2>1, <3>1 DEF PrExpects, PrOut
  <2>8. ASSUME NEW n \in 1 .. Len(sent') PROVE PrSentOut(n)'
    <3>1. CASE n \in 1 .. Len(sent)
      <4>1. sent'[n] = sent[n] /\ PrSentOut(n)
        BY <1>0, <2>3, <2>4, <3>1
      <4> QED
        BY <2>1, <4>1 DEF PrSentOut
    <3>2. CASE n \notin 1 .. Len(sent)
      <4>1. sent'[n] = e
        BY <2>3, <2>4, <2>8, <3>2
      <4> QED
        BY <2>1, <2>2, <2>3, <4>1 DEF PrSentOut
    <3> QED
      BY <3>1, <3>2
  <2> QED
    BY <2>6, <2>7, <2>8 DEF PrInv
<1>6. ASSUME NEW g \in Guards, NEW object \in Objects, PrChange(g, object) PROVE PrInv'
  <2>1. guard' = guard /\ outgoing' = outgoing /\ sent' = sent
    BY <1>6 DEF PrChange
  <2> QED
    BY <1>s, <2>1
<1>7. ASSUME NEW g \in Guards, NEW given \in GivenRequests, NEW r \in Replacements, NEW raises \in BOOLEAN,
             PrTransform(g, given, r, raises)
      PROVE  PrInv'
  <2> DEFINE made == MadeGuard(given)
             whole == With(given.source, given.segments, r)
             x == [made EXCEPT !.expected = whole]
  <2>1. made \in PrGuards /\ made.given = given /\ made.fails = ~WellFormed(given) /\ made.expected = Empty
    BY PrMade
  <2>2. guard[g] = NoGuard /\ outgoing' = outgoing
    BY <1>7 DEF PrTransform
  <2>3. CASE ~made.fails /\ ~raises
    <3>1. /\ ReplacementsFit(given, r) /\ guard' = [guard EXCEPT ![g] = x]
          /\ sent' = Append(sent, [guard |-> g, object |-> whole])
      BY <1>7, <2>3 DEF PrTransform
    <3>2. WellFormed(given) /\ whole \in Requests
      BY <2>1, <2>3, <3>1, PrMade
    <3> HIDE DEF made, whole
    <3>3. x \in PrGuards /\ x.given = given /\ x.expected = whole /\ x.fails = made.fails
      BY <1>v, <2>1, <3>2
    <3>4. \E q \in Replacements : ReplacementsFit(given, q) /\ whole = With(given.source, given.segments, q)
      BY <3>1 DEF whole
    <3> HIDE DEF made, whole, x
    <3> QED
      BY <2>2, <3>1, <3>2, <3>3, <3>4, PrOneGuard
  <2>4. CASE ~(~made.fails /\ ~raises)
    <3>1. guard' = [guard EXCEPT ![g] = made] /\ sent' = sent
      BY <1>7, <2>4 DEF PrTransform
    <3> HIDE DEF made
    <3> QED
      BY <2>1, <2>2, <3>1, PrOneGuard
  <2> QED
    BY <2>3, <2>4
<1>8. CASE UNCHANGED prVars
  BY <1>s, <1>8 DEF prVars
<1> QED
  BY <1>1, <1>2, <1>3, <1>4, <1>5, <1>6, <1>7, <1>8 DEF PrNext

LEMMA PrHolds == PrInv => PrOnlyApprovedEdits
<1> SUFFICES ASSUME PrInv PROVE PrOnlyApprovedEdits
  OBVIOUS
<1>0. /\ guard \in [Guards -> {NoGuard} \cup PrGuards]
      /\ sent \in Seq([guard : Guards, object : Requests])
      /\ \A h \in Guards : PrExpects(h)
      /\ \A n \in 1 .. Len(sent) : PrSentOut(n)
  BY DEF PrInv, PrTyped
<1>1. ASSUME NEW n \in 1 .. Len(sent)
      PROVE  sent[n].guard \in Guards
  <2> DEFINE S == [guard : Guards, object : Requests]
  <2>1. sent \in Seq(S)
    BY <1>0
  <2>2. \A e \in S : e.guard \in Guards
    OBVIOUS
  <2> HIDE DEF S
  <2> QED
    BY <2>1, <2>2
<1>2. ASSUME NEW n \in 1 .. Len(sent)
      PROVE  LET given == guard[sent[n].guard].given
                 object == sent[n].object
                 segments == given.segments
             IN  /\ \E r \in Replacements : ReplacementsFit(given, r) /\ object = With(given.frozen, segments, r)
                 /\ object.settings = given.frozen.settings
                 /\ \A k \in DOMAIN given.frozen.messages :
                     LET before == given.frozen.messages[k]
                         after == object.messages[k]
                     IN  /\ after.role = before.role
                         /\ (k = 1 \/ before.role # "user") => after = before
                         /\ \A i \in Of(segments, k) \ CandidatesOf(segments) :
                             /\ (\A j \in Of(segments, k) : i <= j) => IsPrefix(segments[i].text, after.content)
                             /\ (\A j \in Of(segments, k) : j <= i) => IsSuffix(segments[i].text, after.content)
  <2> DEFINE g == sent[n].guard
             given == guard[g].given
  <2>1. g \in Guards /\ guard[g] # NoGuard /\ guard[g].expected # Empty /\ sent[n].object = guard[g].expected
    BY <1>0, <1>1 DEF PrSentOut
  <2>2. guard[g] \in PrGuards
    BY <1>0, <2>1
  <2>3. given \in FrozenRequests
    BY <2>2, PrAssumption DEF PrGuards
  <2>4. WellFormed(given) /\ \E r \in Replacements : ReplacementsFit(given, r) /\ sent[n].object = With(given.source, given.segments, r)
    BY <1>0, <2>1 DEF PrExpects
  <2>5. PICK r \in Replacements : ReplacementsFit(given, r) /\ sent[n].object = With(given.source, given.segments, r)
    BY <2>4
  <2> HIDE DEF given
  <2>6. given.frozen = given.source
    BY <2>4 DEF WellFormed
  <2>7. PrFits(given, r)
    BY <2>3, <2>5, PrTexts, PrEnough
  <2>8. LET object == sent[n].object
            segments == given.segments
        IN  /\ object.settings = given.frozen.settings
            /\ \A k \in DOMAIN given.frozen.messages :
                 LET before == given.frozen.messages[k]
                     after == object.messages[k]
                 IN  /\ after.role = before.role
                     /\ (k = 1 \/ before.role # "user") => after = before
                     /\ \A i \in Of(segments, k) \ CandidatesOf(segments) :
                         /\ (\A j \in Of(segments, k) : i <= j) => IsPrefix(segments[i].text, after.content)
                         /\ (\A j \in Of(segments, k) : j <= i) => IsSuffix(segments[i].text, after.content)
    BY <2>3, <2>4, <2>5, <2>7, PrApproved
  <2>9. \E q \in Replacements : ReplacementsFit(given, q) /\ sent[n].object = With(given.frozen, given.segments, q)
    BY <2>5, <2>6
  <2> QED
    BY <2>8, <2>9 DEF given
<1>3. ASSUME NEW m \in 1 .. Len(sent), NEW n \in 1 .. Len(sent), sent[m].guard = sent[n].guard
      PROVE  sent[m].object = sent[n].object
  BY <1>0, <1>3 DEF PrSentOut
<1> QED
  BY <1>2, <1>3 DEF PrOnlyApprovedEdits

\* The records that the run can have written.
StRecords ==
    {RequestRecord(StManifest[i], r, With(StManifest[i].source, StManifest[i].segments, r)) :
        i \in 1 .. Len(StManifest), r \in Replacements}
StSummaries == {NoSummary} \cup {Aggregate(q) : q \in Seq(StRecords)}
StPhases == {"start", "writes", "refused", "summarized", "over"}
StTyped ==
    /\ static \in [phase : StPhases, compressor : {"none", "squeez"}, seen : Seq(Replacements)]
    /\ measured \in [originals : Seq(Requests), transformed : Seq(Requests), replacements : Seq(Replacements),
                     records : Seq(StRecords), summary : StSummaries, ends : {"nothing", "completed", "failure"}]
    /\ touched \in BOOLEAN

\* The files of a request are there together, a record after them.
StCounts ==
    LET n == Len(static.seen)
    IN  /\ Len(measured.originals) = n /\ Len(measured.transformed) = n /\ Len(measured.replacements) = n
        /\ n <= Len(StManifest) /\ Len(measured.records) <= n

\* What the compressor returned is in two files, of which one may be changed.
StRecorded == \A i \in 1 .. Len(measured.records) : measured.records[i].replacements = static.seen[i]
StTwice ==
    /\ measured.replacements = static.seen \/ StRecorded
    /\ ~touched => measured.replacements = static.seen /\ StRecorded
StChecked == static.phase \in {"writes", "summarized"} \/ measured.ends = "completed" => InputsUsable
StInv == StTyped /\ StCounts /\ StTwice /\ StChecked

LEMMA StGiven ==
    ASSUME InputsUsable, NEW i \in 1 .. Len(StManifest)
    PROVE  StManifest[i] \in FrozenRequests /\ WellFormed(StManifest[i])
<1>1. StManifest \in Seq(FrozenRequests)
  BY StAssumption
<1>2. \A n \in 1 .. Len(StManifest) : WellFormed(StManifest[n])
  BY DEF InputsUsable
<1> QED
  BY <1>1, <1>2

\* A record keeps the texts it is about.
LEMMA StRecordIs ==
    ASSUME NEW given, NEW r, NEW object
    PROVE  /\ RequestRecord(given, r, object).replacements = r
           /\ RequestRecord(given, r, object).before = LengthOf(given.source)
           /\ RequestRecord(given, r, object).after = LengthOf(object)
<1> DEFINE deleted == LengthOf(With(given.source, given.segments, [n \in DOMAIN r |-> <<>>]))
           a == LengthOf(object)
           b == LengthOf(given.source)
<1>1. RequestRecord(given, r, object) = [before |-> b, after |-> a, deleted |-> deleted, replacements |-> r]
  BY DEF RequestRecord
<1> HIDE DEF deleted, a, b
<1>2. /\ [before |-> b, after |-> a, deleted |-> deleted, replacements |-> r].replacements = r
      /\ [before |-> b, after |-> a, deleted |-> deleted, replacements |-> r].before = b
      /\ [before |-> b, after |-> a, deleted |-> deleted, replacements |-> r].after = a
  OBVIOUS
<1> QED
  BY <1>1, <1>2 DEF a, b

LEMMA StInitInv == StInit => StInv
<1> SUFFICES ASSUME StInit PROVE StInv
  OBVIOUS
<1>1. /\ static.phase = "start" /\ static.seen = <<>>
      /\ static \in [phase : {"start"}, compressor : {"none", "squeez"}, seen : {<<>>}]
  BY DEF StInit
<1>2. measured = [originals |-> <<>>, transformed |-> <<>>, replacements |-> <<>>, records |-> <<>>,
                  summary |-> NoSummary, ends |-> "nothing"]
  BY DEF StInit
<1>3. measured.originals = <<>> /\ measured.transformed = <<>> /\ measured.replacements = <<>> /\ measured.records = <<>>
      /\ measured.ends = "nothing"
  BY <1>2
<1>4. StTyped
  <2>1. static \in [phase : StPhases, compressor : {"none", "squeez"}, seen : Seq(Replacements)]
    <3> DEFINE T == Seq(Replacements)
    <3>1. <<>> \in T
      OBVIOUS
    <3> HIDE DEF T
    <3>2. static \in [phase : StPhases, compressor : {"none", "squeez"}, seen : T]
      BY <1>1, <3>1 DEF StPhases
    <3> QED
      BY <3>2 DEF T
  <2>2. measured \in [originals : Seq(Requests), transformed : Seq(Requests), replacements : Seq(Replacements),
                      records : Seq(StRecords), summary : StSummaries, ends : {"nothing", "completed", "failure"}]
    <3>1. NoSummary \in StSummaries
      BY DEF StSummaries
    <3> QED
      BY <1>2, <3>1
  <2> QED
    BY <2>1, <2>2 DEF StTyped, StInit
<1>5. StCounts
  <2>1. Len(StManifest) \in Nat
    BY StAssumption
  <2> QED
    BY <1>1, <1>3, <2>1 DEF StCounts
<1>6. StTwice
  BY <1>1, <1>3 DEF StTwice, StRecorded
<1>7. StChecked
  BY <1>1, <1>3 DEF StChecked
<1> QED
  BY <1>4, <1>5, <1>6, <1>7 DEF StInv

LEMMA StNextInv == StInv /\ [StNext]_stVars => StInv'
<1> SUFFICES ASSUME StInv, [StNext]_stVars PROVE StInv'
  OBVIOUS
<1> DEFINE Runs == [phase : StPhases, compressor : {"none", "squeez"}, seen : Seq(Replacements)]
           Files == [originals : Seq(Requests), transformed : Seq(Requests), replacements : Seq(Replacements),
                     records : Seq(StRecords), summary : StSummaries, ends : {"nothing", "completed", "failure"}]
<1>0. static \in Runs /\ measured \in Files /\ touched \in BOOLEAN /\ Len(StManifest) \in Nat
  BY StAssumption DEF StInv, StTyped
<1>t. /\ static.phase \in StPhases /\ static.seen \in Seq(Replacements)
      /\ measured.originals \in Seq(Requests) /\ measured.transformed \in Seq(Requests)
      /\ measured.replacements \in Seq(Replacements) /\ measured.records \in Seq(StRecords)
      /\ measured.summary \in StSummaries /\ measured.ends \in {"nothing", "completed", "failure"}
  BY <1>0
<1>i. StCounts /\ StTwice /\ StChecked
  BY DEF StInv
<1>1. CASE StStart
  <2>1. /\ static' = [static EXCEPT !.phase = IF InputsUsable THEN "writes" ELSE "refused"]
        /\ measured' = measured /\ touched' = touched
    BY <1>1 DEF StStart, StMoves
  <2>2. static' \in Runs /\ static'.seen = static.seen /\ (static'.phase \in {"writes", "summarized"} => InputsUsable)
    BY <1>0, <2>1 DEF StPhases
  <2>3. StTyped'
    BY <1>0, <2>1, <2>2 DEF StTyped
  <2>4. StCounts' /\ StTwice' /\ StChecked'
    BY <1>i, <2>1, <2>2 DEF StCounts, StTwice, StRecorded, StChecked
  <2> QED
    BY <2>3, <2>4 DEF StInv
<1>2. ASSUME NEW r \in Replacements, StTransform(r) PROVE StInv'
  <2> DEFINE i == Len(measured.originals) + 1
             given == StManifest[i]
             whole == With(given.source, given.segments, r)
  <2>1. /\ static.phase = "writes" /\ i <= Len(StManifest) /\ Len(measured.records) = i - 1
        /\ ReplacementsFit(given, r) /\ touched' = touched
        /\ static' = [static EXCEPT !.seen = Append(static.seen, r)]
        /\ measured' = [measured EXCEPT
                !.originals = Append(measured.originals, given.source),
                !.transformed = Append(measured.transformed, whole),
                !.replacements = Append(measured.replacements, r)]
    BY <1>2 DEF StTransform
  <2>2. InputsUsable /\ i \in 1 .. Len(StManifest)
    BY <1>0, <1>t, <1>i, <2>1 DEF StChecked
  <2>3. given \in FrozenRequests /\ WellFormed(given)
    BY <2>2, StGiven
  <2>4. given.source \in Requests
    BY <2>3 DEF FrozenRequests
  <2>5. whole \in Requests
    BY <2>1, <2>3, PrTexts, PrEnough, PrWithTyped
  <2>6. Len(measured.originals) = Len(static.seen) /\ i = Len(static.seen) + 1
    BY <1>i DEF StCounts
  <2> HIDE DEF i, given, whole, Runs, Files
  <2>7. static' \in Runs /\ static'.seen = Append(static.seen, r) /\ static'.phase = static.phase
    <3> DEFINE q == Append(static.seen, r)
    <3>1. q \in Seq(Replacements)
      BY <1>t
    <3> HIDE DEF q
    <3>2. static' = [static EXCEPT !.seen = q]
      BY <2>1 DEF q
    <3>3. static' \in Runs /\ static'.seen = q /\ static'.phase = static.phase
      BY <1>0, <3>1, <3>2 DEF Runs
    <3> QED
      BY <3>3 DEF q
  <2>8. /\ measured' \in Files /\ measured'.records = measured.records /\ measured'.ends = measured.ends
        /\ measured'.originals = Append(measured.originals, given.source)
        /\ measured'.transformed = Append(measured.transformed, whole)
        /\ measured'.replacements = Append(measured.replacements, r)
    <3> DEFINE o == Append(measured.originals, given.source)
               t == Append(measured.transformed, whole)
               q == Append(measured.replacements, r)
    <3>1. o \in Seq(Requests) /\ t \in Seq(Requests) /\ q \in Seq(Replacements)
      BY <1>t, <2>4, <2>5
    <3> HIDE DEF o, t, q
    <3>2. measured' = [measured EXCEPT !.originals = o, !.transformed = t, !.replacements = q]
      BY <2>1 DEF o, t, q
    <3>3. measured' \in Files /\ measured'.records = measured.records /\ measured'.ends = measured.ends
          /\ measured'.originals = o /\ measured'.transformed = t /\ measured'.replacements = q
      BY <1>0, <3>1, <3>2 DEF Files
    <3> QED
      BY <3>3 DEF o, t, q
  <2>9. StTyped'
    BY <1>0, <2>1, <2>7, <2>8 DEF StTyped, Runs, Files
  <2>10. /\ Len(static'.seen) = Len(static.seen) + 1 /\ Len(measured'.originals) = Len(measured.originals) + 1
         /\ Len(measured'.transformed) = Len(measured.transformed) + 1
         /\ Len(measured'.replacements) = Len(measured.replacements) + 1
         /\ \A k \in 1 .. Len(static.seen) : static'.seen[k] = static.seen[k]
    <3>1. Len(Append(static.seen, r)) = Len(static.seen) + 1 /\ \A k \in 1 .. Len(static.seen) : Append(static.seen, r)[k] = static.seen[k]
      BY <1>t
    <3>2. Len(Append(measured.originals, given.source)) = Len(measured.originals) + 1
      BY <1>t, <2>4
    <3>3. Len(Append(measured.transformed, whole)) = Len(measured.transformed) + 1
      BY <1>t, <2>5
    <3>4. Len(Append(measured.replacements, r)) = Len(measured.replacements) + 1
      BY <1>t
    <3> QED
      BY <2>7, <2>8, <3>1, <3>2, <3>3, <3>4
  <2>11. StCounts'
    <3>1. Len(static.seen) \in Nat /\ Len(measured.records) \in Nat /\ Len(measured.records) <= Len(static.seen)
      BY <1>t, <1>i DEF StCounts
    <3> QED
      BY <1>i, <2>1, <2>6, <2>8, <2>10, <3>1 DEF StCounts
  <2>12. StRecorded => StRecorded'
    <3>1. \A k \in 1 .. Len(measured.records) : k \in 1 .. Len(static.seen)
      BY <1>t, <1>i DEF StCounts
    <3> QED
      BY <2>8, <2>10, <3>1 DEF StRecorded
  <2>13. StTwice'
    <3>1. measured.replacements = static.seen => measured'.replacements = static'.seen
      BY <2>7, <2>8
    <3> QED
      BY <1>i, <2>1, <2>12, <3>1 DEF StTwice
  <2>14. StChecked'
    BY <2>2 DEF StChecked
  <2> QED
    BY <2>9, <2>11, <2>13, <2>14 DEF StInv
<1>3. CASE StRecord
  <2> DEFINE i == Len(measured.originals)
             written == RequestRecord(StManifest[i], static.seen[i],
                                     With(StManifest[i].source, StManifest[i].segments, static.seen[i]))
  <2>1. /\ Len(measured.records) = i - 1 /\ static' = static /\ touched' = touched
        /\ measured' = [measured EXCEPT !.records = Append(measured.records, written)]
    BY <1>3 DEF StRecord
  <2>2. i = Len(static.seen) /\ i \in Nat /\ i \in 1 .. Len(StManifest) /\ i \in 1 .. Len(static.seen) /\ static.seen[i] \in Replacements
    <3>1. i = Len(static.seen) /\ i <= Len(StManifest) /\ i \in Nat /\ Len(measured.records) \in Nat
      BY <1>t, <1>i DEF StCounts
    <3>2. i \in 1 .. Len(static.seen)
      BY <2>1, <3>1
    <3> QED
      BY <1>0, <1>t, <3>1, <3>2
  <2>3. written \in StRecords
    BY <2>2 DEF StRecords
  <2>4. written.replacements = static.seen[i]
    BY StRecordIs
  <2> HIDE DEF i, written, Runs, Files
  <2> DEFINE records == Append(measured.records, written)
  <2>5. records \in Seq(StRecords) /\ Len(records) = i /\ records[i] = written
        /\ \A k \in 1 .. Len(measured.records) : records[k] = measured.records[k]
    BY <1>t, <2>1, <2>2, <2>3
  <2>6. measured' = [measured EXCEPT !.records = records]
    BY <2>1
  <2> HIDE DEF records
  <2>7. /\ measured' \in Files /\ measured'.records = records /\ measured'.ends = measured.ends
        /\ measured'.originals = measured.originals /\ measured'.transformed = measured.transformed
        /\ measured'.replacements = measured.replacements
    BY <1>0, <2>5, <2>6 DEF Files
  <2>8. StTyped'
    BY <1>0, <2>1, <2>7 DEF StTyped, Runs, Files
  <2>9. StCounts'
    BY <1>i, <2>1, <2>2, <2>5, <2>7 DEF StCounts
  <2>10. StRecorded => StRecorded'
    <3>1. ASSUME StRecorded, NEW k \in 1 .. Len(records) PROVE records[k].replacements = static.seen[k]
      <4>1. CASE k = i
        BY <2>4, <2>5, <4>1
      <4>2. CASE k # i
        <5>1. k \in 1 .. Len(measured.records)
          BY <2>1, <2>2, <2>5, <4>2
        <5> QED
          BY <2>5, <3>1, <5>1 DEF StRecorded
      <4> QED
        BY <4>1, <4>2
    <3> QED
      BY <2>1, <2>7, <3>1 DEF StRecorded
  <2>11. StTwice' /\ StChecked'
    BY <1>i, <2>1, <2>7, <2>10 DEF StTwice, StChecked
  <2> QED
    BY <2>8, <2>9, <2>11 DEF StInv
<1>k. ASSUME static'.seen = static.seen, static' \in Runs, measured' \in Files, touched' = touched,
             measured'.originals = measured.originals, measured'.transformed = measured.transformed,
             measured'.replacements = measured.replacements, measured'.records = measured.records,
             StChecked'
      PROVE  StInv'
  <2>1. StTyped'
    BY <1>0, <1>k DEF StTyped
  <2>2. StCounts' /\ StTwice'
    BY <1>i, <1>k DEF StCounts, StTwice, StRecorded
  <2> QED
    BY <1>k, <2>1, <2>2 DEF StInv
<1>4. CASE StSummarize
  <2>1. /\ static.phase = "writes" /\ static' = [static EXCEPT !.phase = "summarized"]
        /\ measured' = [measured EXCEPT !.summary = Aggregate(measured.records)] /\ touched' = touched
    BY <1>4 DEF StSummarize, StMoves
  <2>2. Aggregate(measured.records) \in StSummaries
    BY <1>t DEF StSummaries
  <2>3. StChecked'
    BY <1>i, <2>1 DEF StChecked
  <2>4. static' \in Runs /\ static'.seen = static.seen
    BY <1>0, <2>1 DEF StPhases
  <2> HIDE DEF Runs
  <2> DEFINE totals == Aggregate(measured.records)
  <2>5. totals \in StSummaries /\ measured' = [measured EXCEPT !.summary = totals]
    BY <2>1, <2>2
  <2> HIDE DEF totals
  <2>6. /\ measured' \in Files /\ measured'.originals = measured.originals /\ measured'.transformed = measured.transformed
        /\ measured'.replacements = measured.replacements /\ measured'.records = measured.records
    BY <1>0, <2>5
  <2> HIDE DEF Files
  <2> QED
    BY <1>k, <2>1, <2>3, <2>4, <2>6
<1>5. CASE StEnd
  <2>1. /\ static.phase = "summarized" /\ static' = [static EXCEPT !.phase = "over"]
        /\ measured' = [measured EXCEPT !.ends = "completed"] /\ touched' = touched
    BY <1>5 DEF StEnd, StMoves
  <2>2. StChecked'
    BY <1>i, <2>1 DEF StChecked
  <2>3. static' \in Runs /\ static'.seen = static.seen
    BY <1>0, <2>1 DEF StPhases
  <2>4. /\ measured' \in Files /\ measured'.originals = measured.originals /\ measured'.transformed = measured.transformed
        /\ measured'.replacements = measured.replacements /\ measured'.records = measured.records
    BY <1>0, <2>1
  <2> HIDE DEF Runs, Files
  <2> QED
    BY <1>k, <2>1, <2>2, <2>3, <2>4
<1>6. ASSUME NEW left \in {"failure", "nothing"}, StEndsEarly(left) PROVE StInv'
  <2>1. /\ static.phase \in {"writes", "summarized"} /\ static' = [static EXCEPT !.phase = "over"]
        /\ measured' = [measured EXCEPT !.ends = left] /\ touched' = touched
    BY <1>6 DEF StEndsEarly
  <2>2. StChecked'
    BY <1>i, <2>1 DEF StChecked
  <2>3. static' \in Runs /\ static'.seen = static.seen
    BY <1>0, <2>1 DEF StPhases
  <2>4. /\ measured' \in Files /\ measured'.originals = measured.originals /\ measured'.transformed = measured.transformed
        /\ measured'.replacements = measured.replacements /\ measured'.records = measured.records
    BY <1>0, <2>1
  <2> HIDE DEF Runs, Files
  <2> QED
    BY <1>k, <2>1, <2>2, <2>3, <2>4
<1>7. ASSUME NEW i \in 1 .. Len(StManifest), NEW kind \in {"originals", "transformed", "replacements", "records"},
             StChange(i, kind)
      PROVE  StInv'
  <2>1. /\ ~touched /\ touched' /\ static' = static /\ i \in DOMAIN measured[kind]
        /\ \E other \in {measured[kind][j] : j \in DOMAIN measured[kind]}
                        \cup (IF kind = "replacements" THEN Replacements ELSE {}) :
              measured' = [measured EXCEPT ![kind][i] = other]
    BY <1>7 DEF StChange
  <2>2. PICK other \in {measured[kind][j] : j \in DOMAIN measured[kind]}
                       \cup (IF kind = "replacements" THEN Replacements ELSE {}) :
              measured' = [measured EXCEPT ![kind][i] = other]
    BY <2>1
  <2>3. measured.replacements = static.seen /\ StRecorded
    BY <1>i, <2>1 DEF StTwice
  <2>4. CASE kind = "originals"
    <3>1. i \in DOMAIN measured.originals /\ other \in {measured.originals[j] : j \in DOMAIN measured.originals}
      BY <2>1, <2>2, <2>4
    <3>2. [measured.originals EXCEPT ![i] = other] \in Seq(Requests)
          /\ Len([measured.originals EXCEPT ![i] = other]) = Len(measured.originals)
      BY <1>t, <3>1
    <3> DEFINE q == [measured.originals EXCEPT ![i] = other]
    <3>3. measured' = [measured EXCEPT !.originals = q]
      BY <2>2, <2>4
    <3> HIDE DEF q
    <3>4. measured' \in Files /\ measured'.originals = q /\ measured'.transformed = measured.transformed
          /\ measured'.replacements = measured.replacements /\ measured'.records = measured.records
          /\ measured'.ends = measured.ends
      BY <1>0, <3>2, <3>3 DEF q
    <3>5. Len(measured'.originals) = Len(measured.originals)
      BY <3>2, <3>4 DEF q
    <3>6. StTyped'
      BY <1>0, <2>1, <3>4 DEF StTyped
    <3> QED
      BY <1>i, <2>1, <2>3, <3>4, <3>5, <3>6 DEF StInv, StCounts, StTwice, StRecorded, StChecked
  <2>5. CASE kind = "transformed"
    <3>1. i \in DOMAIN measured.transformed /\ other \in {measured.transformed[j] : j \in DOMAIN measured.transformed}
      BY <2>1, <2>2, <2>5
    <3>2. [measured.transformed EXCEPT ![i] = other] \in Seq(Requests)
          /\ Len([measured.transformed EXCEPT ![i] = other]) = Len(measured.transformed)
      BY <1>t, <3>1
    <3> DEFINE q == [measured.transformed EXCEPT ![i] = other]
    <3>3. measured' = [measured EXCEPT !.transformed = q]
      BY <2>2, <2>5
    <3> HIDE DEF q
    <3>4. measured' \in Files /\ measured'.transformed = q /\ measured'.originals = measured.originals
          /\ measured'.replacements = measured.replacements /\ measured'.records = measured.records
          /\ measured'.ends = measured.ends
      BY <1>0, <3>2, <3>3 DEF q
    <3>5. Len(measured'.transformed) = Len(measured.transformed)
      BY <3>2, <3>4 DEF q
    <3>6. StTyped'
      BY <1>0, <2>1, <3>4 DEF StTyped
    <3> QED
      BY <1>i, <2>1, <2>3, <3>4, <3>5, <3>6 DEF StInv, StCounts, StTwice, StRecorded, StChecked
  <2>6. CASE kind = "replacements"
    <3>1. i \in DOMAIN measured.replacements
          /\ other \in {measured.replacements[j] : j \in DOMAIN measured.replacements} \cup Replacements
      BY <2>1, <2>2, <2>6
    <3>2. [measured.replacements EXCEPT ![i] = other] \in Seq(Replacements)
          /\ Len([measured.replacements EXCEPT ![i] = other]) = Len(measured.replacements)
      BY <1>t, <3>1
    <3> DEFINE q == [measured.replacements EXCEPT ![i] = other]
    <3>3. measured' = [measured EXCEPT !.replacements = q]
      BY <2>2, <2>6
    <3> HIDE DEF q
    <3>4. measured' \in Files /\ measured'.replacements = q /\ measured'.originals = measured.originals
          /\ measured'.transformed = measured.transformed /\ measured'.records = measured.records
          /\ measured'.ends = measured.ends
      BY <1>0, <3>2, <3>3 DEF q
    <3>5. Len(measured'.replacements) = Len(measured.replacements)
      BY <3>2, <3>4 DEF q
    <3>6. StTyped'
      BY <1>0, <2>1, <3>4 DEF StTyped
    <3> QED
      BY <1>i, <2>1, <2>3, <3>4, <3>5, <3>6 DEF StInv, StCounts, StTwice, StRecorded, StChecked
  <2>7. CASE kind = "records"
    <3>1. i \in DOMAIN measured.records /\ other \in {measured.records[j] : j \in DOMAIN measured.records}
      BY <2>1, <2>2, <2>7
    <3>2. [measured.records EXCEPT ![i] = other] \in Seq(StRecords)
          /\ Len([measured.records EXCEPT ![i] = other]) = Len(measured.records)
      BY <1>t, <3>1
    <3> DEFINE q == [measured.records EXCEPT ![i] = other]
    <3>3. measured' = [measured EXCEPT !.records = q]
      BY <2>2, <2>7
    <3> HIDE DEF q
    <3>4. measured' \in Files /\ measured'.records = q /\ measured'.originals = measured.originals
          /\ measured'.transformed = measured.transformed /\ measured'.replacements = measured.replacements
          /\ measured'.ends = measured.ends
      BY <1>0, <3>2, <3>3 DEF q
    <3>5. Len(measured'.records) = Len(measured.records)
      BY <3>2, <3>4 DEF q
    <3>6. StTyped'
      BY <1>0, <2>1, <3>4 DEF StTyped
    <3> QED
      BY <1>i, <2>1, <2>3, <3>4, <3>5, <3>6 DEF StInv, StCounts, StTwice, StChecked
  <2> QED
    BY <2>4, <2>5, <2>6, <2>7
<1>8. CASE UNCHANGED stVars
  BY <1>8 DEF stVars, StInv, StTyped, StCounts, StTwice, StRecorded, StChecked
<1> QED
  BY <1>1, <1>2, <1>3, <1>4, <1>5, <1>6, <1>7, <1>8 DEF StNext

LEMMA StHolds == StInv => StVerifiedIsWhole
<1> SUFFICES ASSUME StInv, StAccepts
             PROVE  /\ measured.replacements = static.seen
                    /\ \A i \in 1 .. Len(StManifest) :
                        /\ measured.originals[i] = StManifest[i].frozen
                        /\ measured.transformed[i] = With(StManifest[i].frozen, StManifest[i].segments, static.seen[i])
                    /\ measured.summary.before = StExpected
                    /\ measured.summary.after = SumOfField(measured.transformed, LengthOf)
                    /\ static.compressor = "none" => measured.summary.after = StExpected
  BY DEF StVerifiedIsWhole
<1> DEFINE n == Len(StManifest)
<1>1. /\ static.seen \in Seq(Replacements) /\ measured.replacements \in Seq(Replacements)
      /\ measured.records \in Seq(StRecords) /\ measured.transformed \in Seq(Requests)
  BY DEF StInv, StTyped
<1>2. /\ measured.ends = "completed" /\ Len(measured.records) = n
      /\ \A i \in 1 .. n : Reproduced(i)
      /\ measured.summary = Aggregate(measured.records)
  BY DEF StAccepts
<1>3. n \in Nat /\ DOMAIN StManifest = 1 .. n /\ \A i \in 1 .. n : StManifest[i] \in FrozenRequests
  BY StAssumption
<1>4. Len(static.seen) = n /\ Len(measured.replacements) = n /\ Len(measured.transformed) = n
  <2>1. Len(static.seen) \in Nat /\ Len(static.seen) <= n /\ n <= Len(static.seen)
    BY <1>1, <1>2 DEF StInv, StCounts
  <2>2. Len(static.seen) = n
    BY <1>3, <2>1
  <2> QED
    BY <2>2 DEF StInv, StCounts
<1>5. InputsUsable
  BY <1>2 DEF StInv, StChecked
<1>6. ASSUME NEW i \in 1 .. n
      PROVE  /\ StManifest[i].frozen = StManifest[i].source /\ measured.originals[i] = StManifest[i].frozen
             /\ measured.transformed[i] = With(StManifest[i].source, StManifest[i].segments, measured.replacements[i])
             /\ measured.records[i] = RequestRecord(StManifest[i], measured.replacements[i], measured.transformed[i])
             /\ static.compressor = "none" => measured.replacements[i] = OriginalTexts(StManifest[i])
  <2> DEFINE m == StManifest[i]
             given == [m EXCEPT !.source = measured.originals[i]]
  <2>1. /\ WellFormed(given)
        /\ measured.transformed[i] = With(given.source, given.segments, measured.replacements[i])
        /\ measured.records[i] = RequestRecord(given, measured.replacements[i], measured.transformed[i])
        /\ static.compressor = "none" => measured.replacements[i] = OriginalTexts(given)
    BY <1>2 DEF Reproduced
  <2>2. m \in FrozenRequests /\ m.frozen = m.source
    BY <1>5, <1>6, StGiven DEF WellFormed
  <2>3. given.source = given.frozen
    BY <2>1 DEF WellFormed
  <2> HIDE DEF m
  <2>4. given.source = measured.originals[i] /\ given.frozen = m.frozen
    BY <2>2 DEF FrozenRequests
  <2>5. measured.originals[i] = m.source
    BY <2>2, <2>3, <2>4
  <2>6. [m EXCEPT !.source = m.source] = m
    BY <2>2 DEF FrozenRequests
  <2>7. given = m
    BY <2>5, <2>6
  <2> HIDE DEF given
  <2>8. /\ measured.transformed[i] = With(m.source, m.segments, measured.replacements[i])
        /\ measured.records[i] = RequestRecord(m, measured.replacements[i], measured.transformed[i])
        /\ static.compressor = "none" => measured.replacements[i] = OriginalTexts(m)
    BY <2>1, <2>7
  <2> QED
    BY <2>2, <2>5, <2>8 DEF m
<1>7. measured.replacements = static.seen
  <2>1. CASE measured.replacements = static.seen
    BY <2>1
  <2>2. CASE StRecorded
    <3>1. \A i \in 1 .. n : measured.replacements[i] = static.seen[i]
      <4> TAKE i \in 1 .. n
      <4>1. measured.records[i].replacements = measured.replacements[i]
        BY <1>6, StRecordIs
      <4>2. measured.records[i].replacements = static.seen[i]
        BY <1>2, <2>2 DEF StRecorded
      <4> QED
        BY <4>1, <4>2
    <3> HIDE DEF n
    <3> QED
      BY <1>1, <1>4, <3>1
  <2> QED
    BY <2>1, <2>2 DEF StInv, StTwice
<1>8. \A i \in 1 .. n : measured.records[i].before = LengthOf(StManifest[i].source)
                        /\ measured.records[i].after = LengthOf(measured.transformed[i])
  BY <1>6, StRecordIs
<1>9. DOMAIN measured.records = 1 .. n /\ DOMAIN measured.transformed = 1 .. n
  BY <1>1, <1>2, <1>4
<1> DEFINE before == SumOfField(measured.records, LAMBDA r : r.before)
           after == SumOfField(measured.records, LAMBDA r : r.after)
<1>10. measured.summary.before = before /\ measured.summary.after = after
  BY <1>2 DEF Aggregate
<1> HIDE DEF n
<1>11. before = StExpected
  <2> DEFINE f == [i \in DOMAIN measured.records |-> measured.records[i].before]
             g == [i \in DOMAIN StManifest |-> LengthOf(StManifest[i].source)]
  <2>1. f = g
    BY <1>3, <1>8, <1>9
  <2>2. before = Sum(f)
    BY DEF SumOfField
  <2>3. Sum(g) = StExpected
    BY <1>5 DEF InputsUsable, SumOfField
  <2> HIDE DEF f, g, before
  <2> QED
    BY <2>1, <2>2, <2>3
<1>12. after = SumOfField(measured.transformed, LengthOf)
  <2> DEFINE f == [i \in DOMAIN measured.records |-> measured.records[i].after]
             g == [i \in DOMAIN measured.transformed |-> LengthOf(measured.transformed[i])]
  <2>1. f = g
    BY <1>8, <1>9
  <2>2. after = Sum(f)
    BY DEF SumOfField
  <2>3. Sum(g) = SumOfField(measured.transformed, LengthOf)
    BY DEF SumOfField
  <2> HIDE DEF f, g, after
  <2> QED
    BY <2>1, <2>2, <2>3
<1>13. ASSUME static.compressor = "none" PROVE after = StExpected
  <2> DEFINE f == [i \in DOMAIN measured.records |-> measured.records[i].after]
             g == [i \in DOMAIN StManifest |-> LengthOf(StManifest[i].source)]
  <2>0. \A i \in 1 .. n : measured.transformed[i] = StManifest[i].source
    <3> TAKE i \in 1 .. n
    <3>1. measured.transformed[i] = With(StManifest[i].source, StManifest[i].segments, OriginalTexts(StManifest[i]))
      BY <1>6, <1>13
    <3>2. StManifest[i] \in FrozenRequests /\ WellFormed(StManifest[i])
      BY <1>5, StGiven DEF n
    <3> QED
      BY <3>1, <3>2, PrOriginals DEF OriginalTexts
  <2>1. f = g
    BY <1>3, <1>8, <1>9, <2>0
  <2>2. after = Sum(f)
    BY DEF SumOfField
  <2>3. Sum(g) = StExpected
    BY <1>5 DEF InputsUsable, SumOfField
  <2> HIDE DEF f, g, after
  <2> QED
    BY <2>1, <2>2, <2>3
<1>14. \A i \in 1 .. n : measured.originals[i] = StManifest[i].frozen
                         /\ measured.transformed[i] = With(StManifest[i].frozen, StManifest[i].segments, static.seen[i])
  BY <1>6, <1>7
<1> HIDE DEF before, after
<1> QED
  BY <1>7, <1>10, <1>11, <1>12, <1>13, <1>14 DEF n

(***************************************************************************)
(* For any guards, requests, texts and length of what is sent, and for any *)
(* manifest, compressor and changed file: what a sender reads is the        *)
(* request with its approved edits, whatever happens to the object in       *)
(* between, and a directory that verify accepts is that of a whole run      *)
(* (protection.py:225-245, static_run.py:270-345).                          *)
(***************************************************************************)
THEOREM ApprovedEditsAlways == PrSpec /\ StSpec => []ApprovedEditsOnly
<1>1. PrInv /\ StInv => ApprovedEditsOnly
  BY PrHolds, StHolds DEF ApprovedEditsOnly
<1>2. PrSpec => []PrInv
  BY PrInitInv, PrNextInv, PTL DEF PrSpec
<1>3. StSpec => []StInv
  BY StInitInv, StNextInv, PTL DEF StSpec
<1> QED
  BY <1>1, <1>2, <1>3, PTL
=============================================================================

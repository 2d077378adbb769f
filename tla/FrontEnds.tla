------------------------------ MODULE FrontEnds ------------------------------
(***************************************************************************)
(* The commands a user starts: an experiment request, static or native, and  *)
(* a benchmark request, each checked or executed (experiment_run.py,         *)
(* benchmark_run.py), and the preliminary comparison of the four conditions  *)
(* on one task (preliminary_comparison.py).  Each validates, hands over to   *)
(* a runner of the other modules and tells on disk and in its exit code what *)
(* came of it; any write may fail and the process may end anywhere.          *)
(***************************************************************************)
EXTENDS Integers, Sequences, FiniteSets, SequencesExt

CONSTANTS
    FeRequests,     \* [kind, differs: sections unlike the ledger's, lacks: what is not set or approved]
    FeRuns,         \* bound: commands given for a request
    FeConditions,   \* CONDITIONS
    FeInventory,    \* tasks in the frozen order
    FeEvidence      \* sets of [task, source, complete, result] an earlier run may have left

\* _linked_candidates, _local_candidates: tasks of the inventory.
ASSUME FeAssumption ==
    /\ FeRuns \in Nat \ {0} /\ IsFiniteSet(FeConditions)
    /\ \A r \in FeRequests : r.kind \in {"static", "native", "benchmark", "comparison"}
    /\ \A evidence \in FeEvidence : \A e \in evidence :
          /\ e.task \in {FeInventory[i] : i \in DOMAIN FeInventory}
          /\ e = [task |-> e.task, source |-> e.source, complete |-> e.complete, result |-> e.result]

VARIABLES
    feRequest,
    front,       \* the process: [run, execute, at, paid, faulted, result, exit]; paid: it
                 \* handed over to a runner that may call the provider
    feEnds,      \* how the lower runner of each command ended
    kept,        \* experiment-result.json in the directory of each lower run
    published,   \* the benchmark request's output file
    cmp          \* the comparison: [evidence, task, available, order, status, started, ends, file]

feVars == <<feRequest, front, feEnds, kept, published, cmp>>

FeNothing == [status |-> "none"]

\* _base_result: nothing measured; run 0 stands for the check's own id.
FeBase == [status |-> "checked", run |-> 0, measured |-> FALSE, terminated |-> FALSE]
FeCommand(run, execute) ==
    [run |-> run, execute |-> execute, at |-> "load", paid |-> FALSE, faulted |-> FALSE,
     result |-> FeBase, exit |-> -1]
FeLeaves(exit) == [front EXCEPT !.at = "over", !.exit = exit]
FeKind(kinds) == feRequest.kind \in kinds

\* load_benchmark_request compares with the reference ledger and the task index.
BenchmarkCompared == {"benchmark", "endpoint", "model", "condition", "task", "output"}

\* The ledgers and settings that each kind of request repeats and must agree with.
FeCompared(kind) ==
    CASE kind = "static" -> {"condition", "output", "provider", "model", "compressor", "input", "manifest", "execution"}
      [] kind = "native" -> {"condition", "output", "provider", "model", "compressor", "baseline", "input", "execution"}
      [] OTHER -> BenchmarkCompared
FeReconciled == feRequest.differs \cap FeCompared(feRequest.kind) = {}

\* load_request, load_benchmark_request: what they refuse leaves no record.  A
\* static or native request names the commit itself.
FeLoad ==
    /\ front.at = "load" /\ FeKind({"static", "native", "benchmark"})
    /\ front' = IF FeReconciled /\ (FeKind({"static", "native"}) => "commit" \notin feRequest.lacks)
                THEN [front EXCEPT !.at = "gate"] ELSE FeLeaves(2)
    /\ UNCHANGED <<feRequest, feEnds, kept, published, cmp>>

\* The except clause: the result as it stands is marked failed.  An experiment's
\* is only printed, a benchmark's is written.
FeFailed(result) ==
    LET failed == [result EXCEPT !.status = "failed"]
    IN  IF FeKind({"benchmark"}) THEN [front EXCEPT !.at = "records", !.result = failed]
        ELSE [FeLeaves(3) EXCEPT !.result = failed]

\* _source_commit and _operational_ledger: a clean checkout, an approved ledger.
BenchmarkNeeds(execute) == {"commit"} \cup IF execute THEN {"endpoint", "approval"} ELSE {}
FeNeeds(kind, execute) ==
    CASE kind = "static" -> {}
      [] kind = "native" -> {"endpoint", "baseline"} \cup IF execute THEN {"approval"} ELSE {}
      [] OTHER -> BenchmarkNeeds(execute)

\* A request that a runner may be paid for lacks only what its kind has.
ASSUME FeLacksAssumption ==
    \A r \in FeRequests : r.kind \in {"native", "benchmark"} => r.lacks \subseteq {"commit"} \cup FeNeeds(r.kind, TRUE)

\* A benchmark check goes no further than this.
FeGate ==
    /\ front.at = "gate"
    /\ front' = IF feRequest.lacks \cap FeNeeds(feRequest.kind, front.execute) # {} THEN FeFailed(FeBase)
                ELSE [front EXCEPT !.at = IF FeKind({"benchmark"}) /\ ~front.execute THEN "saves" ELSE "lower"]
    /\ UNCHANGED <<feRequest, feEnds, kept, published, cmp>>

(***************************************************************************)
(* The lower runner, by its exit code and by what it left: were all trials   *)
(* judged, is their evidence stored, how many attempts has it, and did a     *)
(* safety limit end it.  2 stands for every refusal and for a record that    *)
(* does not verify; a code of 3 comes with a record too.                     *)
(***************************************************************************)
FeEnd(code, judged, stored, attempts, terminated) ==
    [code |-> code, judged |-> judged, stored |-> stored, attempts |-> attempts, terminated |-> terminated]
FeStaticEnds == {FeEnd(0, TRUE, TRUE, 1, FALSE), FeEnd(2, FALSE, FALSE, 0, FALSE)}
FeNativeEnds(execute) ==
    IF ~execute THEN {FeEnd(0, FALSE, FALSE, 0, FALSE), FeEnd(2, FALSE, FALSE, 0, FALSE)}
    ELSE {FeEnd(c, TRUE, TRUE, 1, FALSE) : c \in {0, 2, 3}}
         \cup {FeEnd(3, TRUE, FALSE, 1, FALSE), FeEnd(2, FALSE, FALSE, 0, FALSE)}
         \cup {FeEnd(3, FALSE, FALSE, 1, b) : b \in BOOLEAN}
FeDiagnoseEnds ==
    {end \in [code : {0, 2, 3}, judged : BOOLEAN, stored : BOOLEAN, attempts : {0, 1, 2}, terminated : BOOLEAN] :
        IF end.judged THEN end.attempts = 1 /\ ~end.terminated ELSE end.code = 3}
FeLowerEnds(kind, execute) ==
    CASE kind = "static" -> FeStaticEnds
      [] kind = "native" -> FeNativeEnds(execute)
      [] OTHER -> FeDiagnoseEnds

FeLower(end) ==
    /\ front.at = "lower" /\ end \in FeLowerEnds(feRequest.kind, front.execute)
    /\ front' = [(IF end.code = 2 THEN FeFailed(FeBase)
                  ELSE [front EXCEPT !.at = IF front.execute THEN "reads" ELSE "saves"])
                     EXCEPT !.paid = FeKind({"native", "benchmark"}) /\ front.execute]
    /\ feEnds' = [feEnds EXCEPT ![front.run] = end]
    /\ UNCHANGED <<feRequest, kept, published, cmp>>

\* _static_result, _native_result and _attempt_result.  A verified native run
\* that judged its trials and could not store them is "retrieval_pending".
NativeCompleteSlipPending(end) == end.judged
NativeComplete(end) == end.judged /\ end.stored
\* attempt.json is made by _finalize_attempt before its evidence is stored; the
\* disposition goes to summary.json, and the file that is read has none.
AttemptRecord(end) == [judged |-> end.judged, evidence_disposition |-> "missing"]
BenchmarkComplete(end) ==
    LET attempt == AttemptRecord(end) IN attempt.judged /\ attempt.evidence_disposition = "quality_result_complete"
FeComplete(end) ==
    CASE feRequest.kind = "static" -> TRUE
      [] feRequest.kind = "native" -> NativeComplete(end)
      [] OTHER -> BenchmarkComplete(end)
FeMeasured(end) == IF FeKind({"native"}) THEN end.judged ELSE FeComplete(end)
FeResult(end) ==
    [status |-> IF FeComplete(end) THEN "completed" ELSE "failed", run |-> front.run,
     measured |-> FeMeasured(end), terminated |-> end.terminated]

\* A summary, or a key of it, that is not there raises before the result is
\* updated, provenance after it; a benchmark run has one attempt.
FeRead(fault) ==
    /\ front.at = "reads"
    /\ LET end == feEnds[front.run]
       IN  front' = [(IF fault = "summary" \/ (FeKind({"benchmark"}) /\ end.attempts # 1) THEN FeFailed(FeBase)
                      ELSE IF fault = "provenance" THEN FeFailed(FeResult(end))
                      ELSE [front EXCEPT !.at = "saves", !.result = FeResult(end)])
                         EXCEPT !.faulted = @ \/ fault # "none"]
    /\ UNCHANGED <<feRequest, feEnds, kept, published, cmp>>

FeExit(result) == IF result.status \in {"checked", "completed"} THEN 0 ELSE 3

\* An experiment that was executed is saved with its lower run; a benchmark
\* replaces its output file, after a check too.
FeSave(fault) ==
    /\ front.at = "saves"
    /\ LET writes == FeKind({"benchmark"}) \/ front.execute
       IN  /\ front' = IF fault /\ writes THEN [FeFailed(front.result) EXCEPT !.faulted = TRUE]
                       ELSE FeLeaves(FeExit(front.result))
           /\ kept' = IF writes /\ FeKind({"static", "native"})
                      THEN [kept EXCEPT ![front.run] = IF fault THEN [status |-> "part"] ELSE front.result]
                      ELSE kept
           /\ published' = IF ~fault /\ FeKind({"benchmark"}) THEN front.result ELSE published
    /\ UNCHANGED <<feRequest, feEnds, cmp>>

\* The failed record of a benchmark; what its write raises is a request error.
FeRecord(fault) ==
    /\ front.at = "records"
    /\ front' = FeLeaves(IF fault THEN 2 ELSE 3)
    /\ published' = IF fault THEN published ELSE front.result
    /\ UNCHANGED <<feRequest, feEnds, kept, cmp>>

\* save_json writes in place: a process that ends there leaves a part as well.
FeKilled ==
    /\ front.at \notin {"over", "killed"}
    /\ front' = [front EXCEPT !.at = "killed"]
    /\ kept' \in {kept} \cup IF front.at = "saves" /\ front.execute /\ FeKind({"static", "native"})
                             THEN {[kept EXCEPT ![front.run] = [status |-> "part"]]} ELSE {}
    /\ UNCHANGED <<feRequest, feEnds, published, cmp>>

\* The same request again, checked or executed; a lower run has a directory of its own.
FeAgain(execute) ==
    /\ FeKind({"static", "native", "benchmark"})
    /\ front.at \in {"over", "killed"} /\ front.run < FeRuns
    /\ front' = FeCommand(front.run + 1, execute)
    /\ UNCHANGED <<feRequest, feEnds, kept, published, cmp>>

(***************************************************************************)
(* The comparison.  select_first_task: the first task of the inventory with  *)
(* a complete judgement, linked or local, whatever the judgement.            *)
(***************************************************************************)
QualityResults == {"pass", "wrong_answer", "wrong_format"}
Candidate(e) == e.complete /\ e.result \in QualityResults
Candidates(evidence, source) == {e.task : e \in {c \in evidence : c.source = source /\ Candidate(c)}}
Selectable(evidence) == Candidates(evidence, "linked") \cup Candidates(evidence, "local")
SelectedTask(evidence) == FeInventory[SelectInSeq(FeInventory, LAMBDA t : t \in Selectable(evidence))]

CmNoStatus == [c \in {} |-> "none"]

\* prepare_comparison: any order of the conditions, which a seed fixes, and the
\* compressors that are there; nothing is made without a task.  The manifest
\* and the first status follow, unless this is a check.
CmPrepare(order, available, fault) ==
    /\ front.at = "load" /\ FeKind({"comparison"})
    /\ LET refused == fault \/ feRequest.differs # {} \/ Selectable(cmp.evidence) = {}
       IN  /\ front' = IF refused THEN FeLeaves(2)
                       ELSE IF ~front.execute THEN FeLeaves(0) ELSE [front EXCEPT !.at = "next"]
           /\ cmp' = IF refused \/ ~front.execute THEN cmp
                     ELSE [cmp EXCEPT !.order = order, !.available = available,
                                      !.task = SelectedTask(cmp.evidence),
                                      !.status = CmNoStatus, !.file = [finished |-> FALSE, of |-> CmNoStatus]]
    /\ UNCHANGED <<feRequest, feEnds, kept, published>>

\* atomic_json: the whole status, or, when it fails, the one before and the end
\* of the command.
CmWrites(status, at, fault) ==
    /\ front' = IF fault THEN FeLeaves(2) ELSE [front EXCEPT !.at = at]
    /\ cmp' = [cmp EXCEPT !.status = status,
                          !.file = IF fault THEN @ ELSE [finished |-> FALSE, of |-> status]]
    /\ UNCHANGED <<feRequest, feEnds, kept, published>>
Entered(c, entry) == [d \in DOMAIN cmp.status \cup {c} |-> IF d = c THEN entry ELSE cmp.status[d]]
Reached == Cardinality(DOMAIN cmp.status)

CmNext(fault) ==
    /\ front.at = "next" /\ Reached < Len(cmp.order)
    /\ LET c == cmp.order[Reached + 1]
       IN  IF c \in cmp.available THEN CmWrites(Entered(c, "starting"), "starts", fault)
           ELSE CmWrites(Entered(c, "unavailable"), "next", fault)

\* One logical trial of the condition: it is recorded, or anything at all is
\* raised, an interrupt by the user too, and the comparison goes on.
CmRun(end) ==
    /\ front.at = "starts"
    /\ LET c == cmp.order[Reached]
       IN  cmp' = [cmp EXCEPT !.started = Append(@, c), !.ends = [@ EXCEPT ![c] = end],
                              !.status = Entered(c, end)]
    /\ front' = [front EXCEPT !.at = "ended"]
    /\ UNCHANGED <<feRequest, feEnds, kept, published>>

CmRecord(fault) == front.at = "ended" /\ CmWrites(cmp.status, "next", fault)

CmFinish(fault) ==
    /\ front.at = "next" /\ Reached = Len(cmp.order)
    /\ front' = FeLeaves(IF fault THEN 2 ELSE 0)
    /\ cmp' = IF fault THEN cmp ELSE [cmp EXCEPT !.file.finished = TRUE]
    /\ UNCHANGED <<feRequest, feEnds, kept, published>>

(***************************************************************************)
FeInit ==
    /\ feRequest \in FeRequests
    /\ \E execute \in BOOLEAN : front = FeCommand(1, execute)
    /\ feEnds = [r \in 1..FeRuns |-> FeNothing] /\ kept = [r \in 1..FeRuns |-> FeNothing]
    /\ published = FeNothing
    /\ \E evidence \in FeEvidence :
        /\ cmp = [evidence |-> evidence, task |-> "none", order |-> <<>>, available |-> {}, status |-> CmNoStatus,
                  started |-> <<>>, ends |-> [c \in FeConditions |-> "none"], file |-> FeNothing]
        /\ feRequest.kind # "comparison" => evidence = {}

FeNext ==
    \/ FeLoad \/ FeGate \/ FeKilled
    \/ \E end \in FeStaticEnds \cup FeNativeEnds(TRUE) \cup FeDiagnoseEnds : FeLower(end)
    \/ \E fault \in {"none", "summary", "provenance"} : FeRead(fault)
    \/ \E yes \in BOOLEAN :
        \/ FeSave(yes) \/ FeRecord(yes) \/ FeAgain(yes)
        \/ CmNext(yes) \/ CmRecord(yes) \/ CmFinish(yes)
        \/ \E order \in SetToSeqs(FeConditions), available \in SUBSET FeConditions :
            CmPrepare(order, available, yes)
    \/ \E end \in {"recorded", "raised"} : CmRun(end)

FeSpec == FeInit /\ [][FeNext]_feVars

(***************************************************************************)
(* A provider is paid only for a request that was to be executed, agrees     *)
(* with its ledger and lacks nothing; every record on disk is backed by the  *)
(* lower run it names; and exit code 0 is for a check without payment or for *)
(* a run that was judged and stored, with its record whole on disk.  A run   *)
(* like that is not reported otherwise unless a read or a write failed, or   *)
(* it is a benchmark's: BenchmarkComplete never finds one complete.          *)
(***************************************************************************)
Whole(end) == end # FeNothing /\ end.code # 2 /\ end.judged /\ end.stored
FeDisk == {published} \cup {kept[r] : r \in 1..FeRuns}
FeBacked(record) ==
    record.status \in {"checked", "completed", "failed"} =>
        /\ record.status = "completed" => record.run # 0 /\ Whole(feEnds[record.run])
        /\ record.measured => record.run # 0 /\ feEnds[record.run].judged
        /\ record.terminated => record.status = "failed" /\ ~record.measured
FeRecordOf(run) == IF FeKind({"benchmark"}) THEN published ELSE kept[run]
FeResultIsTrue ==
    /\ front.paid => front.execute /\ feRequest.lacks = {} /\ FeReconciled
    /\ \A record \in FeDisk : FeBacked(record)
    /\ (front.exit = 0 /\ ~FeKind({"comparison"})) =>
        IF front.execute THEN Whole(feEnds[front.run]) /\ FeRecordOf(front.run) = front.result
        ELSE ~front.paid /\ (FeKind({"benchmark"}) => published = front.result)
    /\ (front.exit > 0 /\ front.execute /\ Whole(feEnds[front.run])) =>
        front.faulted \/ FeKind({"benchmark"})

(***************************************************************************)
(* "prior pass/fail and expected compression are not ordering keys"          *)
(* (preliminary_comparison.py:27): the task would be the same whatever the   *)
(* judgements had been.  Each condition is started once, in the published    *)
(* order, after the status file names it; what the file says of an ended     *)
(* condition is how it ended; a finished file leaves none out.               *)
(***************************************************************************)
Rejudged(evidence, results) ==
    {[e EXCEPT !.result = IF e.result \in QualityResults THEN results[e.task] ELSE @] : e \in evidence}
\* Before a condition, the available ones of the order's beginning were started.
CmStartedInOrder ==
    \A j \in DOMAIN cmp.started : \E n \in DOMAIN cmp.order :
        /\ cmp.started[j] = cmp.order[n] /\ cmp.order[n] \in cmp.available
        /\ {cmp.started[i] : i \in 1..(j - 1)} = {cmp.order[m] : m \in 1..(n - 1)} \cap cmp.available
FeComparisonIsWhole ==
    cmp.file # FeNothing =>
        /\ \A results \in [{FeInventory[i] : i \in DOMAIN FeInventory} -> QualityResults] :
            SelectedTask(Rejudged(cmp.evidence, results)) = cmp.task
        /\ CmStartedInOrder
        /\ \A i \in DOMAIN cmp.started : cmp.started[i] \in DOMAIN cmp.file.of
        /\ \A c \in DOMAIN cmp.file.of : cmp.file.of[c] \in {cmp.ends[c], "starting", "unavailable"}
        /\ cmp.file.finished =>
            \A c \in FeConditions :
                cmp.file.of[c] = IF c \in cmp.available THEN cmp.ends[c] ELSE "unavailable"
        /\ (front.exit = 0 /\ front.execute) => cmp.file.finished

\* What a command leaves on disk and in its exit code is what its runners did.
FeRecordsAreTrue == FeResultIsTrue /\ FeComparisonIsWhole
=============================================================================

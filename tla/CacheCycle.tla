----------------------------- MODULE CacheCycle -----------------------------
(***************************************************************************)
(* One cycle of the cache-reuse study, of src/src/cache_reuse.py, and the  *)
(* runtime probe of src/src/cache_runtime_context.py that goes before it.  *)
(*                                                                         *)
(* A cycle runs six bundles, one for each condition and reuse level, in    *)
(* the order of the plan.  A tracker in memory compares each request with  *)
(* what the earlier bundles of its condition sent; what a cycle leaves is  *)
(* a directory of files that are created and never replaced.  Two          *)
(* processes may be started with the same run id and the same output.      *)
(***************************************************************************)
EXTENDS Integers, Sequences, FiniteSets, SequencesExt

CONSTANTS
    CcProcesses,
    CcChecks,        \* the checks of the doctor
    CcConditions,    \* the conditions, in the order of this cycle
    CcTasks,
    CcRequests,      \* bound: requests of one task in one bundle
    CcFaults         \* bound: failing writes, failing native runs and deaths

ASSUME CcAssumption ==
    /\ CcTasks # {} /\ "none" \notin CcProcesses
    /\ CcConditions \in Seq(ToSet(CcConditions)) \ {<<>>}

\* _cycle_rows: the rows of the plan that belong to one cycle.
CycleRows == [i \in 1 .. 3 * Len(CcConditions) |-> <<CcConditions[(i - 1) \div 3 + 1], (i - 1) % 3>>]

VARIABLES
    process,    \* each process: where it is and what it holds in memory
    directory,  \* the run's directory: who made it and what it holds
    probe,      \* each process's probe of the runtime
    probeFile,     \* the file the probe's result goes to
    ccFaults

ccVars == <<process, directory, probe, probeFile, ccFaults>>

NoRequests == [t \in CcTasks |-> 0]
Nothing == [pc |-> "start", row |-> 1, observed |-> NoRequests, refused |-> FALSE,
            completed |-> [b \in ToSet(CcConditions) \X CcTasks |-> <<>>], bundles |-> <<>>]

\* Definitions named ...Slip are not part of the model.  Each is the next
\* definition with a mistake, used to see that a property would notice it.

CcInit ==
    /\ process = [p \in CcProcesses |-> Nothing]
    /\ directory = [owner |-> "none", records |-> <<>>, cycle |-> "none", failure |-> -1]
    /\ probe = [p \in CcProcesses |-> [state |-> "none"]]
    /\ probeFile = [owner |-> "none", decision |-> "none"]
    /\ ccFaults = 0

CcFault == ccFaults < CcFaults /\ ccFaults' = ccFaults + 1

-----------------------------------------------------------------------------
(* Admission                                                               *)

\* What the probe finds, in the order it looks: the project's own definition,
\* the attestation and its validity, the variables, the three inputs, and the
\* checks that the doctor passes.
Findings == [definition : BOOLEAN, attestation : {"ok", "missing", "wrong_source", "stale"},
             names : BOOLEAN, inputs : 0 .. 3, valid : BOOLEAN, passed : SUBSET CcChecks]

\* doctor: it decides "go" when every check passed.
Doctor(passed) == IF passed = CcChecks THEN "go" ELSE "no_go"

\* probe: its decision, its status, how many inputs were read, and whether it
\* is the carrier's own source that was refused.
Probe(f) ==
    LET fails(status, inputs) ==
            [decision |-> "no_go", status |-> status, inputs |-> inputs, doctor |-> 0, source |-> FALSE] IN
    CASE ~f.definition -> [fails("wrong_source", 0) EXCEPT !.source = TRUE]
      [] f.definition /\ f.attestation # "ok" -> fails(f.attestation, 0)
      [] f.definition /\ f.attestation = "ok" /\ ~f.names -> fails("missing", 0)
      [] f.definition /\ f.attestation = "ok" /\ f.names /\ (f.inputs < 3 \/ ~f.valid) -> fails("invalid", f.inputs)
      [] OTHER -> [decision |-> Doctor(f.passed), status |-> "verified", inputs |-> 3, doctor |-> 1,
                     source |-> FALSE]

ProbeResults == {Probe(f) : f \in Findings}

\* run: reserve_result creates the file before anything is looked at.
CpReserve(p) ==
    /\ probe[p].state = "none"
    /\ IF probeFile.owner = "none"
       THEN /\ probeFile' = [owner |-> p, decision |-> "none"]
            /\ probe' = [probe EXCEPT ![p] = [state |-> "reserved"]]
       ELSE /\ probe' = [probe EXCEPT ![p] = [state |-> "done", exit |-> 2]]
            /\ UNCHANGED probeFile
    /\ UNCHANGED <<process, directory, ccFaults>>

\* The rest of run: a failing write leaves the reserved file as it is.  The
\* bound: nobody probes for a cycle that has started.
CpProbe(p) ==
    /\ probe[p].state = "reserved" /\ process[p].pc = "start"
    /\ \/ \E found \in ProbeResults :
             /\ probeFile' = [probeFile EXCEPT !.decision = found.decision]
             /\ probe' = [probe EXCEPT ![p] = [state |-> "done",
                   exit |-> IF found.source THEN 2 ELSE IF found.decision = "go" THEN 0 ELSE 3]]
             /\ UNCHANGED ccFaults
       \/ /\ CcFault
          /\ probe' = [probe EXCEPT ![p] = [state |-> "done", exit |-> 2]]
          /\ UNCHANGED probeFile
    /\ UNCHANGED <<process, directory>>

-----------------------------------------------------------------------------
(* The cycle                                                               *)

\* execute_cycle up to the check that the output does not exist; the probe's
\* result is not looked at, the doctor runs again.
CcAdmit(p, passed) ==
    /\ process[p].pc = "start"
    /\ process' = [process EXCEPT ![p].pc = IF Doctor(passed) = "go" /\ directory.owner = "none" THEN "admitted"
                                            ELSE "ended"]
    /\ UNCHANGED <<directory, probe, probeFile, ccFaults>>

\* mkdir, which fails when the run's directory exists.
Free == directory.owner = "none"

CcMakeDirectory(p) ==
    /\ process[p].pc = "admitted"
    /\ IF Free
       THEN /\ directory' = [directory EXCEPT !.owner = p]
            /\ process' = [process EXCEPT ![p].pc = "bundle"]
       ELSE /\ process' = [process EXCEPT ![p].pc = "ended"]
            /\ UNCHANGED directory
    /\ UNCHANGED <<probe, probeFile, ccFaults>>

Row(p) == CycleRows[process[p].row]
History(p, t) == process[p].completed[<<Row(p)[1], t>>]

\* PrefixTracker.observe: the bundles before it in its condition, the prefix
\* that was screened for this request, and a predecessor's request to match.
\* A prefix that passes is the same in every bundle, for it is screened by task
\* and request and its namespace is that of the cycle.
Observed(p, t, screened) ==
    /\ Len(History(p, t)) = Row(p)[2]
    /\ screened
    /\ \A i \in DOMAIN History(p, t) : process[p].observed[t] < History(p, t)[i]

\* A refused request fails its trial; the trials of other tasks go on.
CcObserve(p, t, screened) ==
    /\ process[p].pc = "bundle" /\ process[p].observed[t] < CcRequests
    /\ IF Observed(p, t, screened)
       THEN process' = [process EXCEPT ![p].observed[t] = @ + 1]
       ELSE ~process[p].refused /\ process' = [process EXCEPT ![p].refused = TRUE]
    /\ UNCHANGED <<directory, probe, probeFile, ccFaults>>

SameCountSlipUnchecked(p) == \A t \in CcTasks : process[p].observed[t] > 0

\* What finish_bundle requires of every task.
SameCount(p) ==
    \A t \in CcTasks :
       /\ process[p].observed[t] > 0
       /\ Len(History(p, t)) = Row(p)[2]
       /\ \A i \in DOMAIN History(p, t) : History(p, t)[i] = process[p].observed[t]

\* The handler of execute_cycle.  The write of failure.json may fail too.
Fails(p, held) ==
    \/ directory' = [held EXCEPT !.failure = Len(process'[p].bundles)]
    \/ directory' = held

Raise(p) == process' = [process EXCEPT ![p].pc = "ended"] /\ Fails(p, directory)

\* The native run or its verification raises; a bundle with a refused request
\* does not verify.
CcBundleRaises(p) ==
    /\ process[p].pc = "bundle"
    /\ IF process[p].refused THEN UNCHANGED ccFaults ELSE CcFault
    /\ Raise(p)
    /\ UNCHANGED <<probe, probeFile>>

Recorded(p, complete) == [row |-> Row(p), requests |-> process[p].observed, valid |-> complete]

\* The bundle is verified and summarised: finish_bundle, then the list in
\* memory, then its file, which may fail; then a bundle whose usage is not
\* complete ends the cycle.
CcBundleEnds(p, complete) ==
    LET completed == IF complete
                     THEN [b \in ToSet(CcConditions) \X CcTasks |->
                              IF b[1] = Row(p)[1] THEN Append(process[p].completed[b], process[p].observed[b[2]])
                              ELSE process[p].completed[b]]
                     ELSE process[p].completed
        after == [process[p] EXCEPT !.row = @ + 1, !.observed = NoRequests, !.completed = completed,
                                    !.bundles = Append(@, complete)]
        written == [directory EXCEPT !.records = Append(@, Recorded(p, complete))]
    IN  /\ process[p].pc = "bundle" /\ ~process[p].refused
        /\ IF ~SameCount(p) THEN Raise(p) /\ UNCHANGED ccFaults
           ELSE \/ /\ UNCHANGED ccFaults
                   /\ IF complete
                      THEN /\ process' = [process EXCEPT ![p] =
                                 [after EXCEPT !.pc = IF process[p].row = Len(CycleRows) THEN "contrasts" ELSE "bundle"]]
                           /\ directory' = written
                      ELSE /\ process' = [process EXCEPT ![p] = [after EXCEPT !.pc = "ended"]]
                           /\ Fails(p, written)
                \/ /\ CcFault
                   /\ process' = [process EXCEPT ![p] = [after EXCEPT !.pc = "ended"]]
                   /\ Fails(p, directory)
        /\ UNCHANGED <<probe, probeFile>>

\* _cycle_contrasts and the cycle's summary.  An interrupt after the file is
\* written, or in the middle of the write, runs the handler as well.
CcSummary(p) ==
    /\ process[p].pc = "contrasts"
    /\ process' = [process EXCEPT ![p].pc = "ended"]
    /\ \/ directory' = [directory EXCEPT !.cycle = "whole"] /\ UNCHANGED ccFaults
       \/ CcFault /\ \E left \in {"whole", "part"} : Fails(p, [directory EXCEPT !.cycle = left])
    /\ UNCHANGED <<probe, probeFile>>

CcDies(p) ==
    /\ process[p].pc \in {"admitted", "bundle", "contrasts"}
    /\ CcFault
    /\ process' = [process EXCEPT ![p].pc = "ended"]
    /\ UNCHANGED <<directory, probe, probeFile>>

CcNext ==
    \E p \in CcProcesses :
       \/ CpReserve(p) \/ CpProbe(p) \/ CcMakeDirectory(p) \/ CcBundleRaises(p) \/ CcSummary(p) \/ CcDies(p)
       \/ \E passed \in SUBSET CcChecks : CcAdmit(p, passed)
       \/ \E t \in CcTasks, screened \in BOOLEAN : CcObserve(p, t, screened)
       \/ \E complete \in BOOLEAN : CcBundleEnds(p, complete)

CcSpec == CcInit /\ [][CcNext]_ccVars

-----------------------------------------------------------------------------
(* Properties                                                              *)

\* The files of a cycle tell one story, whichever processes were started: its
\* bundles are a prefix of the plan and of one process; all but the last have
\* complete usage; bundles of one condition sent the same number of requests
\* of each task; a summary is of all bundles, all complete; and a failure
\* counts the bundles on disk, or one more whose file could not be written.
CcOneStory ==
    LET records == directory.records
        rows == [i \in DOMAIN records |-> records[i].row]
    IN  /\ IsPrefix(rows, CycleRows)
        /\ \A i \in DOMAIN records : i < Len(records) => records[i].valid
        /\ \A i, j \in DOMAIN records :
              records[i].row[1] = records[j].row[1] => records[i].requests = records[j].requests
        /\ directory.cycle # "none" => Len(records) = Len(CycleRows) /\ \A i \in DOMAIN records : records[i].valid
        /\ directory.failure # -1 => directory.failure - Len(records) \in {0, 1}
        /\ \A p \in CcProcesses : process[p].pc \in {"bundle", "contrasts"} => directory.owner = p
        /\ probeFile.decision # "none" => \E p \in CcProcesses : probeFile.owner = p /\ probe[p].state = "done"
=============================================================================

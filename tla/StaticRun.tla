------------------------------ MODULE StaticRun ------------------------------
(***************************************************************************)
(* The offline measurement of frozen requests (src/src/static_run.py): each  *)
(* request goes through the observation pipeline of Protection, its files     *)
(* and its record are written, and at the end a summary and the record of     *)
(* the execution.  verify makes every record and the summary again from the   *)
(* files.  The process may be killed, a step may raise (a full disk, the      *)
(* deadline's alarm), and one file may be changed afterwards.                 *)
(***************************************************************************)
EXTENDS Protection, Folds

CONSTANTS
    StManifest,  \* the frozen requests, in order
    StExpected   \* ledger: expect.message_content_utf8_bytes

ASSUME StAssumption == StManifest \in Seq(FrozenRequests)

VARIABLES
    static,  \* [phase, compressor, seen: what the compressor returned for each request]
    measured, \* the run's directory: [originals, transformed, replacements, records, summary, ends]
    touched  \* a file was changed after it was written

stVars == <<static, measured, touched>>

Sum(f) == FoldFunction(+, 0, f)
LengthOf(object) == Sum([k \in DOMAIN object.messages |-> Len(object.messages[k].content)])
SumOfField(records, F(_)) == Sum([i \in DOMAIN records |-> F(records[i])])

\* read_inputs: each request is guarded, and the whole is as the ledger says.
InputsUsable ==
    /\ \A i \in 1..Len(StManifest) : WellFormed(StManifest[i])
    /\ SumOfField(StManifest, LAMBDA g : LengthOf(g.source)) = StExpected

OriginalTexts(given) == CandidateTexts(given.source, given.segments)

\* request_record: what is measured of one request; its deletion reference is
\* the request without its candidates.
RequestRecord(given, replacements, object) ==
    [before |-> LengthOf(given.source), after |-> LengthOf(object),
     deleted |-> LengthOf(With(given.source, given.segments, [n \in DOMAIN replacements |-> <<>>])),
     replacements |-> replacements]

\* aggregate: sums over the records.
Aggregate(records) ==
    [requests |-> Len(records),
     before |-> SumOfField(records, LAMBDA r : r.before), after |-> SumOfField(records, LAMBDA r : r.after),
     deleted |-> SumOfField(records, LAMBDA r : r.deleted)]

NoSummary == [none |-> TRUE]

\* verify, of one record: made again from the files, it is the same.
Reproduced(i) ==
    LET given == [StManifest[i] EXCEPT !.source = measured.originals[i]]
        replacements == measured.replacements[i]
    IN  /\ WellFormed(given)
        /\ ReplacementsFit(given, replacements)
        /\ measured.transformed[i] = With(given.source, given.segments, replacements)
        /\ measured.records[i] = RequestRecord(given, replacements, measured.transformed[i])
        /\ static.compressor = "none" => replacements = OriginalTexts(given)

StAccepts ==
    /\ measured.ends = "completed"
    /\ Len(measured.records) = Len(StManifest)
    /\ \A i \in 1..Len(StManifest) : Reproduced(i)
    /\ measured.summary = Aggregate(measured.records)

(***************************************************************************)
StMoves(from, to) == static.phase = from /\ static' = [static EXCEPT !.phase = to]

StStart ==
    /\ StMoves("start", IF InputsUsable THEN "writes" ELSE "refused")
    /\ UNCHANGED <<measured, touched>>

\* One request through the pipeline, and its files.
StTransform(replacements) ==
    LET i == Len(measured.originals) + 1
        given == StManifest[i]
    IN  /\ static.phase = "writes" /\ i <= Len(StManifest) /\ Len(measured.records) = i - 1
        /\ ReplacementsFit(given, replacements)
        /\ static.compressor = "none" => replacements = OriginalTexts(given)
        /\ static' = [static EXCEPT !.seen = Append(@, replacements)]
        /\ measured' = [measured EXCEPT
                !.originals = Append(@, given.source),
                !.transformed = Append(@, With(given.source, given.segments, replacements)),
                !.replacements = Append(@, replacements)]
        /\ UNCHANGED touched

StRecord ==
    LET i == Len(measured.originals)
    IN  /\ static.phase = "writes" /\ Len(measured.records) = i - 1
        /\ measured' = [measured EXCEPT !.records =
                Append(@, RequestRecord(StManifest[i], static.seen[i],
                                        With(StManifest[i].source, StManifest[i].segments, static.seen[i])))]
        /\ UNCHANGED <<static, touched>>

StSummarize ==
    /\ Len(measured.records) = Len(StManifest)
    /\ StMoves("writes", "summarized")
    /\ measured' = [measured EXCEPT !.summary = Aggregate(measured.records)]
    /\ UNCHANGED touched

StEnd ==
    /\ StMoves("summarized", "over")
    /\ measured' = [measured EXCEPT !.ends = "completed"]
    /\ UNCHANGED touched

\* An exception at any step leaves failure.json; a killed process leaves nothing.
StEndsEarly(left) ==
    /\ static.phase \in {"writes", "summarized"}
    /\ static' = [static EXCEPT !.phase = "over"]
    /\ measured' = [measured EXCEPT !.ends = left]
    /\ UNCHANGED touched

\* One file of the directory becomes another of its kind.
StChange(i, kind) ==
    /\ ~touched /\ i \in DOMAIN measured[kind]
    /\ \E other \in {measured[kind][j] : j \in DOMAIN measured[kind]}
                    \cup (IF kind = "replacements" THEN Replacements ELSE {}) :
        other # measured[kind][i] /\ measured' = [measured EXCEPT ![kind][i] = other]
    /\ touched' = TRUE
    /\ UNCHANGED static

(***************************************************************************)
StInit ==
    /\ static \in [phase : {"start"}, compressor : {"none", "squeez"}, seen : {<<>>}]
    /\ measured = [originals |-> <<>>, transformed |-> <<>>, replacements |-> <<>>, records |-> <<>>,
                  summary |-> NoSummary, ends |-> "nothing"]
    /\ touched = FALSE

StNext ==
    \/ StStart \/ StRecord \/ StSummarize \/ StEnd
    \/ \E r \in Replacements : StTransform(r)
    \/ \E left \in {"failure", "nothing"} : StEndsEarly(left)
    \/ \E i \in 1..Len(StManifest), kind \in {"originals", "transformed", "replacements", "records"} : StChange(i, kind)

StSpec == StInit /\ [][StNext]_stVars

(***************************************************************************)
(* A directory that verify accepts is that of a whole run, of which no file  *)
(* was changed to another content: every request has its record, in order,   *)
(* what was sent on is the request with what the compressor returned, and    *)
(* the summary's sums are those of the requests; without a compressor        *)
(* nothing is saved (static_run.py:270-345).                                 *)
(***************************************************************************)
StVerifiedIsWhole ==
    StAccepts =>
        /\ measured.replacements = static.seen
        /\ \A i \in 1..Len(StManifest) :
            /\ measured.originals[i] = StManifest[i].frozen
            /\ measured.transformed[i] = With(StManifest[i].frozen, StManifest[i].segments, static.seen[i])
        /\ measured.summary.before = StExpected
        /\ measured.summary.after = SumOfField(measured.transformed, LengthOf)
        /\ static.compressor = "none" => measured.summary.after = StExpected

\* What leaves the guard, on its way out or into a measurement, is approved.
ApprovedEditsOnly == PrOnlyApprovedEdits /\ StVerifiedIsWhole
=============================================================================

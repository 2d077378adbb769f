---------------------------- MODULE Continuation ----------------------------
(***************************************************************************)
(* A screening that goes on as a new run of a newer source, of             *)
(* src/src/screening_run.py: _prepare_continuation and what it calls.      *)
(*                                                                         *)
(* The new run reads the directory of the earlier one and changes nothing  *)
(* in it.  Results that the limits of the earlier run cannot have touched  *)
(* are linked and not run again; the others are run again; the cost of     *)
(* everything is carried.  An earlier run may itself have been such a      *)
(* continuation, and may be continued more than once.                      *)
(*                                                                         *)
(* A bill is a pair of a run and an attempt: what a cost is made of.  The  *)
(* totals of the code are sequences of bills here, so that a bill left out *)
(* or counted twice shows.                                                 *)
(***************************************************************************)
EXTENDS Integers, Sequences, FiniteSets, FiniteSetsExt, Functions, SequencesExt

CONSTANTS
    CnTrials,
    CnRuns,      \* bound: runs
    CnAttempts,  \* bound: attempts of all runs
    CnVersions,  \* bound: ledger versions in use
    CnLimit,     \* calls of an attempt after which a version cuts it off
    CnFaults     \* bound: failed verifications, pending uploads, interrupts

NoLimit == 99
\* One quality result stands for the three.
CnQuality == {"pass"}

ASSUME CnAssumption ==
    /\ CnVersions \subseteq 1 .. 4
    /\ CnLimit \in [CnVersions -> 1 .. NoLimit]
    /\ \A v \in CnVersions : v \in {2, 3} => CnLimit[v] = NoLimit

VARIABLES
    chain,    \* the runs, in the order they were started
    cnFaults

cnVars == <<chain, cnFaults>>

NoCosts == [provider |-> <<>>, vm |-> <<>>, blob |-> <<>>]

\* Definitions named ...Slip are not part of the model.  Each is the next
\* definition with a mistake, used to see that a property would notice it.

\* A run: its ledger's version, the run it continues, the linked results, the
\* costs it carries, its own attempts, and what its directory has once it has
\* ended: retrieval.json, and the count of results in summary.json.
StartedRun(version, prior, links, costs) ==
    [version |-> version, prior |-> prior, links |-> links, carried |-> costs, attempts |-> <<>>,
     open |-> TRUE, sessions |-> 1, persisted |-> <<>>, written |-> FALSE, counted |-> Cardinality(links)]

CnInit ==
    /\ chain \in {<<StartedRun(v, 0, {}, NoCosts)>> : v \in CnVersions}
    /\ cnFaults = 0

CnWrong(isWrong) ==
    IF isWrong THEN cnFaults < CnFaults /\ cnFaults' = cnFaults + 1 ELSE UNCHANGED cnFaults

\* What a record says of an attempt.
Linked(r, i) ==
    LET a == chain[r].attempts[i]
    IN  [trial |-> a.trial, result |-> a.result, calls |-> a.calls, rejected |-> a.result = "provider_error", bill |-> <<r, i>>]

-----------------------------------------------------------------------------
(* A run                                                                   *)

OfTrial(run, t) == {i \in DOMAIN run.attempts : run.attempts[i].trial = t}

\* The scheduler's claim: a trial that is neither linked nor decided.
CnClaimable(run, t) ==
    /\ \A record \in run.links : record.trial # t
    /\ \/ OfTrial(run, t) = {}
       \/ \E i \in OfTrial(run, t) : OfTrial(run, t) = {i} /\ run.attempts[i].result = "setup_error" /\ run.attempts[i].state = "completed"

\* What an attempt may end in, and the calls it made: with its limit's number
\* of calls it may have been cut off.
CnOutcomes(version) ==
    {o \in [result : CnQuality, calls : 1 .. 3] : o.calls <= CnLimit[version]}
    \cup {[result |-> "provider_error", calls |-> 1], [result |-> "setup_error", calls |-> 0],
          [result |-> "timeout", calls |-> 1]}

Attempted == MapThenSumSet(LAMBDA r : Len(chain[r].attempts), DOMAIN chain)

\* complete_attempt of execute_screening.  Its evidence is verified and the
\* attempt recorded, then its batch; or the evidence is incomplete and the
\* attempt is paused; or the batch fails and the run ends.
CnExecute(r, t, outcome, how) ==
    LET run == chain[r]
        attempt == [trial |-> t, result |-> outcome.result, calls |-> outcome.calls, number |-> Cardinality(OfTrial(run, t)) + 1,
                    state |-> IF how = "incomplete" THEN "paused" ELSE "completed",
                    batch |-> how = "verified", item |-> IF how = "incomplete" THEN "pending" ELSE "uploaded"]
    IN  /\ run.open /\ Attempted < CnAttempts /\ CnClaimable(run, t)
        /\ outcome \in CnOutcomes(run.version)
        /\ CnWrong(how # "verified")
        /\ chain' = [chain EXCEPT ![r].attempts = Append(@, attempt),
                                  ![r].counted = IF how = "incomplete" THEN @ ELSE @ + 1,
                                  ![r].open = how = "verified"]

\* The finally of execute_screening: retrieval.json has the items of the spool.
\* In a later session the file exists, its write raises, and it stays.
CnEnd(r) ==
    /\ ~chain[r].written
    /\ chain' = [chain EXCEPT ![r].open = FALSE, ![r].written = TRUE,
                              ![r].persisted = [i \in DOMAIN chain[r].attempts |-> chain[r].attempts[i].item]]
    /\ UNCHANGED cnFaults

\* The process is interrupted and the run resumed, if nothing is paused.  What
\* the operator is trusted with, for nothing in the code looks: a run that was
\* continued is not resumed, and a run that goes on is not continued.
CnResume(r) ==
    /\ chain[r].sessions = 1 /\ chain[r].written /\ \A q \in DOMAIN chain : ~chain[q].open
    /\ \A q \in DOMAIN chain : chain[q].prior # r
    /\ \A i \in DOMAIN chain[r].attempts : chain[r].attempts[i].state = "completed"
    /\ CnWrong(TRUE)
    /\ chain' = [chain EXCEPT ![r].open = TRUE, ![r].sessions = 2]

\* The operator settles a paused attempt: its item is uploaded, the database
\* has its result, and summary.json keeps the count it had.
CnResolve(r, i) ==
    /\ ~chain[r].open /\ i \in DOMAIN chain[r].attempts
    /\ chain[r].attempts[i].state = "paused"
    /\ chain' = [chain EXCEPT ![r].attempts[i].state = "completed", ![r].attempts[i].item = "uploaded"]
    /\ UNCHANGED cnFaults

-----------------------------------------------------------------------------
(* What a continuation may use                                             *)

\* _legacy_policy_transition: which ledgers may follow each other,
TransitionAllowed(prior, current) ==
    \/ prior = current /\ current \in {2, 3, 4}
    \/ prior \in {1, 2, 3} /\ current \in {2, 3, 4}

OwnBoundary(current) == IF current = 4 THEN CnLimit[current] ELSE NoLimit

LegacyBoundarySlipOldOnly(prior, current) == IF prior = 1 THEN CnLimit[prior] ELSE NoLimit

\* and from how many calls on a result may have been cut off.
LegacyBoundary(prior, current) ==
    IF prior = 1 THEN Min({CnLimit[prior], OwnBoundary(current)}) ELSE OwnBoundary(current)

\* _no_limit_reuse_decision
Reusable(record, boundary) ==
    /\ record.calls = 0 \/ record.calls < boundary
    /\ record.result \notin {"timeout", "setup_error"}
    /\ record.result \in CnQuality \/ record.rejected

\* _verified_prior_blob_spool: every item of the spool is uploaded and verified,
SpoolVerified(run) ==
    run.attempts # <<>> /\ \A i \in DOMAIN run.attempts : run.attempts[i].item = "uploaded"

\* _merge_prior_retrieval: and none that retrieval.json has is different.
SpoolAgrees(run) == \A i \in DOMAIN run.persisted : run.persisted[i] = run.attempts[i].item

\* The items the continuation goes by: those of retrieval.json, or the spool's.
Retrieved(run, spool) == IF spool THEN DOMAIN run.attempts ELSE DOMAIN run.persisted

CompletedRows(run) == {i \in DOMAIN run.attempts : run.attempts[i].state = "completed"}

\* The trial's evidence is that of its last attempt that decided it: a first
\* attempt that was tried again does not match it, nor one still to be.
EvidenceOfTrial(run, i) == run.attempts[i].result # "setup_error" \/ run.attempts[i].number = 2

\* What is checked of each attempt.
AttemptAgrees(run, i, spool) ==
    /\ EvidenceOfTrial(run, i)
    /\ \A j \in OfTrial(run, run.attempts[i].trial) : j = i
    /\ i \in Retrieved(run, spool)

\* _prepare_continuation: where a check fails the earlier run cannot be
\* continued.
Continuable(run, spool, version) ==
    /\ TransitionAllowed(run.version, version)
    /\ run.written
    /\ IF spool THEN SpoolVerified(run) /\ SpoolAgrees(run)
       ELSE \A i \in DOMAIN run.persisted : run.persisted[i] = "uploaded"
    /\ CompletedRows(run) = DOMAIN run.attempts
    /\ Cardinality(CompletedRows(run)) + Cardinality(run.links) = run.counted
    /\ \A i \in CompletedRows(run) : AttemptAgrees(run, i, spool)

\* A result of the earlier run itself: its batch was verified, or the item was
\* in retrieval.json when the run ended.
VerificationKept(run, i) == run.attempts[i].batch \/ i \in DOMAIN run.persisted

\* The records: what the earlier run had linked, looked at again, and its own.
Linkable(r, boundary) ==
    {record \in chain[r].links : Reusable(record, boundary)}
    \cup {Linked(r, i) : i \in {j \in CompletedRows(chain[r]) :
                            Reusable(Linked(r, j), boundary) /\ VerificationKept(chain[r], j)}}

Bills(r, some) == SetToSeq({<<r, i>> : i \in some})

\* _continuation_state_costs: the requests of its own that the earlier run's
\* database has, and what it had carried itself.
ProviderBills(r) == chain[r].carried.provider \o Bills(r, DOMAIN chain[r].attempts)

\* _recovered_continuation_cost: the same for the machine's cost, of every
\* completed attempt, and for the operations of the spool.
CarriedCosts(r, spool) ==
    LET run == chain[r] IN
    [provider |-> ProviderBills(r),
     vm |-> run.carried.vm \o Bills(r, CompletedRows(run)),
     blob |-> run.carried.blob \o Bills(r, Retrieved(run, spool))]

\* execute_screening with continuation_directory: the new run is made, then
\* link_continuation fills its database; it takes no empty set of records.  The
\* bound: runs are one after the other.
CnContinue(r, spool, version) ==
    LET records == Linkable(r, LegacyBoundary(chain[r].version, version)) IN
    /\ Len(chain) < CnRuns /\ \A q \in DOMAIN chain : ~chain[q].open
    /\ Continuable(chain[r], spool, version)
    /\ records # {}
    /\ chain' = Append(chain, StartedRun(version, r, records, CarriedCosts(r, spool)))
    /\ UNCHANGED cnFaults

CnNext ==
    \E r \in DOMAIN chain :
       \/ \E t \in CnTrials, outcome \in CnOutcomes(chain[r].version), how \in {"verified", "incomplete", "batch_failed"} :
             CnExecute(r, t, outcome, how)
       \/ CnEnd(r) \/ CnResume(r)
       \/ \E i \in 1 .. CnAttempts : CnResolve(r, i)
       \/ \E spool \in BOOLEAN, version \in CnVersions : CnContinue(r, spool, version)

CnSpec == CnInit /\ [][CnNext]_cnVars

-----------------------------------------------------------------------------
(* Properties                                                              *)

\* _run_cost_summary: what a run says everything has cost.
Reported(run, r) == [provider |-> run.carried.provider \o Bills(r, DOMAIN run.attempts),
                     vm |-> run.carried.vm \o Bills(r, DOMAIN run.attempts),
                     blob |-> run.carried.blob \o Bills(r, DOMAIN run.attempts)]

\* Each run with those behind it.
Ancestors(runs) ==
    LET of[r \in 0 .. Len(runs)] == IF r = 0 THEN {} ELSE {r} \cup of[runs[r].prior]
    IN  of
BillsOf(some) == UNION {{<<q, i>> : i \in DOMAIN chain[q].attempts} : q \in some}

\* However the runs follow each other, a run reports each cost of itself and of
\* the runs behind it exactly once, in each of the three parts; and it has
\* linked a trial once, runs none of the linked again, and rests on no result
\* that a limit of its own or of the run it was made in can have cut off, or
\* that was not recorded as complete there.
CnCarriedOnce ==
    \A r \in DOMAIN chain :
       LET run == chain[r]
           bills == BillsOf(Ancestors(chain)[r])
       IN  /\ \A part \in {"provider", "vm", "blob"} :
                 /\ IsInjective(run.carried[part])
                 /\ ToSet(Reported(run, r)[part]) = bills /\ IsInjective(Reported(run, r)[part])
           /\ \A a, b \in run.links : a.trial = b.trial => a = b
           /\ \A record \in run.links :
                 LET made == chain[record.bill[1]]
                     attempt == made.attempts[record.bill[2]]
                 IN  /\ record.bill[1] \in Ancestors(chain)[run.prior]
                     /\ attempt.trial = record.trial /\ attempt.result = record.result
                     /\ attempt.state = "completed" /\ attempt.item = "uploaded"
                     /\ record.calls < CnLimit[made.version] /\ record.calls < CnLimit[run.version]
                     /\ OfTrial(run, record.trial) = {}
=============================================================================

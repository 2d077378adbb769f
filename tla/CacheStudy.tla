----------------------------- MODULE CacheStudy -----------------------------
(***************************************************************************)
(* The cache-reuse study over its cycles, of src/src/cache_reuse.py: what  *)
(* admits it, how the provider's answers become the metrics of a bundle    *)
(* and the contrasts of a cycle, and when the cycles give a verdict.       *)
(* CacheCycle has the steps inside a cycle; here a cycle is one step.      *)
(*                                                                         *)
(* An operator runs cycles one after the other and asks for the verdict    *)
(* when he likes.  One condition, a cold bundle and a warm one stand for   *)
(* the six bundles.  Shares are in hundredths.                             *)
(***************************************************************************)
EXTENDS Integers, Sequences, FiniteSets, FiniteSetsExt, SequencesExt

LOCAL INSTANCE TLC

CONSTANTS
    CsTasks,
    CsThreshold,    \* tokens of a prefix that the provider caches: 1024
    CsNamespace,    \* tokens that the namespace may add: 19
    CsScreenings,   \* bound: what the two launches of the screening counted
    CsChecks,       \* runtime checks beside that of the leader's approval
    CsPrices,       \* input and cached input prices to choose from
    CsBundles,      \* bound: answers that a bundle may collect
    CsTarget        \* cycles at the first boundary: 10

ASSUME CsAssumption == CsTarget \in Nat \ {0} /\ CsTarget % 2 = 0 /\ CsThreshold > CsNamespace

NoCount == -1   \* the provider does not say how much of the input was cached
NoUsage == [input |-> NoCount, cached |-> NoCount]

VARIABLES
    contract,   \* the eligibility decision: screened tokens and strata
    facts,      \* the runtime facts and the ledger's status
    setup,      \* the hashes and pins that a cycle is bound to
    cycles,     \* the cycle summaries, in the order they were made
    concluded   \* history: the conclusions drawn, from how many cycles, and whether
                \* the quality comparison was conclusive

csVars == <<contract, facts, setup, cycles, concluded>>

\* Definitions named ...Slip are not part of the model.  Each is the next
\* definition with a mistake, used to see that a property would notice it.

-----------------------------------------------------------------------------
(* Admission                                                               *)

Stratum(tokens) == IF tokens >= CsThreshold THEN "eligible" ELSE "not_applicable"

\* validate_eligibility_contract: both launches counted the same, the strata
\* follow from the threshold, and the namespace moves no task between them.
EligibilityValid(c) ==
    \A t \in CsTasks :
       /\ c.tokens[t][1] = c.tokens[t][2]
       /\ c.strata[t] = Stratum(c.tokens[t][1])
       /\ c.strata[t] = "not_applicable" => c.tokens[t][1] + CsNamespace < CsThreshold

\* validate_cache_ledger: the parts of it that an approved ledger may differ in.
LedgerValid(f) ==
    /\ (f.status = "approved") <=> f.authorized
    /\ f.prices[2] <= f.prices[1]

\* validate_runtime_facts: the leader approves only what is verified, and the
\* prefix check is bound to an eligibility decision.
RuntimeFactsValid(f, c) ==
    /\ f.approved => f.verified = CsChecks
    /\ f.bound => EligibilityValid(c)
    /\ "prefix" \in f.verified => f.bound

\* native_cache_contract_checks: the native ledger names the same model,
\* generation and verified prices, and is approved itself.
NativeContract(f) == f.priced /\ f.sameNative

\* doctor: "go" when every check passes.
Admits(f, c) ==
    /\ LedgerValid(f) /\ RuntimeFactsValid(f, c) /\ NativeContract(f)
    /\ f.authorized /\ f.verified = CsChecks /\ f.approved /\ f.endpoint /\ f.bound
    /\ f.prices[1] > 0

Facts == [status : {"template", "approved"}, authorized : BOOLEAN, prices : CsPrices, priced : BOOLEAN,
          verified : SUBSET CsChecks, approved : BOOLEAN, endpoint : BOOLEAN, sameNative : BOOLEAN,
          bound : BOOLEAN]

CsInit ==
    /\ contract \in [tokens : CsScreenings, strata : [CsTasks -> {"eligible", "not_applicable"}]]
    /\ facts \in Facts
    /\ Admits(facts, contract)
    /\ setup = 1
    /\ cycles = <<>>
    /\ concluded = {}

-----------------------------------------------------------------------------
(* From answers to metrics                                                 *)

UsageStatusSlipMissingIsZero(answer) ==
    IF answer.http = 429 THEN "rate_limited"
    ELSE IF answer.http # 200 THEN "transport_error"
    ELSE IF answer.usage = NoUsage THEN "missing_native_usage"
    ELSE IF answer.usage.input = 0 THEN "invalid_denominator"
    ELSE "measured"

\* provider_usage_record: an answer that does not say how much was cached has
\* no usage; it is not an answer of which nothing was cached.
UsageStatus(answer) ==
    IF answer.http = 429 THEN "rate_limited"
    ELSE IF answer.http # 200 THEN "transport_error"
    ELSE IF answer.usage.cached = NoCount THEN "missing_native_usage"
    ELSE IF answer.usage.input = 0 THEN "invalid_denominator"
    ELSE "measured"

Cached(answer) == IF answer.usage.cached = NoCount THEN 0 ELSE answer.usage.cached
InputCost(answer) ==
    (answer.usage.input - Cached(answer)) * facts.prices[1] + Cached(answer) * facts.prices[2]

TotalOf(f(_), answers, some) == MapThenSumSet(LAMBDA i : f(answers[i]), some)

\* _usage_totals: one answer without usage makes the whole stratum invalid.
UsageTotals(answers, some) ==
    IF (\A i \in some : UsageStatus(answers[i]) = "measured") /\ some # {} /\ facts.priced
    THEN [valid |-> TRUE,
          share |-> (100 * TotalOf(Cached, answers, some)) \div TotalOf(LAMBDA a : a.usage.input, answers, some),
          cost |-> TotalOf(InputCost, answers, some)]
    ELSE [valid |-> FALSE]

\* summarize_native_bundle takes the answers with status 200: a request that
\* was limited and tried again counts once.  The cache metrics are those of
\* the eligible tasks, the whole bundle must be measured all the same.
BundleMetrics(answers) ==
    LET successful == {i \in DOMAIN answers : answers[i].http = 200}
        primary == UsageTotals(answers, {i \in successful : contract.strata[answers[i].task] = "eligible"})
    IN  IF primary.valid /\ UsageTotals(answers, successful).valid THEN primary ELSE [valid |-> FALSE]

\* _cycle_contrasts: warm against cold, and only of valid bundles.
Contrasts(cold, warm) == [share |-> warm.share - cold.share, cost |-> warm.cost - cold.cost]

-----------------------------------------------------------------------------
(* Stability and verdict                                                   *)

Values(metric, some) == [i \in DOMAIN some |-> some[i].contrasts[metric]]
SignOf(n) == IF n > 0 THEN 1 ELSE IF n < 0 THEN -1 ELSE 0
\* _median, twice its value: the two in the middle, or the one there twice.
Median(values) ==
    LET ordered == SortSeq(values, LAMBDA a, b : a < b) IN
    ordered[(Len(values) + 1) \div 2] + ordered[Len(values) \div 2 + 1]

\* _series_stable: the ranges overlap and the medians have the same sign.
SeriesStable(first, second) ==
    /\ Max({Min(ToSet(first)), Min(ToSet(second))}) <= Min({Max(ToSet(first)), Max(ToSet(second))})
    /\ SignOf(Median(first)) = SignOf(Median(second))

\* _stability_series, for the contrast and its two metrics.
StabilitySeries(some, split) ==
    \A metric \in {"share", "cost"} :
       SeriesStable(Values(metric, SubSeq(some, 1, split)), Values(metric, SubSeq(some, split + 1, Len(some))))

\* _validate_cycle_cohort: the numbers 1, 2, ... in order, under one setup.
CohortValid(some) ==
    \A i \in DOMAIN some : some[i].number = i /\ some[i].setup = some[1].setup

\* The longer evaluation is only for a study that was unstable at the first.
RecordedUnstable(some) == ~StabilitySeries(SubSeq(some, 1, CsTarget), CsTarget \div 2)

\* cache_stability; "refused" where it raises.
CacheStability(some) ==
    LET n == Len(some) IN
    IF ~CohortValid(some) THEN "refused"
    ELSE IF n < CsTarget THEN "need_valid_cycles"
    ELSE IF n = CsTarget THEN IF StabilitySeries(some, n \div 2) THEN "stable" ELSE "extend_to_20"
    ELSE IF n # 2 * CsTarget \/ ~RecordedUnstable(some) THEN "refused"
    ELSE IF StabilitySeries(some, n \div 2) THEN "stable" ELSE "same_condition_width_excess"

\* cache_verdict.  Its first check looks for cycles marked with a reason that
\* nothing in the program writes: a cycle without usage leaves no summary.
CacheVerdict(some, qualityConclusive) ==
    LET each(metric, holds(_)) == \A i \in DOMAIN some : holds(some[i].contrasts[metric])
        up(n) == n > 0
        down(n) == n < 0
        none(n) == n = 0
    IN  IF CacheStability(some) # "stable" THEN CacheStability(some)
        ELSE IF ~qualityConclusive THEN "quality_inconclusive"
        ELSE IF each("share", up) /\ each("cost", down) THEN "supported"
        ELSE IF each("share", none) /\ each("cost", none) THEN "not_observed"
        ELSE IF each("share", down) /\ each("cost", up) THEN "wrong_direction"
        ELSE "no_separation"

Open == {"refused", "need_valid_cycles", "extend_to_20"}

-----------------------------------------------------------------------------
(* The study                                                               *)

\* execute_cycle: a cycle with an invalid bundle leaves no summary, and its
\* number is run again.  The bound: nobody goes on with a refused cohort.
CsRunCycle(number, cold, warm) ==
    LET metrics == <<BundleMetrics(cold), BundleMetrics(warm)>> IN
    /\ Len(cycles) < 2 * CsTarget /\ CohortValid(cycles)
    /\ number \in 1 .. 2 * CsTarget
    /\ metrics[1].valid /\ metrics[2].valid
    /\ cycles' = Append(cycles,
          [number |-> number, setup |-> setup, contrasts |-> Contrasts(metrics[1], metrics[2]),
           silent |-> \E a \in ToSet(cold) \cup ToSet(warm) :
                         a.http = 200 /\ a.usage.cached = NoCount])
    /\ UNCHANGED <<contract, facts, setup, concluded>>

\* A new ledger, or new facts, are approved between two cycles.
CsSetUpAgain ==
    /\ setup = 1 /\ cycles # <<>> /\ CohortValid(cycles)
    /\ setup' = 2
    /\ UNCHANGED <<contract, facts, cycles, concluded>>

\* The caller says whether the comparison of quality was conclusive, and may say
\* another thing at another time.
CsEvaluate(qualityConclusive) ==
    LET verdict == CacheVerdict(cycles, qualityConclusive) IN
    /\ verdict \notin Open
    /\ concluded' = concluded \cup {[from |-> Len(cycles), quality |-> qualityConclusive, verdict |-> verdict]}
    /\ UNCHANGED <<contract, facts, setup, cycles>>

CsNext ==
    \/ \E number \in {Len(cycles), Len(cycles) + 1}, cold, warm \in CsBundles : CsRunCycle(number, cold, warm)
    \/ CsSetUpAgain
    \/ \E qualityConclusive \in BOOLEAN : CsEvaluate(qualityConclusive)

CsSpec == CsInit /\ [][CsNext]_csVars

-----------------------------------------------------------------------------
(* Properties                                                              *)

\* However often the operator looks, and whatever he runs in between, a study's
\* conclusions are all from one number of cycles of one setup, and differ only
\* where quality was conclusive for one and not for the other, which then is
\* "quality_inconclusive"; without conclusive quality there is no verdict on
\* the effect.  No answer without the provider's usage is in any cycle.
CsOneConclusion ==
    /\ \A a, b \in concluded : a.from = b.from /\ (a.quality = b.quality => a.verdict = b.verdict)
    /\ \A a, b \in concluded : a.verdict = b.verdict \/ "quality_inconclusive" \in {a.verdict, b.verdict}
    /\ \A a \in concluded : a.verdict \in {"quality_inconclusive", "same_condition_width_excess"} \/ a.quality
    /\ \A a \in concluded : \A i \in 1 .. a.from :
          cycles[i].number = i /\ cycles[i].setup = cycles[1].setup
    /\ \A i \in DOMAIN cycles : ~cycles[i].silent
=============================================================================

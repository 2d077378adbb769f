------------------------------- MODULE MCTools -------------------------------
(* The components that no other run instantiates, on small instances.  They  *)
(* share no state: `tool` names the one that moves in a behaviour.           *)
EXTENDS WorkerPool, Recovery, Cleanup, CacheCycle, VerifierReplay, CacheStudy,
        AttemptEvidence, StaticRun, AccountlessRun, LocalRun, FrontEnds, Carrier

VARIABLE tool

MCOriginal == <<1, 2>>
MCConditions == <<"none", "squeez">>

\* The screening counts the tasks' tokens twice; the prefix is eligible at 3.
MCScreenings == [{"big", "small"} -> {<<1, 1>>, <<2, 2>>, <<2, 1>>, <<4, 4>>}]
MCPrices == {<<2, 1>>, <<1, 2>>}
\* A bundle is an answer for the big task, perhaps after one that was limited,
\* and one for the small task.
MCAnswer(t, h, i, c) == [task |-> t, http |-> h, usage |-> [input |-> i, cached |-> c]]
MCRest == MCAnswer("small", 200, 2, 0)
MCBundles ==
    {<<MCAnswer("big", 200, 2, c), MCRest>> : c \in {0, 1, -1}}
    \cup {<<MCAnswer("big", 429, -1, -1), MCAnswer("big", 200, 2, 1), MCRest>>,
          <<MCAnswer("big", 200, -1, -1), MCRest>>, <<MCAnswer("big", 200, 0, 0), MCRest>>,
          <<MCAnswer("big", 200, 2, 1), MCAnswer("small", 200, -1, -1)>>}

\* What a verifier may leave: each verdict, a reward that its tests or its file
\* contradict, and nothing.
MCLeft(r, t, f) == [reward |-> r, tests |-> t, file |-> f]
MCJudgements ==
    {MCLeft(1, "pass", TRUE), MCLeft(0, "fail", TRUE), MCLeft(0, "fail_format", TRUE), MCLeft(1, "fail", TRUE),
     MCLeft(0, "fail_timeout", TRUE), MCLeft(0, "fail", FALSE), MCLeft(-1, "none", FALSE)}

\* A request of two messages, whose last character may be replaced; cut as it
\* is, with a gap, with a candidate where none may be, and changed since.
MCMessage(role, content) == [role |-> role, content |-> content]
MCPart(k, a, b, text, c) == [message |-> k, start |-> a, end |-> b, text |-> text, candidate |-> c, category |-> "log"]
MCRequest == [settings |-> "as_frozen", messages |-> <<MCMessage("user", <<1>>), MCMessage("user", <<1, 2>>)>>]
MCCut == <<MCPart(1, 0, 1, <<1>>, FALSE), MCPart(2, 0, 1, <<1>>, FALSE), MCPart(2, 1, 2, <<2>>, TRUE)>>
MCGiven(source, segments) == [source |-> source, frozen |-> MCRequest, segments |-> segments]
MCGivenRequests ==
    {MCGiven(MCRequest, MCCut), MCGiven(MCRequest, SubSeq(MCCut, 1, 2)),
     MCGiven(MCRequest, <<MCPart(1, 0, 1, <<1>>, TRUE)>> \o Tail(MCCut)),
     MCGiven([MCRequest EXCEPT !.messages[1].content = <<2>>], <<MCPart(1, 0, 1, <<2>>, FALSE)>> \o Tail(MCCut))}
MCTexts == {<<>>, <<2>>, <<3>>}
MCManifest == <<MCGiven(MCRequest, MCCut),
                [MCGiven([MCRequest EXCEPT !.settings = "other"], MCCut) EXCEPT !.frozen.settings = "other"]>>
MCStages == <<"runtime_import_started", "inference_started">>

\* Each kind of request as it should be, unlike its ledger, and lacking something.
MCFeRequest(kind, differs, lacks) == [kind |-> kind, differs |-> differs, lacks |-> lacks]
MCFeRequests ==
    {MCFeRequest(k, d, {}) : k \in {"static", "native", "benchmark", "comparison"}, d \in {{}, {"model"}}}
    \cup {MCFeRequest(k, {}, {l}) : k \in {"native", "benchmark"}, l \in {"commit", "endpoint", "approval"}}
    \cup {MCFeRequest("native", {}, {"baseline"}), MCFeRequest("static", {}, {"commit"})}
\* An earlier run judged the first task, with or without its evidence, or not, and the second.
MCJudged(t, s, c, r) == [task |-> t, source |-> s, complete |-> c, result |-> r]
MCFeEvidence ==
    {{}} \cup {{MCJudged("t1", "local", c, "wrong_answer"), MCJudged("t2", s, TRUE, "pass")} :
                c \in BOOLEAN, s \in {"linked", "local"}}
MCInventory == <<"t1", "t2">>

\* A carrier's owner whose attestation holds up to 1, and the flaws it may have;
\* receipts that hold up to 2 or 1, one of which may be of another ledger or invalid.
MCAttested == [n \in CrInputs |-> 1]
MCOwner(definition, valid, absent, missing) ==
    [definition |-> definition, absent |-> absent, missing |-> missing, deadline |-> 3,
     attestation |-> [valid |-> valid, observed |-> 0, through |-> 1, versions |-> MCAttested]]
MCReceipts(through, of, valid) ==
    [n \in CrInputs |-> [version |-> 1, valid |-> n # "price" \/ valid, observed |-> 0, through |-> through,
                        of |-> IF n = "outbound" THEN of ELSE 1]]
MCSound == MCOwner("as_fixed", TRUE, {}, {})
MCPrepared ==
    {[gate |-> MCSound, inputs |-> i] : i \in
        {MCReceipts(2, 1, TRUE), MCReceipts(1, 1, TRUE), MCReceipts(2, 2, TRUE), MCReceipts(2, 1, FALSE)}}
    \cup {[gate |-> o, inputs |-> MCReceipts(2, 1, TRUE)] : o \in
        {MCOwner("wrong_source", TRUE, {}, {}), MCOwner("as_fixed", FALSE, {}, {}),
         MCOwner("as_fixed", TRUE, {"attestation"}, {}), MCOwner("as_fixed", TRUE, {"solver"}, {}),
         MCOwner("as_fixed", TRUE, {}, {"approval"})}}
MCOnePrepared == [gate |-> MCSound, inputs |-> MCReceipts(2, 1, TRUE)]

Init ==
    /\ tool \in {"pool", "recovery", "cleanup", "cycle", "replay", "study", "attempt", "guard", "static", "accountless", "local",
                 "front", "carrier"}
    /\ PoolInit /\ RecInit /\ ClnInit /\ CcInit /\ RvInit /\ CsInit /\ AeInit
    /\ PrInit /\ AnInit /\ LrInit /\ StInit /\ FeInit /\ CrInit
    /\ tool # "static" => static.compressor = "none"
    /\ tool # "front" => feRequest = MCFeRequest("static", {}, {}) /\ front.execute
    /\ tool # "carrier" => gate = MCOnePrepared.gate /\ inputs = MCOnePrepared.inputs
    /\ tool # "cleanup" => clnKind = "runtime"
    /\ tool # "study" => contract.tokens = [t \in CsTasks |-> IF t = "big" THEN <<4, 4>> ELSE <<1, 1>>]

Vars == <<poolVars, recVars, clnVars, ccVars, rvVars, csVars, aeVars, prVars, stVars, anVars, lrVars, feVars, crVars>>

Next ==
    \/ tool = "pool" /\ PoolNext
       /\ UNCHANGED <<tool, recVars, clnVars, ccVars, rvVars, csVars, aeVars, prVars, stVars, anVars, lrVars, feVars, crVars>>
    \/ tool = "recovery" /\ RecNext
       /\ UNCHANGED <<tool, poolVars, clnVars, ccVars, rvVars, csVars, aeVars, prVars, stVars, anVars, lrVars, feVars, crVars>>
    \/ tool = "cleanup" /\ ClnNext
       /\ UNCHANGED <<tool, poolVars, recVars, ccVars, rvVars, csVars, aeVars, prVars, stVars, anVars, lrVars, feVars, crVars>>
    \/ tool = "cycle" /\ CcNext
       /\ UNCHANGED <<tool, poolVars, recVars, clnVars, rvVars, csVars, aeVars, prVars, stVars, anVars, lrVars, feVars, crVars>>
    \/ tool = "replay" /\ RvNext
       /\ UNCHANGED <<tool, poolVars, recVars, clnVars, ccVars, csVars, aeVars, prVars, stVars, anVars, lrVars, feVars, crVars>>
    \/ tool = "study" /\ CsNext
       /\ UNCHANGED <<tool, poolVars, recVars, clnVars, ccVars, rvVars, aeVars, prVars, stVars, anVars, lrVars, feVars, crVars>>
    \/ tool = "attempt" /\ AeNext
       /\ UNCHANGED <<tool, poolVars, recVars, clnVars, ccVars, rvVars, csVars, prVars, stVars, anVars, lrVars, feVars, crVars>>
    \/ tool = "guard" /\ PrNext
       /\ UNCHANGED <<tool, poolVars, recVars, clnVars, ccVars, rvVars, csVars, aeVars, stVars, anVars, lrVars, feVars, crVars>>
    \/ tool = "static" /\ StNext
       /\ UNCHANGED <<tool, poolVars, recVars, clnVars, ccVars, rvVars, csVars, aeVars, prVars, anVars, lrVars, feVars, crVars>>
    \/ tool = "accountless" /\ AnNext
       /\ UNCHANGED <<tool, poolVars, recVars, clnVars, ccVars, rvVars, csVars, aeVars, prVars, stVars, lrVars, feVars, crVars>>
    \/ tool = "local" /\ LrNext
       /\ UNCHANGED <<tool, poolVars, recVars, clnVars, ccVars, rvVars, csVars, aeVars, prVars, stVars, anVars, feVars, crVars>>
    \/ tool = "front" /\ FeNext
       /\ UNCHANGED <<tool, poolVars, recVars, clnVars, ccVars, rvVars, csVars, aeVars, prVars, stVars, anVars, lrVars, crVars>>
    \/ tool = "carrier" /\ CrNext
       /\ UNCHANGED <<tool, poolVars, recVars, clnVars, ccVars, rvVars, csVars, aeVars, prVars, stVars, anVars, lrVars, feVars>>

Spec == Init /\ [][Next]_<<tool, Vars>>
=============================================================================

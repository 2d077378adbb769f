----------------------------- MODULE Protection -----------------------------
(***************************************************************************)
(* The guard that lets a request out only with its approved edits          *)
(* (src/src/protection.py, src/src/pipeline.py).  A request is a frozen     *)
(* source cut into segments; the texts of its candidate segments may be     *)
(* replaced, everything else must leave as it came.  The caller keeps the   *)
(* object that prepare returns and may change it at any moment; the sender  *)
(* it hands over is called by forward and reads the payload later.          *)
(***************************************************************************)
EXTENDS Integers, Sequences, FiniteSets, SequencesExt

CONSTANTS
    Guards,        \* the requests of one run
    GivenRequests, \* what a guard is constructed from: source, frozen, segments
    Texts,         \* the texts a compressor may return
    TextsLimit,    \* bounds how many it returns
    SentLimit      \* bounds how often a sender is called

\* A request and its manifest; a character is its code point.
Segments ==
    [message : Nat, start : Nat, end : Nat, text : Seq(Nat), candidate : BOOLEAN, category : STRING]
Requests == [messages : Seq([role : STRING, content : Seq(Nat)]), settings : STRING]
FrozenRequests == [source : Requests, frozen : Requests, segments : Seq(Segments)]

ASSUME PrAssumption ==
    GivenRequests \subseteq FrozenRequests /\ Texts \subseteq Seq(Nat) /\ TextsLimit \in Nat

VARIABLES
    guard,     \* [Guards -> the guard of a request, or NoGuard]
    payload,   \* [Guards -> the transformed object, which its holder may change]
    outgoing,  \* [Guards -> what forward handed to the sender and is not read yet]
    sent,      \* what senders read, with the guard, in order
    gateFails, \* RunProtectionGate.failure is set
    pipeFails  \* ObservationPipeline.failure is set

prVars == <<guard, payload, outgoing, sent, gateFails, pipeFails>>

NoGuard == [none |-> TRUE]
Empty == [none |-> TRUE]

\* The segments of a message, as places in the manifest's list, and where the
\* last of some ends.
Of(segments, k) == {i \in DOMAIN segments : segments[i].message = k}
EndOf(segments, some) == IF some = {} THEN 0 ELSE segments[Max(some)].end

\* A message is the concatenation of its segments, which are as frozen.
Covered(content, segments, k) ==
    /\ \A i \in Of(segments, k) :
        LET s == segments[i] IN
        /\ s.start = EndOf(segments, {j \in Of(segments, k) : j < i})
        /\ s.start < s.end /\ s.end <= Len(content)
        /\ s.text = SubSeq(content, s.start + 1, s.end)
    /\ Len(content) = EndOf(segments, Of(segments, k))

\* The texts a request may be changed in, message by message.
CandidatesOf(segments) == {i \in DOMAIN segments : segments[i].candidate}
RankOf(segments, i) ==
    Cardinality({j \in CandidatesOf(segments) :
                    \/ segments[j].message < segments[i].message
                    \/ segments[j].message = segments[i].message /\ j <= i})
TextAt(source, s) == SubSeq(source.messages[s.message].content, s.start + 1, s.end)
CandidateTexts(source, segments) ==
    [n \in 1 .. Cardinality(CandidatesOf(segments)) |->
        TextAt(source, segments[CHOOSE i \in CandidatesOf(segments) : RankOf(segments, i) = n])]

MayBeTransformed(source, segment) ==
    /\ segment.category = "log" /\ segment.message # 1
    /\ source.messages[segment.message].role = "user"

WellFormed(given) ==
    LET source == given.source
        count == Len(source.messages)
    IN  /\ given.source = given.frozen
        /\ count > 0
        /\ \A s \in ToSet(given.segments) : s.message \in 1..count
        /\ \A k \in 1..count : Covered(source.messages[k].content, given.segments, k)
        /\ \A s \in ToSet(given.segments) : s.candidate => MayBeTransformed(source, s)

\* The request with its candidates replaced in order.
With(source, segments, replacements) ==
    LET Piece(i) == IF segments[i].candidate THEN replacements[RankOf(segments, i)] ELSE TextAt(source, segments[i])
        Pieces(k) == [i \in DOMAIN segments |-> IF segments[i].message = k THEN Piece(i) ELSE <<>>]
    IN  [source EXCEPT !.messages =
            [k \in DOMAIN source.messages |-> [source.messages[k] EXCEPT !.content = FlattenSeq(Pieces(k))]]]

MadeGuard(given) == [given |-> given, fails |-> ~WellFormed(given), expected |-> Empty]

Broken(g) == [guard EXCEPT ![g].fails = TRUE]
Usable(g) == guard[g] # NoGuard /\ ~guard[g].fails
ReplacementsFit(given, replacements) == Len(replacements) = Cardinality(CandidatesOf(given.segments))

(***************************************************************************)
(* The guard's methods.  A guard that failed once raises on every call.     *)
(***************************************************************************)
PrConstruct(g, given) ==
    /\ guard[g] = NoGuard
    /\ guard' = [guard EXCEPT ![g] = MadeGuard(given)]
    /\ UNCHANGED <<payload, outgoing, sent, gateFails, pipeFails>>

PrPrepare(g, replacements) ==
    /\ Usable(g)
    /\ IF guard[g].expected = Empty /\ ReplacementsFit(guard[g].given, replacements)
       THEN LET made == With(guard[g].given.source, guard[g].given.segments, replacements)
            IN  /\ guard' = [guard EXCEPT ![g].expected = made]
                /\ payload' = [payload EXCEPT ![g] = made]
       ELSE guard' = Broken(g) /\ UNCHANGED payload
    /\ UNCHANGED <<outgoing, sent, gateFails, pipeFails>>

\* verify compares canonical forms; what has none is "not JSON".
Verified(g, object) == guard[g].expected # Empty /\ object = guard[g].expected

PrVerify(g) ==
    /\ Usable(g)
    /\ guard' = IF Verified(g, payload[g]) THEN guard ELSE Broken(g)
    /\ UNCHANGED <<payload, outgoing, sent, gateFails, pipeFails>>

\* RunProtectionGate.forward: the guard's forward copies, verifies the copy and
\* hands it to the sender; a refusal stops the whole run, a later call of any
\* guard does nothing.
PrForward(g) ==
    /\ guard[g] # NoGuard /\ outgoing[g] = Empty /\ ~gateFails /\ Len(sent) < SentLimit
    /\ IF Usable(g) /\ Verified(g, payload[g])
       THEN outgoing' = [outgoing EXCEPT ![g] = payload[g]] /\ UNCHANGED <<guard, gateFails>>
       ELSE guard' = Broken(g) /\ gateFails' = TRUE /\ UNCHANGED outgoing
    /\ UNCHANGED <<payload, sent, pipeFails>>

\* The sender reads the copy it was given.
HandedSlipSameObject(g) == payload[g]
Handed(g) == outgoing[g]

PrSend(g) ==
    /\ outgoing[g] # Empty
    /\ sent' = Append(sent, [guard |-> g, object |-> Handed(g)])
    /\ outgoing' = [outgoing EXCEPT ![g] = Empty]
    /\ UNCHANGED <<guard, payload, gateFails, pipeFails>>

\* The holder of the object that prepare returned changes it.
PrChange(g, object) ==
    /\ guard[g] # NoGuard /\ guard[g].expected # Empty /\ payload[g] # object
    /\ payload' = [payload EXCEPT ![g] = object]
    /\ UNCHANGED <<guard, outgoing, sent, gateFails, pipeFails>>

\* ObservationPipeline.transform: every step on one request, with a compressor
\* that returns one text for each candidate or raises.  The pipeline has a gate
\* of its own; any exception stops it.
PrTransform(g, given, replacements, raises) ==
    LET made == MadeGuard(given)
        whole == With(given.source, given.segments, replacements)
        done == ~made.fails /\ ~raises
    IN  /\ ~pipeFails /\ guard[g] = NoGuard /\ Len(sent) < SentLimit
        /\ done => ReplacementsFit(given, replacements)
        /\ ~done => replacements = <<>>
        /\ guard' = [guard EXCEPT ![g] = IF done THEN [made EXCEPT !.expected = whole] ELSE made]
        /\ payload' = IF done THEN [payload EXCEPT ![g] = whole] ELSE payload
        /\ sent' = IF done THEN Append(sent, [guard |-> g, object |-> whole]) ELSE sent
        /\ pipeFails' = ~done
        /\ UNCHANGED <<outgoing, gateFails>>

(***************************************************************************)
PrInit ==
    /\ guard = [g \in Guards |-> NoGuard]
    /\ payload = [g \in Guards |-> Empty]
    /\ outgoing = [g \in Guards |-> Empty]
    /\ sent = <<>> /\ gateFails = FALSE /\ pipeFails = FALSE

Replacements == UNION {[1..n -> Texts] : n \in 0..TextsLimit}
Objects == {given.source : given \in GivenRequests} \cup {Empty}

PrNext ==
    \E g \in Guards :
        \/ \E given \in GivenRequests : PrConstruct(g, given)
        \/ \E r \in Replacements : PrPrepare(g, r)
        \/ PrVerify(g) \/ PrForward(g) \/ PrSend(g)
        \/ \E object \in Objects : PrChange(g, object)
        \/ \E given \in GivenRequests, r \in Replacements :
                \E raises \in BOOLEAN : PrTransform(g, given, r, raises)

PrSpec == PrInit /\ [][PrNext]_prVars

(***************************************************************************)
(* What a sender reads is the frozen request with nothing changed but the   *)
(* texts of its candidates, which are logs in a user's message after the    *)
(* first ("Fail closed when a transformation changes a designated protected *)
(* span", protection.py:1), and it is one object for all calls of a guard,  *)
(* whatever the holder of the object does between prepare and the sending.  *)
(***************************************************************************)
PrOnlyApprovedEdits ==
    /\ \A n \in 1..Len(sent) :
        LET given == guard[sent[n].guard].given
            object == sent[n].object
            segments == given.segments
        IN  /\ \E r \in Replacements : ReplacementsFit(given, r) /\ object = With(given.frozen, segments, r)
            /\ object.settings = given.frozen.settings
            /\ \A k \in DOMAIN given.frozen.messages :
                LET before == given.frozen.messages[k]
                    after == object.messages[k]
                IN  /\ after.role = before.role
                    /\ (k = 1 \/ before.role # "user") => after = before
                    /\ \A i \in Of(segments, k) \ CandidatesOf(segments) :
                        /\ (\A j \in Of(segments, k) : i <= j) => IsPrefix(segments[i].text, after.content)
                        /\ (\A j \in Of(segments, k) : j <= i) => IsSuffix(segments[i].text, after.content)
    /\ \A m, n \in 1..Len(sent) : sent[m].guard = sent[n].guard => sent[m].object = sent[n].object
=============================================================================

------------------------------ MODULE Recovery ------------------------------
(***************************************************************************)
(* Recovery of a compressed original: the registry, the supplier and the   *)
(* adapter of src/src/squeez_recovery.py, and the bridge with its          *)
(* capabilities and nonces of src/src/local_recovery.py.                   *)
(*                                                                         *)
(* The registry and the capability records live in memory; capability and  *)
(* nonce files live on disk, and outlive a restart.  The harness asks the  *)
(* adapter directly, with the cursor it was last given; a peer asks        *)
(* through the bridge, which never passes a cursor on.                     *)
(*                                                                         *)
(* An original is the sequence of the widths, in bytes, of its characters. *)
(* A cursor is the offset it was made for; no cursor is offset 0.          *)
(***************************************************************************)
EXTENDS Integers, Sequences, FiniteSets, SequencesExt, FiniteSetsExt

CONSTANTS
    RecHandles, BridgeHandle,   \* handles, and the one the bridge is bound to
    RecOriginal,                \* widths of the characters of every original
    RecLabels, RecPeers, RecNonces,
    RecTtl, RecRetention, RecMaxResponse, RecMaxTotal, RecMaxCalls,
    RecTrialCalls, RecTrialBytes,          \* the recovery policy
    CapTtl, CapCalls, CapBytes,            \* the bridge policy
    RecLastTime, RecFaults                 \* bounds: the clock; lost answers and restarts

\* The limits that validate lets through.
RecoveryPolicyValid ==
    /\ {RecTtl, RecRetention, RecMaxResponse, RecMaxTotal, RecMaxCalls, RecTrialCalls, RecTrialBytes}
          \subseteq Nat \ {0}
    /\ RecTtl <= RecRetention /\ RecMaxResponse <= RecMaxTotal
    /\ RecMaxCalls <= RecTrialCalls /\ RecMaxTotal <= RecTrialBytes
BridgePolicyValid == {CapTtl, CapCalls, CapBytes} \subseteq Nat \ {0}

ASSUME RecAssumption ==
    /\ RecoveryPolicyValid /\ BridgePolicyValid
    /\ RecOriginal \in Seq(1 .. 4) \ {<<>>}
    /\ BridgeHandle \in RecHandles /\ IsFiniteSet(RecHandles) /\ IsFiniteSet(RecNonces)

VARIABLES
    handle,     \* the registry: a record for each handle issued
    usage,      \* the trial's supplier calls and bytes
    capability, \* capability records in memory
    onDisk,     \* labels and <<label, nonce>> pairs that have a file
    clock,
    caller,     \* the chunks that arrived, for each handle
    served,     \* supplier calls and bytes that each nonce of each label was given
    recFaults

recVars == <<handle, usage, capability, onDisk, clock, caller, served, recFaults>>

Unknown == [state |-> "unknown"]

\* Definitions named ...Slip are not part of the model.  Each is the next
\* definition with a mistake, used to see that a property would notice it.

RecInit ==
    /\ handle = [h \in RecHandles |-> Unknown]
    /\ usage = [calls |-> 0, bytes |-> 0]
    /\ capability = [l \in RecLabels |-> Unknown]
    /\ onDisk = {}
    /\ clock = 0
    /\ caller = [h \in RecHandles |-> <<>>]
    /\ served = [bought \in RecLabels \X RecNonces |-> [calls |-> 0, bytes |-> 0]]
    /\ recFaults = 0

RecFault == recFaults < RecFaults /\ recFaults' = recFaults + 1

SumOf(f, some) == MapThenSumSet(LAMBDA x : f[x], some)

-----------------------------------------------------------------------------
(* The supplier: one process, one answer                                   *)

\* Where a character ends.
OffsetAfter(n) == SumOf(RecOriginal, 1 .. n)
Offsets == {OffsetAfter(n) : n \in 0 .. Len(RecOriginal)}
OriginalBytes == OffsetAfter(Len(RecOriginal))

\* What a supplier process shows: whether it was killed for its time, left
\* with an error or with text on stderr, answered once, reported an error, and
\* what text it gave.
Observations == [timed_out : BOOLEAN, clean : BOOLEAN, answers : 0 .. 2, error : BOOLEAN,
                 text : {"none", "missing", "original", "other"}]

\* classify_squeez_mcp_response.
Classify(o) ==
    CASE o.timed_out -> "timeout"
      [] ~o.timed_out /\ ~o.clean -> "transport_error"
      [] ~o.timed_out /\ o.clean /\ o.answers # 1 -> "malformed"
      [] ~o.timed_out /\ o.clean /\ o.answers = 1 /\ o.error -> "reported_error"
      [] ~o.timed_out /\ o.clean /\ o.answers = 1 /\ ~o.error /\ o.text = "none" -> "malformed"
      [] ~o.timed_out /\ o.clean /\ o.answers = 1 /\ ~o.error /\ o.text = "missing" -> "not_found"
      [] OTHER -> o.text

\* A layout or a binary that changed is refused before the call counts.
Outcomes == {Classify(o) : o \in Observations} \cup {"output_limit_exceeded", "refused"}

-----------------------------------------------------------------------------
(* The adapter                                                             *)

\* RecoveryRegistry.issue_candidate and revoke.
RecIssue(h) ==
    /\ handle[h] = Unknown
    /\ handle' = [handle EXCEPT ![h] = [state |-> "active", calls |-> 0, delivered |-> 0, next |-> 0,
                                        created |-> clock]]
    /\ caller' = [caller EXCEPT ![h] = <<>>]
    /\ UNCHANGED <<usage, capability, onDisk, clock, served, recFaults>>

RecRevoke(h) ==
    /\ handle[h] # Unknown
    /\ handle' = [handle EXCEPT ![h].state = "revoked"]
    /\ UNCHANGED <<usage, capability, onDisk, clock, caller, served, recFaults>>

\* _chunk_end: the last character boundary within the limit; the start when
\* not one character fits.
ChunkEnd(start, maximum) == Max({e \in Offsets : start <= e /\ e <= start + maximum})

Live(r) == r.state \in {"active", "partially_delivered"}
TimedOut(r) == clock >= r.created + RecRetention \/ clock >= r.created + RecTtl
PlannedBytes(r) == Min({RecMaxResponse, RecMaxTotal - r.delivered, OriginalBytes - r.next})

CursorFits(r, cursor) == cursor = r.next

\* What refuses a request before any supplier is called.
Refused(r, cursor) ==
    \/ ~CursorFits(r, cursor)
    \/ r.calls >= RecMaxCalls
    \/ RecMaxTotal - r.delivered <= 0
    \/ usage.calls >= RecTrialCalls
    \/ usage.bytes + PlannedBytes(r) > RecTrialBytes

\* RecoveryAdapter.recover: the record and the usage after it, whether the
\* supplier was called, and the chunk.  Calls are counted before the supplier
\* is, and stay counted when it refuses.
Decision(h, cursor, outcome) ==
    LET r == handle[h]
        still == [record |-> r, usage |-> usage, invoked |-> FALSE, chunk |-> <<>>]
        counted == [record |-> [r EXCEPT !.calls = @ + 1], usage |-> [usage EXCEPT !.calls = @ + 1],
                    invoked |-> outcome # "refused", chunk |-> <<>>]
        end == ChunkEnd(r.next, PlannedBytes(r))
        size == end - r.next
    IN  IF ~Live(r) THEN still
        ELSE IF TimedOut(r) THEN [still EXCEPT !.record.state = "expired"]
        ELSE IF Refused(r, cursor) THEN still
        ELSE IF outcome # "original" \/ size = 0 THEN counted
        ELSE [counted EXCEPT
                !.record.delivered = @ + size, !.record.next = end,
                !.record.state = IF end = OriginalBytes THEN "fully_delivered" ELSE "partially_delivered",
                !.usage.bytes = @ + size,
                !.chunk = <<r.next, end>>]

\* The harness may use any cursor it was given; the answer may not reach it.
CursorsOf(h) == {0} \cup {chunk[2] : chunk \in ToSet(caller[h])}

Arrives(h, chunk) ==
    \/ chunk # <<>> /\ caller' = [caller EXCEPT ![h] = Append(@, chunk)] /\ UNCHANGED recFaults
    \/ chunk = <<>> /\ UNCHANGED <<caller, recFaults>>
    \/ chunk # <<>> /\ RecFault /\ UNCHANGED caller

Bytes(chunk) == IF chunk = <<>> THEN 0 ELSE chunk[2] - chunk[1]

RecAsk(h, cursor, outcome) ==
    LET decision == Decision(h, cursor, outcome) IN
    /\ cursor \in CursorsOf(h)
    /\ handle' = [handle EXCEPT ![h] = decision.record]
    /\ usage' = decision.usage
    /\ Arrives(h, decision.chunk)
    /\ UNCHANGED <<capability, onDisk, clock, served>>

-----------------------------------------------------------------------------
(* The bridge                                                              *)

\* A bridge is made for a handle that the registry knows.
BridgeBound == handle[BridgeHandle] # Unknown

\* CapabilityStore.issue: a label that was used before, in this process or in
\* an earlier one, is refused.
CapIssue(l, p) ==
    /\ capability[l] = Unknown /\ <<l>> \notin onDisk
    /\ BridgeBound
    /\ capability' = [capability EXCEPT ![l] = [state |-> "issued", peer |-> p, expires |-> clock + CapTtl,
                                                calls |-> 0, bytes |-> 0]]
    /\ onDisk' = onDisk \cup {<<l>>}
    /\ UNCHANGED <<handle, usage, clock, caller, served, recFaults>>

\* authenticate, the comparisons with the peer and the expiry.
Authorized(l, p) == capability[l] # Unknown /\ capability[l].peer = p /\ clock < capability[l].expires

Fresh(l, n) == <<l, n>> \notin onDisk
WithinCapabilitySlipBytesSoFar(l) ==
    /\ capability[l].calls <= CapCalls
    /\ capability[l].bytes + OriginalBytes <= CapBytes

\* The quotas are looked at after the nonce is consumed.
WithinCapability(l) ==
    /\ capability[l].calls < CapCalls
    /\ capability[l].bytes + OriginalBytes <= CapBytes
\* _recover, of a request that is not rejected before its nonce is consumed.
BridgeRecover(l, p, n, outcome) ==
    LET decision == Decision(BridgeHandle, 0, outcome) IN
    /\ Authorized(l, p) /\ Fresh(l, n)
    /\ onDisk' = onDisk \cup {<<l, n>>}
    /\ IF WithinCapability(l)
       THEN /\ handle' = [handle EXCEPT ![BridgeHandle] = decision.record]
            /\ usage' = decision.usage
            /\ capability' = [capability EXCEPT ![l].calls = @ + (IF decision.invoked THEN 1 ELSE 0),
                                                ![l].bytes = @ + Bytes(decision.chunk)]
            /\ served' = IF decision.invoked
                         THEN [served EXCEPT ![<<l, n>>] = [calls |-> @.calls + 1, bytes |-> @.bytes + Bytes(decision.chunk)]]
                         ELSE served
            /\ Arrives(BridgeHandle, decision.chunk)
       ELSE UNCHANGED <<handle, usage, capability, served, caller, recFaults>>
    /\ UNCHANGED clock

-----------------------------------------------------------------------------

RecTick ==
    /\ clock < RecLastTime
    /\ clock' = clock + 1
    /\ UNCHANGED <<handle, usage, capability, onDisk, caller, served, recFaults>>

\* The process ends, perhaps in the middle of a request whose nonce is used.
RecRestart ==
    /\ RecFault
    /\ handle' = [h \in RecHandles |-> Unknown]
    /\ usage' = [calls |-> 0, bytes |-> 0]
    /\ capability' = [l \in RecLabels |-> Unknown]
    /\ \/ UNCHANGED onDisk
       \/ \E l \in RecLabels, n \in RecNonces :
             capability[l] # Unknown /\ Fresh(l, n) /\ onDisk' = onDisk \cup {<<l, n>>}
    /\ caller' = [h \in RecHandles |-> <<>>]
    /\ UNCHANGED <<clock, served>>

RecNext ==
    \/ \E h \in RecHandles : RecIssue(h) \/ RecRevoke(h)
    \/ \E h \in RecHandles, cursor \in Offsets, outcome \in Outcomes : RecAsk(h, cursor, outcome)
    \/ \E l \in RecLabels, p \in RecPeers : CapIssue(l, p)
    \/ \E l \in RecLabels, p \in RecPeers, n \in RecNonces, outcome \in Outcomes : BridgeRecover(l, p, n, outcome)
    \/ RecTick \/ RecRestart

RecSpec == RecInit /\ [][RecNext]_recVars

-----------------------------------------------------------------------------
(* Properties                                                              *)

\* What a caller holds of an original is a prefix of it, cut between two
\* characters, whichever answers were lost: a caller that missed a chunk is
\* refused the next one.
RecReceivedIsPrefix ==
    \A h \in RecHandles :
       /\ \A i \in DOMAIN caller[h] : caller[h][i][1] = IF i = 1 THEN 0 ELSE caller[h][i - 1][2]
       /\ \A chunk \in ToSet(caller[h]) : chunk[1] \in Offsets /\ chunk[2] \in Offsets

\* A capability buys its supplier calls and its bytes and no more, each nonce
\* at most one of them, even if the bridge restarts in between; and the trial's
\* own limits count the calls of both ways in.
RecQuotasHeld ==
    /\ \A l \in RecLabels :
          /\ SumOf([n \in RecNonces |-> served[<<l, n>>].calls], RecNonces) <= CapCalls
          /\ SumOf([n \in RecNonces |-> served[<<l, n>>].bytes], RecNonces) <= CapBytes
          /\ \A n \in RecNonces : served[<<l, n>>].calls <= 1
    /\ usage.calls <= RecTrialCalls /\ usage.bytes <= RecTrialBytes
    /\ usage.bytes = SumOf([h \in RecHandles |-> IF handle[h] = Unknown THEN 0 ELSE handle[h].next], RecHandles)
    /\ \A h \in RecHandles : handle[h] # Unknown => handle[h].next <= RecMaxTotal /\ handle[h].calls <= RecMaxCalls

\* What is recovered is what was stored, and no more than was granted.
RecWhatWasGranted == RecReceivedIsPrefix /\ RecQuotasHeld
=============================================================================

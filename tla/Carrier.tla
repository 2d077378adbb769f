------------------------------- MODULE Carrier -------------------------------
(***************************************************************************)
(* The gate before a paid SWE-Lancer attempt (swe_lancer_carrier.py and      *)
(* swe_lancer_admission.py).  A carrier reserves the result file, reads an   *)
(* attestation of the inputs, then the inputs, and decides; the admission    *)
(* command alone only looks at the ledger.  Processes race for the file,     *)
(* inputs are replaced meanwhile, time passes, a process may end anywhere.   *)
(***************************************************************************)
EXTENDS Integers, Sequences, FiniteSets, FiniteSetsExt

CONSTANTS
    Carriers, Admissions,   \* processes of each command that name one result file
    CrPrepared,             \* what the runtime owner may have prepared: [gate, inputs]
    CrLast,                 \* bound: the clock's last reading
    CrReplaced,             \* bound: replacements of inputs
    CrWall, CrReserve       \* limits: attempt_wall_seconds, cleanup_reserve_seconds

CrOrder == <<"ledger", "provider", "price", "outbound">>
CrInputs == {"ledger", "provider", "price", "outbound"}
CrReceipts == CrInputs \ {"ledger"}
CrProcesses == Carriers \cup Admissions

CrDocument == [version : Nat, valid : BOOLEAN, observed : Nat, through : Nat, of : Nat]

ASSUME CrAssumption ==
    /\ Carriers \cap Admissions = {}
    /\ CrWall \in Nat /\ CrReserve \in Nat
    /\ \A situation \in CrPrepared :
          /\ situation.gate.deadline \in Int
          /\ situation.gate.attestation.observed \in Nat /\ situation.gate.attestation.through \in Nat
          /\ situation.inputs \in [CrInputs -> CrDocument]

VARIABLES
    gate,       \* [definition, attestation, absent: names not set, deadline, missing: what admission would find]
    inputs,     \* what the paths lead to: [version, valid, observed, through, of: the ledger it names]
    crNow,
    processes,  \* [at, observed, read, loaded, admitted, record, exit]
    output      \* the result file: [by, state, record]

crVars == <<gate, inputs, crNow, processes, output>>

Undecided == [ready |-> FALSE, context |-> "none", class |-> "none"]
CrRecord(ready, context, class) == [ready |-> ready, context |-> context, class |-> class]
CrMoves(p, at) == processes' = [processes EXCEPT ![p].at = at]
CrDecides(p, record) == processes' = [processes EXCEPT ![p].at = "writes", ![p].record = record]
CrRefuses(p, context) == CrDecides(p, CrRecord(FALSE, context, "admission"))
CrEnds(p, exit) == processes' = [processes EXCEPT ![p].at = "over", ![p].exit = exit]

\* reserve_result: the file is made, and must not be there.  The time of the
\* reservation is the one that every freshness is measured by.
MayReserve == output.state = "absent"
CrReserveResult(p) ==
    /\ processes[p].at = "starts"
    /\ IF MayReserve
       THEN /\ output' = [by |-> p, state |-> "empty", record |-> Undecided]
            /\ processes' = [processes EXCEPT ![p].at = IF p \in Carriers THEN "definition" ELSE "reads",
                                              ![p].observed = crNow]
       ELSE CrEnds(p, IF p \in Carriers THEN 2 ELSE 3) /\ UNCHANGED output
    /\ UNCHANGED <<gate, inputs, crNow>>

\* load_definition: the fixed document with the hash of the carrier's own file.
CrDefinition(p) ==
    /\ processes[p].at = "definition"
    /\ IF gate.definition = "as_fixed" THEN CrMoves(p, "attestation")
       ELSE CrDecides(p, CrRecord(FALSE, gate.definition, "source"))
    /\ UNCHANGED <<gate, inputs, crNow, output>>

\* validate_freshness.
CrFresh(document, time) ==
    document.observed <= time /\ document.observed < document.through /\ time <= document.through

\* The attestation is read and must be of this definition, and fresh; then all
\* that admission will want must be set, before an input is read.
CrAttestation(p) ==
    /\ processes[p].at = "attestation"
    /\ IF "attestation" \in gate.absent THEN CrRefuses(p, "missing")
       ELSE IF ~gate.attestation.valid THEN CrRefuses(p, "wrong_source")
       ELSE IF ~CrFresh(gate.attestation, processes[p].observed) THEN CrRefuses(p, "stale")
       ELSE IF gate.absent # {} THEN CrRefuses(p, "missing")
       ELSE CrMoves(p, "reads")
    /\ UNCHANGED <<gate, inputs, crNow, output>>

\* The next input is read, once and for all, and compared with its fingerprint
\* in the attestation.
AsAttestedSlipLater(name) == name # "outbound" => inputs[name].version = gate.attestation.versions[name]
AsAttested(name) == inputs[name].version = gate.attestation.versions[name]
CrRead(p) ==
    /\ processes[p].at = "reads" /\ p \in Carriers
    /\ LET loaded == processes[p].loaded + 1
           name == CrOrder[loaded]
           next == IF ~AsAttested(name) THEN "writes" ELSE IF loaded < Len(CrOrder) THEN "reads" ELSE "receipts"
       IN  processes' = [processes EXCEPT
                ![p].loaded = loaded, ![p].read = [@ EXCEPT ![name] = inputs[name]], ![p].at = next,
                ![p].record = IF next = "writes" THEN CrRecord(FALSE, "wrong_source", "admission") ELSE @]
    /\ UNCHANGED <<gate, inputs, crNow, output>>

\* The receipts, each by its own contract, its freshness and the ledger it names.
ReceiptFault(p, name) ==
    LET receipt == processes[p].read[name]
    IN  IF ~CrFresh(receipt, processes[p].observed) THEN "stale"
        ELSE IF receipt.of # processes[p].read["ledger"].version THEN "wrong_source"
        ELSE IF ~receipt.valid THEN "invalid"
        ELSE "none"
CrCheckReceipts(p) ==
    /\ processes[p].at = "receipts"
    /\ LET faulty == {n \in 2..4 : ReceiptFault(p, CrOrder[n]) # "none"}
           first == CHOOSE n \in faulty : \A m \in faulty : n <= m
       IN  IF faulty = {} THEN CrMoves(p, "admission") ELSE CrRefuses(p, ReceiptFault(p, CrOrder[first]))
    /\ UNCHANGED <<gate, inputs, crNow, output>>

\* run of the admission command: its ledger, which may not be readable JSON.
CrLoadLedger(p) ==
    /\ processes[p].at = "reads" /\ p \in Admissions
    /\ IF inputs["ledger"].valid
       THEN processes' = [processes EXCEPT ![p].at = "admission", ![p].read = [@ EXCEPT !["ledger"] = inputs["ledger"]]]
       ELSE CrDecides(p, CrRecord(FALSE, "none", "error"))
    /\ UNCHANGED <<gate, inputs, crNow, output>>

\* parse_deadline, by the clock of this moment.
DeadlineFits == gate.deadline - crNow > CrReserve /\ gate.deadline - crNow <= CrWall

\* check_admission reports all that is missing, in the ledger, the pinned files
\* and the names that are set, and starts nothing.
CrAdmit(p) ==
    /\ processes[p].at = "admission"
    /\ LET missing == gate.missing \cup gate.absent \cup IF DeadlineFits THEN {} ELSE {"deadline"}
           record == CrRecord(missing = {}, IF p \in Carriers THEN "verified" ELSE "none", "none")
       IN  processes' = [processes EXCEPT ![p].at = "writes", ![p].record = record, ![p].admitted = crNow]
    /\ UNCHANGED <<gate, inputs, crNow, output>>

CrExit(p) ==
    LET record == processes[p].record
    IN  IF record.ready THEN 0
        ELSE IF p \in Carriers THEN (IF record.class = "source" THEN 2 ELSE 3)
        ELSE IF record.class = "error" THEN 3 ELSE 2

\* write_reserved, into the file that the process holds open.
CrWrite(p, fault) ==
    /\ processes[p].at = "writes"
    /\ output' = IF fault THEN [by |-> p, state |-> "part", record |-> Undecided]
                ELSE [by |-> p, state |-> "whole", record |-> processes[p].record]
    /\ CrEnds(p, IF ~fault THEN CrExit(p) ELSE IF p \in Carriers THEN 2 ELSE 1)
    /\ UNCHANGED <<gate, inputs, crNow>>

\* The process ends, interrupted or killed: what it reserved stays as it is.
CrDies(p) ==
    /\ processes[p].at \notin {"over", "dead"}
    /\ CrMoves(p, "dead") /\ UNCHANGED <<gate, inputs, crNow, output>>

\* The owner replaces an input, for the ledger that is there now; time passes.
CrReplace(name) ==
    /\ MapThenSumSet(LAMBDA n : inputs[n].version - 1, CrInputs) < CrReplaced
    /\ inputs' = [inputs EXCEPT ![name].version = @ + 1, ![name].of = inputs["ledger"].version]
    /\ UNCHANGED <<gate, crNow, processes, output>>
CrTick == crNow < CrLast /\ crNow' = crNow + 1 /\ UNCHANGED <<gate, inputs, processes, output>>

(***************************************************************************)
CrInit ==
    /\ crNow = 0 /\ \E situation \in CrPrepared : gate = situation.gate /\ inputs = situation.inputs
    /\ processes = [p \in CrProcesses |->
            [at |-> "starts", observed |-> 0, read |-> [n \in CrInputs |-> Undecided], loaded |-> 0,
             admitted |-> 0, record |-> Undecided, exit |-> -1]]
    /\ output = [by |-> "none", state |-> "absent", record |-> Undecided]

CrNext ==
    \/ \E p \in CrProcesses :
        \/ CrReserveResult(p) \/ CrDefinition(p) \/ CrAttestation(p) \/ CrRead(p) \/ CrCheckReceipts(p)
        \/ CrLoadLedger(p) \/ CrAdmit(p) \/ CrDies(p)
        \/ \E fault \in BOOLEAN : CrWrite(p, fault)
    \/ \E name \in CrInputs : CrReplace(name)
    \/ CrTick

CrSpec == CrInit /\ [][CrNext]_crVars

(***************************************************************************)
(* The result file is one process's: its record, or nothing that reads as    *)
(* one.  A process that exits with 0 left a ready record there, and a        *)
(* carrier's is ready only when the four inputs it read, whatever replaced   *)
(* them meanwhile, are the ones of one valid attestation, belong to the      *)
(* ledger it admitted, and were fresh together with the attestation at the   *)
(* time it observed; and the deadline left the reserve when it was admitted. *)
(* No input is read before the attestation is accepted.                      *)
(***************************************************************************)
CrReadyIsEarned ==
    /\ \A p \in CrProcesses :
        /\ processes[p].exit = 0 => output = [by |-> p, state |-> "whole", record |-> processes[p].record]
                                    /\ processes[p].record.ready
        /\ processes[p].at \notin {"starts", "over", "dead"} => output = [by |-> p, state |-> "empty", record |-> Undecided]
        /\ processes[p].record.ready =>
            /\ gate.missing = {} /\ gate.absent = {}
            /\ gate.deadline - processes[p].admitted \in (CrReserve + 1)..CrWall
    /\ \A p \in Carriers :
        LET read == processes[p].read IN
        /\ processes[p].loaded > 0 =>
            gate.definition = "as_fixed" /\ gate.attestation.valid /\ gate.absent = {}
        /\ processes[p].record.ready =>
            /\ \A n \in CrInputs : read[n].version = gate.attestation.versions[n]
            /\ \A n \in CrReceipts : read[n].of = read["ledger"].version /\ read[n].valid
            /\ \A d \in {read[n] : n \in CrReceipts} \cup {gate.attestation} :
                processes[p].observed \in d.observed..d.through
=============================================================================

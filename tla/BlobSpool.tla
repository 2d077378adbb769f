------------------------------ MODULE BlobSpool ------------------------------
(***************************************************************************)
(* The upload spool: BlobSpool of src/src/blob_retrieval.py.  A caller     *)
(* stages items on the disk and queues them; one background thread uploads *)
(* the payload and then the manifest of each, reads both back, and retries *)
(* a bounded number of times; finish stops the thread; a later session     *)
(* resumes what is on the disk.  Every operation on the store is counted   *)
(* on the disk before it starts and after it succeeded.  The process may   *)
(* end between any two steps.                                              *)
(*                                                                         *)
(* The store may refuse a call, serve it and lose the answer, or store     *)
(* something else than it was sent.  A call takes effect before it         *)
(* returns, or never.                                                      *)
(***************************************************************************)
EXTENDS Integers, FiniteSets, FiniteSetsExt, Sequences, SequencesExt

CONSTANTS
    Items,             \* item ids: numbers, in the order they are staged in
    MaximumAttempts,   \* maximum_attempts of an upload, in one session
    MaxSessions,       \* bound: the first session and its resumes
    MaxFaults          \* bound: failures of the store and of the disk

ASSUME SpoolAssumption ==
    /\ Items \subseteq Nat /\ IsFiniteSet(Items)
    /\ MaximumAttempts \in Nat \ {0} /\ MaxSessions \in Nat /\ MaxFaults \in Nat

VARIABLES
    disk,      \* each item's directory and its state.json
    remote,    \* what the store holds: the payload, and which attempt's manifest
    served,    \* operations the store has served, and bills
    sessions,  \* sessions started
    caller,    \* the thread that stages and finishes, "down" between sessions
    queue,     \* items waiting for the upload thread
    entry,     \* what the session's spool knows of an item: its items
               \* ("listed"), or how far its staging came
    worker,    \* the upload thread
    stop,      \* stop_event
    report,    \* finish_state of the session's last report
    faults     \* failures so far

vars == <<disk, remote, served, sessions, caller, queue, entry, worker, stop, report, faults>>

Operations == <<"payload_write", "manifest_write", "payload_verify_read", "manifest_verify_read">>
Names == ToSet(Operations)
Nobody == -1

\* A set of items in the order of their names.
InOrder(items) ==
    CHOOSE q \in [1 .. Cardinality(items) -> items] :
        \A m, n \in 1 .. Cardinality(items) : m < n => q[m] < q[n]

Staged == {i \in Items : disk[i].at = "staged"}
Up == caller # "down"

\* Definitions named ...Slip are not part of the model.  Each is the next
\* definition with a mistake, used to see that a property would notice it.

IdleWorker == [alive |-> TRUE, item |-> Nobody, step |-> "idle", operation |-> 1, left |-> 0]
None == [n \in Names |-> 0]

Init ==
    /\ disk = [i \in Items |-> [at |-> "nowhere", upload |-> "absent", attempts |-> 0,
                                started |-> None, succeeded |-> None]]
    /\ remote = [i \in Items |-> [payload |-> "none", manifest |-> 0]]
    /\ served = [i \in Items |-> None]
    /\ sessions = 0
    /\ caller = "down"
    /\ queue = <<>> /\ entry = [i \in Items |-> "none"]
    /\ worker = [IdleWorker EXCEPT !.alive = FALSE]
    /\ stop = FALSE
    /\ report = "none" /\ faults = 0

FaultsOf(n) == faults + n <= MaxFaults /\ faults' = faults + n
NoFault == FaultsOf(0)
AFault == FaultsOf(1)

-----------------------------------------------------------------------------
(* The caller                                                              *)

Start ==
    /\ sessions = 0 /\ ~Up
    /\ sessions' = 1 /\ caller' = "open"
    /\ worker' = IdleWorker /\ queue' = <<>> /\ stop' = FALSE
    /\ UNCHANGED <<disk, remote, served, report, faults, entry>>

\* stage_file, stage_directory, stage_run_snapshot: the payload and a pending
\* state.json in a hidden directory ...
StageHidden(i) ==
    /\ caller = "open"
    /\ disk[i].at = "nowhere" /\ \A j \in Items : j < i => disk[j].at = "staged"
    /\ \A j \in Items : entry[j] # "renamed"
    /\ disk' = [disk EXCEPT ![i].at = "hidden", ![i].upload = "pending"]
    /\ UNCHANGED <<remote, served, sessions, caller, queue, worker, stop, report, faults, entry>>

\* ... which is renamed, so that the item is staged for every later session,
StageRenamed(i) ==
    /\ caller = "open"
    /\ disk[i].at = "hidden"
    /\ disk' = [disk EXCEPT ![i].at = "staged"]
    /\ entry' = [entry EXCEPT ![i] = "renamed"]
    /\ UNCHANGED <<remote, served, sessions, caller, queue, worker, stop, report, faults>>

\* and then, after the parent directory is flushed, listed and queued for this one.
StageQueued(i) ==
    /\ caller = "open"
    /\ entry[i] = "renamed"
    /\ entry' = [entry EXCEPT ![i] = "listed"]
    /\ queue' = Append(queue, i)
    /\ UNCHANGED <<disk, remote, served, sessions, caller, worker, stop, report, faults>>

\* A failure to stage removes the hidden directory.
StageFails(i) ==
    /\ caller = "open"
    /\ disk[i].at = "hidden"
    /\ disk' = [disk EXCEPT ![i].at = "nowhere", ![i].upload = "absent"]
    /\ AFault
    /\ UNCHANGED <<remote, served, sessions, caller, queue, entry, worker, stop, report>>

\* One after the rename finds no hidden directory to remove: the caller gets the
\* exception, and the item stays on the disk, pending, in no list and no queue.
StageRaisesLate(i) ==
    /\ caller = "open"
    /\ entry[i] = "renamed"
    /\ entry' = [entry EXCEPT ![i] = "raised"]
    /\ AFault
    /\ UNCHANGED <<disk, remote, served, sessions, caller, queue, worker, stop, report>>

Known == {i \in Items : entry[i] = "listed"}

\* report, as finish sees it: of the items listed, not of those on the disk.
FinishState ==
    IF \A i \in Known : disk[i].upload = "uploaded" THEN "completed"
    ELSE IF worker.alive /\ \E i \in Known : disk[i].upload \in {"pending", "uploading"}
    THEN "still_uploading" ELSE "failed"

\* finish: nothing more is accepted; when every upload has ended, or late,
\* the thread is told to stop ...
Finish ==
    /\ caller \in {"open", "finished"}
    /\ \A i \in Items : disk[i].at # "hidden" /\ entry[i] # "renamed"
    /\ caller' = "joining" /\ stop' = TRUE
    /\ UNCHANGED <<disk, remote, served, sessions, queue, worker, report, faults, entry>>

\* ... and joined, but for a limited time.
Join ==
    /\ caller = "joining"
    /\ caller' = "finished"
    /\ report' = FinishState
    /\ UNCHANGED <<disk, remote, served, sessions, queue, worker, stop, faults, entry>>

-----------------------------------------------------------------------------
(* The upload thread                                                       *)

Item == worker.item
Operation == Operations[worker.operation]
Working(step) == Up /\ worker.alive /\ worker.step = step

\* _worker
TakeItem ==
    /\ Working("idle") /\ ~stop /\ queue # <<>>
    /\ worker' = [worker EXCEPT !.item = Head(queue), !.step = "attempt", !.left = MaximumAttempts]
    /\ queue' = Tail(queue)
    /\ UNCHANGED <<disk, remote, served, sessions, caller, stop, report, faults, entry>>

WorkerStops ==
    /\ Working("idle") /\ stop
    /\ worker' = [worker EXCEPT !.alive = FALSE]
    /\ UNCHANGED <<disk, remote, served, sessions, caller, queue, stop, report, faults, entry>>

\* _upload: one turn of its loop begins.
BeginAttempt ==
    /\ Working("attempt") /\ worker.left > 0 /\ ~stop
    /\ worker' = [worker EXCEPT !.step = "start", !.operation = 1, !.left = @ - 1]
    /\ disk' = [disk EXCEPT ![Item].upload = "uploading", ![Item].attempts = @ + 1]
    /\ UNCHANGED <<remote, served, sessions, caller, queue, stop, report, faults, entry>>

\* The loop ends without a result, when told to stop.
GiveUpForStop ==
    /\ Working("attempt") /\ stop
    /\ worker' = [worker EXCEPT !.step = "idle"]
    /\ UNCHANGED <<disk, remote, served, sessions, caller, queue, stop, report, faults, entry>>

\* _blob_operation: the start is counted on the disk,
StartOperation ==
    /\ Working("start")
    /\ worker' = [worker EXCEPT !.step = "call"]
    /\ disk' = [disk EXCEPT ![Item].started[Operation] = @ + 1]
    /\ UNCHANGED <<remote, served, sessions, caller, queue, stop, report, faults, entry>>

\* What the store holds after it served the operation, well or badly.
After(right) ==
    CASE Operation = "payload_write" ->
            [remote[Item] EXCEPT !.payload = IF right THEN "right" ELSE "wrong"]
      [] Operation = "manifest_write" ->
            [remote[Item] EXCEPT !.manifest = IF right THEN disk[Item].attempts ELSE -1]
      [] OTHER -> remote[Item]

\* Whether a read finds what was sent.
ReadsRight ==
    /\ Operation = "payload_verify_read" => remote[Item].payload = "right"
    /\ Operation = "manifest_verify_read" => remote[Item].manifest = disk[Item].attempts

\* the store serves the call, well or badly, and its answer is read or lost,
Serve ==
    /\ Working("call")
    /\ served' = [served EXCEPT ![Item][Operation] = @ + 1]
    /\ \E right, answered \in BOOLEAN :
       /\ remote' = [remote EXCEPT ![Item] = After(right)]
       /\ worker' = [worker EXCEPT !.step = IF answered /\ ReadsRight THEN "record" ELSE "fail"]
       /\ FaultsOf((IF right THEN 0 ELSE 1) + (IF answered THEN 0 ELSE 1))
    /\ UNCHANGED <<disk, sessions, caller, queue, stop, report, entry>>

\* or refuses it,
Refuse ==
    /\ Working("call")
    /\ worker' = [worker EXCEPT !.step = "fail"]
    /\ AFault
    /\ UNCHANGED <<disk, remote, served, sessions, caller, queue, stop, report, entry>>

RecordOperationSlipWritesOnly ==
    /\ Working("record")
    /\ disk' = [disk EXCEPT ![Item].succeeded[Operation] = @ + 1]
    /\ \/ /\ worker' = IF worker.operation < 2
                       THEN [worker EXCEPT !.step = "start", !.operation = @ + 1]
                       ELSE [worker EXCEPT !.step = "verified"]
          /\ NoFault
       \/ worker' = [worker EXCEPT !.step = "fail"] /\ AFault
    /\ UNCHANGED <<remote, served, sessions, caller, queue, stop, report, entry>>

\* and a success is counted on the disk, if the disk lets it.
RecordOperation ==
    /\ Working("record")
    /\ disk' = [disk EXCEPT ![Item].succeeded[Operation] = @ + 1]
    /\ \/ /\ worker' = IF worker.operation < Len(Operations)
                       THEN [worker EXCEPT !.step = "start", !.operation = @ + 1]
                       ELSE [worker EXCEPT !.step = "verified"]
          /\ NoFault
       \/ worker' = [worker EXCEPT !.step = "fail"] /\ AFault
    /\ UNCHANGED <<remote, served, sessions, caller, queue, stop, report, entry>>

\* Both objects were read back, which the disk may refuse to write.
MarkUploaded ==
    /\ Working("verified")
    /\ \/ /\ disk' = [disk EXCEPT ![Item].upload = "uploaded"]
          /\ worker' = [worker EXCEPT !.step = "idle"] /\ NoFault
       \/ worker' = [worker EXCEPT !.step = "fail"] /\ AFault /\ UNCHANGED disk
    /\ UNCHANGED <<remote, served, sessions, caller, queue, stop, report, entry>>

\* The exception handler: another attempt after a pause, unless there is none
\* left or the thread is told to stop.
Fail ==
    /\ Working("fail")
    /\ disk' = [disk EXCEPT ![Item].upload = IF worker.left = 0 THEN "failed" ELSE "pending"]
    /\ worker' = [worker EXCEPT !.step = IF worker.left = 0 \/ stop THEN "idle" ELSE "attempt"]
    /\ UNCHANGED <<remote, served, sessions, caller, queue, stop, report, faults, entry>>

\* The disk fails where no handler is, or the handler itself: the thread dies.
WorkerDies ==
    /\ Working("attempt") \/ Working("fail")
    /\ worker' = [worker EXCEPT !.alive = FALSE, !.step = "idle"]
    /\ AFault
    /\ UNCHANGED <<disk, remote, served, sessions, caller, queue, stop, report, entry>>

-----------------------------------------------------------------------------
(* The end of a process, and the next one                                  *)

\* The process ends, by a crash or after finish; its thread is a daemon.
Exit ==
    /\ Up /\ caller' = "down"
    /\ worker' = [IdleWorker EXCEPT !.alive = FALSE]
    /\ queue' = <<>> /\ stop' = FALSE /\ report' = "none"
    /\ entry' = [i \in Items |-> "none"]
    /\ UNCHANGED <<disk, remote, served, sessions, faults>>

ResumeSlipAll ==
    /\ sessions \in 1 .. MaxSessions - 1 /\ ~Up
    /\ Staged # {} /\ \A i \in Items : disk[i].at # "hidden"
    /\ disk' = [i \in Items |-> IF i \in Staged THEN [disk[i] EXCEPT !.upload = "pending"] ELSE disk[i]]
    /\ queue' = InOrder(Staged)
    /\ sessions' = sessions + 1 /\ caller' = "open"
    /\ entry' = [i \in Items |-> IF i \in Staged THEN "listed" ELSE "none"]
    /\ worker' = IdleWorker /\ stop' = FALSE
    /\ UNCHANGED <<remote, served, report, faults>>

ResumeSlipPendingOnly ==
    /\ sessions \in 1 .. MaxSessions - 1 /\ ~Up
    /\ Staged # {} /\ \A i \in Items : disk[i].at # "hidden"
    /\ queue' = InOrder({i \in Staged : disk[i].upload = "pending"})
    /\ sessions' = sessions + 1 /\ caller' = "open"
    /\ entry' = [i \in Items |-> IF i \in Staged THEN "listed" ELSE "none"]
    /\ worker' = IdleWorker /\ stop' = FALSE
    /\ UNCHANGED <<disk, remote, served, report, faults>>

\* resume: every state.json that the spool's directory holds is checked, and
\* one in a hidden directory is refused.  What is not uploaded, also where the
\* staging raised, is pending again, and queued in the order of the names.
Resume ==
    /\ sessions \in 1 .. MaxSessions - 1 /\ ~Up
    /\ Staged # {} /\ \A i \in Items : disk[i].at # "hidden"
    /\ LET open == {i \in Staged : disk[i].upload # "uploaded"} IN
       /\ disk' = [i \in Items |-> IF i \in open THEN [disk[i] EXCEPT !.upload = "pending"]
                                   ELSE disk[i]]
       /\ queue' = InOrder(open)
    /\ sessions' = sessions + 1 /\ caller' = "open"
    /\ entry' = [i \in Items |-> IF i \in Staged THEN "listed" ELSE "none"]
    /\ worker' = IdleWorker /\ stop' = FALSE
    /\ UNCHANGED <<remote, served, report, faults>>

-----------------------------------------------------------------------------
WorkerStep ==
    \/ TakeItem \/ WorkerStops \/ BeginAttempt \/ GiveUpForStop
    \/ StartOperation \/ Serve \/ Refuse \/ RecordOperation \/ MarkUploaded
    \/ Fail

Next ==
    \/ Start \/ Resume \/ Exit
    \/ \E i \in Items :
          StageHidden(i) \/ StageRenamed(i) \/ StageQueued(i) \/ StageFails(i) \/ StageRaisesLate(i)
    \/ Finish \/ Join
    \/ WorkerStep \/ WorkerDies

Spec == Init /\ [][Next]_vars

-----------------------------------------------------------------------------
(* The bill, of src/src/screening_cost.py.  Its rates are those of a write  *)
(* and of a read; the ledger's rate for the network is zero.                *)

WriteRate == 3
ReadRate == 2
Undetermined == -1
Writes == <<"payload_write", "manifest_write">>
Reads == <<"payload_verify_read", "manifest_verify_read">>

\* Each item's count of the operations of one rate.
Counted(items, kind, names) ==
    MapThenSumSet(LAMBDA i : disk[i][kind][names[1]] + disk[i][kind][names[2]], items)

ComponentSlipSucceeded(items, names, rate) ==
    LET succeeded == Counted(items, "succeeded", names)
    IN  [confirmed |-> succeeded * rate, maximum |-> Counted(items, "started", names) * rate, calculated |-> succeeded * rate]

\* _operation_component: a cost is known if everything that was started has
\* succeeded.
Component(items, names, rate) ==
    LET started == Counted(items, "started", names)
        succeeded == Counted(items, "succeeded", names)
    IN  [confirmed |-> succeeded * rate, maximum |-> started * rate,
         calculated |-> IF started = succeeded THEN succeeded * rate ELSE Undetermined]

\* blob_operation_cost
BlobCost(items) ==
    LET writes == Component(items, Writes, WriteRate)
        reads == Component(items, Reads, ReadRate)
    IN  [confirmed |-> writes.confirmed + reads.confirmed, maximum |-> writes.maximum + reads.maximum,
         calculated |-> IF Undetermined \in {writes.calculated, reads.calculated} THEN Undetermined
                        ELSE writes.calculated + reads.calculated]

-----------------------------------------------------------------------------
(* Properties                                                              *)

\* An item marked uploaded is in the store, payload and the manifest of its
\* last attempt, through retries, lost answers, crashes and resumes.
StoreMatchesRecord ==
    \A i \in Items :
        disk[i].upload = "uploaded" => remote[i] = [payload |-> "right", manifest |-> disk[i].attempts]

\* What the reproducibility contract bills by is what the store has served: at
\* any moment, also after a crash between an operation and its count, the bill
\* lies between what is confirmed and what was started, and where a cost is
\* given as calculated it is the bill.
BilledAsServed ==
    LET cost == BlobCost(Staged)
        bill == MapThenSumSet(LAMBDA i : WriteRate * (served[i][Writes[1]] + served[i][Writes[2]])
                                          + ReadRate * (served[i][Reads[1]] + served[i][Reads[2]]), Staged)
    IN  /\ cost.confirmed <= bill /\ bill <= cost.maximum
        /\ cost.calculated # Undetermined => cost.calculated = bill

\* No item falls out of sight.  While the thread lives and is not told to stop,
\* an item whose staging returned and that is neither uploaded nor failed is in
\* its queue or in its hands, and nowhere twice; an item that the thread does not
\* know is still being staged, or its staging raised, and it is pending on the
\* disk, where the next resume takes it up.  When finish has said completed,
\* every item on the disk is uploaded but those whose staging raised.
NothingDropped ==
    /\ Up /\ worker.alive /\ ~stop => \A i \in Staged :
          LET tracked == (i \in ToSet(queue)) # (worker.step # "idle" /\ Item = i)
          IN  IF entry[i] = "listed" THEN disk[i].upload \in {"pending", "uploading"} => tracked
              ELSE entry[i] \in {"renamed", "raised"} /\ disk[i].upload = "pending" /\ ~tracked
    /\ report = "completed" =>
          \A i \in Staged : disk[i].upload = "uploaded" \/ entry[i] = "raised"

\* The spool keeps its promise, item by item.
Uploads == INSTANCE ItemUploads WITH
    upload <- [i \in Items |-> IF disk[i].at # "staged" THEN "absent"
                               ELSE IF disk[i].upload = "uploading" THEN "pending"
                               ELSE disk[i].upload]
KeepsPromise == Uploads!Spec
=============================================================================

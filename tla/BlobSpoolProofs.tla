--------------------------- MODULE BlobSpoolProofs ---------------------------
(***************************************************************************)
(* Theorems about BlobSpool, for every set of items, number of attempts,   *)
(* of sessions and of faults.                                              *)
(*                                                                         *)
(* The inductive invariant follows the one item that the upload thread has *)
(* in its hands: what the thread's step says of the store, of the item's   *)
(* state on the disk and of the counts that run ahead of or behind each    *)
(* other.  The bill is then a matter of sums over the items.               *)
(***************************************************************************)
EXTENDS BlobSpool, FiniteLemmas

UploadStates == {"absent", "pending", "uploading", "uploaded", "failed"}
Steps == {"idle", "attempt", "start", "call", "record", "fail", "verified"}
Counts == [Names -> Nat]

DiskRows == [at : {"nowhere", "hidden", "staged"}, upload : UploadStates, attempts : Nat,
             started : Counts, succeeded : Counts]
RemoteRows == [payload : {"none", "right", "wrong"}, manifest : Int]
Entries == {"none", "renamed", "listed", "raised"}
WorkerRows == [alive : BOOLEAN, item : Items \cup {Nobody}, step : Steps,
               operation : 1 .. 4, left : Nat]

TypeOK ==
    /\ disk \in [Items -> DiskRows]
    /\ remote \in [Items -> RemoteRows]
    /\ served \in [Items -> Counts]
    /\ sessions \in Nat
    /\ caller \in {"down", "open", "joining", "finished"}
    /\ queue \in Seq(Items)
    /\ entry \in [Items -> Entries]
    /\ worker \in WorkerRows
    /\ stop \in BOOLEAN
    /\ faults \in Nat

Busy == worker.step # "idle"

\* An item's state on the disk goes with where its directory is.
StatesFit ==
    /\ \A i \in Items : /\ disk[i].at = "nowhere" => disk[i].upload = "absent"
                        /\ disk[i].at = "hidden" => disk[i].upload = "pending"
                        /\ disk[i].at = "staged" => disk[i].upload # "absent"
    /\ sessions = 0 => ~Up /\ \A i \in Items : disk[i].at = "nowhere"

\* The thread lives only in a session, and has in its hands an item that is
\* staged, in the state that its step says.
InHands ==
    /\ worker.alive => Up
    /\ Busy => /\ worker.alive /\ Item \in Items /\ disk[Item].at = "staged"
               /\ entry[Item] = "listed"
               /\ worker.step = "attempt" => disk[Item].upload = "pending"
               /\ worker.step # "attempt" => disk[Item].upload = "uploading"

\* The queue holds pending items, each once, and not the one in hands.
QueueFits ==
    /\ \A m \in 1 .. Len(queue) :
          /\ disk[queue[m]].at = "staged" /\ disk[queue[m]].upload = "pending"
          /\ entry[queue[m]] = "listed"
    /\ \A m, n \in 1 .. Len(queue) : queue[m] = queue[n] => m = n
    /\ Busy => \A m \in 1 .. Len(queue) : queue[m] # Item

\* A session knows what is staged: it lists it, or its staging is under way or
\* raised, and then it is pending.  A report that says completed was made when
\* nothing more was staged, of a list that is uploaded.
EntriesFit ==
    /\ \A i \in Items : /\ entry[i] = "none" <=> ~Up \/ disk[i].at # "staged"
                        /\ entry[i] \in {"renamed", "raised"} => disk[i].upload = "pending"
                        /\ entry[i] = "renamed" => caller = "open"
    /\ report = "completed" =>
          /\ caller \in {"joining", "finished"}
          /\ \A i \in Items : disk[i].at = "staged" =>
                disk[i].upload = "uploaded" \/ entry[i] = "raised"

\* NothingDropped, without saying again that nothing is tracked twice.
Queued(i) == \E m \in 1 .. Len(queue) : queue[m] = i
Open(i) == entry[i] = "listed" /\ disk[i].upload \in {"pending", "uploading"}
Tracked ==
    Up /\ worker.alive /\ ~stop =>
        \A i \in Items : Open(i) => Queued(i) \/ (Busy /\ Item = i)

\* What the reads of an attempt have found so far.
Verified ==
    /\ worker.step \in {"start", "call"} /\ worker.operation = 4 => remote[Item].payload = "right"
    /\ worker.step = "record" /\ worker.operation \in {3, 4} => remote[Item].payload = "right"
    /\ worker.step = "record" /\ worker.operation = 4 => remote[Item].manifest = disk[Item].attempts
    /\ worker.step = "verified" =>
          remote[Item] = [payload |-> "right", manifest |-> disk[Item].attempts]

\* Each operation was started at least as often as it was served, and served
\* at least as often as its success was counted.
CountsFit ==
    /\ \A i \in Items, n \in Names : /\ disk[i].succeeded[n] <= served[i][n]
                                     /\ served[i][n] <= disk[i].started[n]
    /\ worker.step = "call" => served[Item][Operation] < disk[Item].started[Operation]
    /\ worker.step = "record" => disk[Item].succeeded[Operation] < served[Item][Operation]

IInv ==
    /\ TypeOK
    /\ StatesFit
    /\ InHands
    /\ QueueFits
    /\ EntriesFit
    /\ Verified
    /\ CountsFit
    /\ StoreMatchesRecord
    /\ Tracked

-----------------------------------------------------------------------------
(* The operations, and the initial state                                   *)

\* The four operations of an upload, in their order.
LEMMA OperationsAre ==
    /\ Names = {"payload_write", "manifest_write", "payload_verify_read", "manifest_verify_read"}
    /\ \A k \in 1 .. 4 : Operations[k] \in Names
    /\ Operations[1] = "payload_write" /\ Operations[2] = "manifest_write"
    /\ Operations[3] = "payload_verify_read" /\ Operations[4] = "manifest_verify_read"
    /\ Len(Operations) = 4
<1>1. DOMAIN Operations = 1 .. 4 /\ Len(Operations) = 4
  BY DEF Operations
<1>2. Names = {Operations[k] : k \in 1 .. 4}
  BY <1>1 DEF Names, ToSet
<1> QED
  BY <1>1, <1>2 DEF Operations

\* Before the first operation every count is zero.
LEMMA NothingCounted == None \in Counts /\ \A n \in Names : None[n] = 0
BY DEF None, Counts

\* Before the first session the disk and the store are empty.
LEMMA InitInvariant == Init => IInv
<1> SUFFICES ASSUME Init PROVE IInv
  OBVIOUS
<1>1. ~Busy /\ ~Up /\ ~worker.alive /\ worker \in WorkerRows
  <2>1. worker = [alive |-> FALSE, item |-> Nobody, step |-> "idle", operation |-> 1, left |-> 0]
    BY DEF Init, IdleWorker
  <2>2. 1 \in 1 .. 4 /\ "idle" \in Steps /\ caller = "down"
    BY DEF Init, Steps
  <2>3. worker \in WorkerRows
    BY <2>1, <2>2 DEF WorkerRows
  <2> QED
    BY <2>1, <2>2, <2>3 DEF Busy, Up
<1> USE DEF Init
<1>2. TypeOK
  <2>1. disk \in [Items -> DiskRows]
    BY NothingCounted DEF DiskRows, UploadStates
  <2>2. remote \in [Items -> RemoteRows]
    BY DEF RemoteRows
  <2>3. served \in [Items -> Counts] /\ queue \in Seq(Items) /\ entry \in [Items -> Entries]
    BY NothingCounted DEF Entries
  <2>4. sessions \in Nat /\ faults \in Nat /\ stop \in BOOLEAN /\ caller = "down"
    OBVIOUS
  <2> QED
    BY <1>1, <2>1, <2>2, <2>3, <2>4 DEF TypeOK
<1>3. StatesFit /\ Tracked /\ StoreMatchesRecord
  BY <1>1 DEF StatesFit, Tracked, StoreMatchesRecord
<1>4. InHands /\ Verified
  BY <1>1 DEF InHands, Verified, Busy
<1>5. QueueFits /\ EntriesFit
  BY <1>1 DEF QueueFits, EntriesFit
<1>6. CountsFit
  BY <1>1, NothingCounted DEF CountsFit, Busy
<1> QED
  BY <1>2, <1>3, <1>4, <1>5, <1>6 DEF IInv

-----------------------------------------------------------------------------
(* The thread, with an item in its hands                                   *)

\* A step of the thread that concerns only the item in its hands.
OnlyItem ==
    /\ UNCHANGED <<queue, entry, caller, stop, sessions, report, worker.alive, worker.item>>
    /\ disk'[Item].at = disk[Item].at
    /\ \A j \in Items : j # Item => /\ disk'[j] = disk[j] /\ remote'[j] = remote[j]
                                    /\ served'[j] = served[j]

\* What such a step must leave of the item's state: the state that the next
\* step expects, or an end.
LeftRight ==
    /\ worker'.step = "attempt" => disk'[Item].upload = "pending"
    /\ worker'.step \notin {"idle", "attempt"} => disk'[Item].upload = "uploading"
    /\ worker'.step = "idle" => stop \/ disk'[Item].upload \in {"uploaded", "failed"}
    /\ disk'[Item].upload # "absent"

\* Such a step keeps the queue, the hands and the states fitting.
LEMMA HandsKeep ==
    ASSUME IInv, Busy, OnlyItem, LeftRight
    PROVE  StatesFit' /\ InHands' /\ QueueFits' /\ EntriesFit' /\ Tracked'
<1> USE DEF IInv, OnlyItem, LeftRight
<1>1. Item \in Items /\ Item' = Item /\ Up' = Up /\ disk[Item].at = "staged" /\ Up
  BY DEF InHands, Item, Up
<1>2. StatesFit'
  BY <1>1 DEF StatesFit
<1>3. InHands'
  BY <1>1 DEF InHands, Busy
<1>4. \A m \in 1 .. Len(queue) : queue[m] \in Items /\ queue[m] # Item
  BY DEF TypeOK, QueueFits
<1>5. QueueFits'
  BY <1>1, <1>4 DEF QueueFits
<1>6. Tracked'
  BY <1>1 DEF Tracked, Open, Queued, Busy
<1>7. EntriesFit'
  <2>1. disk[Item].upload # "uploaded" /\ entry[Item] = "listed"
    BY DEF InHands
  <2>2. report # "completed"
    BY <1>1, <2>1 DEF EntriesFit
  <2>3. \A i \in Items : disk'[i].at = disk[i].at /\ (i # Item => disk'[i].upload = disk[i].upload)
    OBVIOUS
  <2> QED
    BY <1>1, <2>1, <2>2, <2>3 DEF EntriesFit
<1> QED
  BY <1>2, <1>3, <1>5, <1>6, <1>7

\* What a step of the thread starts from.
LEMMA HandsFacts ==
    ASSUME IInv, NEW step \in Steps \ {"idle"}, Working(step)
    PROVE  /\ Busy /\ Item \in Items /\ worker.step = step /\ Operation \in Names
           /\ disk[Item] \in DiskRows /\ worker \in WorkerRows
           /\ remote[Item] \in RemoteRows /\ served[Item] \in Counts
           /\ disk[Item].upload = IF step = "attempt" THEN "pending" ELSE "uploading"
<1>1. Busy /\ worker.step = step
  BY DEF Working, Busy
<1>2. Item \in Items
  BY <1>1 DEF IInv, InHands
<1>3. Operation \in Names
  BY OperationsAre DEF Operation, IInv, TypeOK, WorkerRows
<1> QED
  BY <1>1, <1>2, <1>3 DEF IInv, TypeOK, InHands

\* An attempt begins with the item of the thread, and nothing verified yet.
LEMMA BeginAttemptKeeps ==
    ASSUME IInv, BeginAttempt
    PROVE  IInv'
<1> USE DEF IInv
<1>1. Working("attempt") /\ "attempt" \in Steps \ {"idle"}
  BY DEF BeginAttempt, Steps
<1>2. /\ Busy /\ Item \in Items /\ disk[Item] \in DiskRows /\ worker \in WorkerRows
      /\ disk[Item].upload = "pending" /\ worker.left > 0
  BY <1>1, HandsFacts DEF BeginAttempt
<1>3. /\ worker' = [worker EXCEPT !.step = "start", !.operation = 1, !.left = @ - 1]
      /\ UNCHANGED <<remote, served, sessions, caller, queue, stop, faults, entry, report>>
  BY DEF BeginAttempt
<1>4. /\ worker' \in WorkerRows /\ worker'.step = "start" /\ worker'.operation = 1
      /\ worker'.alive = worker.alive /\ worker'.item = worker.item
  <2>1. worker.left - 1 \in Nat /\ 1 \in 1 .. 4
    BY <1>2 DEF WorkerRows
  <2> QED
    BY <1>2, <1>3, <2>1 DEF WorkerRows, Steps
<1>5. disk' = [disk EXCEPT ![Item].upload = "uploading", ![Item].attempts = @ + 1]
  BY DEF BeginAttempt
<1>6. /\ disk' \in [Items -> DiskRows]
      /\ \A j \in Items : j # Item => disk'[j] = disk[j]
      /\ disk'[Item].at = disk[Item].at /\ disk'[Item].upload = "uploading"
      /\ disk'[Item].started = disk[Item].started /\ disk'[Item].succeeded = disk[Item].succeeded
  <2>1. \A j \in Items : j # Item => disk'[j] = disk[j]
    BY <1>5 DEF TypeOK
  <2>2. disk'[Item] = [disk[Item] EXCEPT !.upload = "uploading", !.attempts = @ + 1]
    BY <1>2, <1>5 DEF TypeOK
  <2>3. disk'[Item] \in DiskRows
    <3>1. disk[Item].attempts + 1 \in Nat /\ "uploading" \in UploadStates
      BY <1>2 DEF DiskRows, UploadStates
    <3>2. disk'[Item] = [disk[Item] EXCEPT !.upload = "uploading",
                                           !.attempts = disk[Item].attempts + 1]
      BY <2>2
    <3> QED
      BY <1>2, <3>1, <3>2 DEF DiskRows
  <2>4. disk' \in [Items -> DiskRows]
    BY <1>2, <1>5, <2>1, <2>3 DEF TypeOK
  <2> QED
    BY <1>2, <2>1, <2>2, <2>4 DEF DiskRows
<1>7. OnlyItem /\ LeftRight
  BY <1>3, <1>4, <1>6 DEF OnlyItem, LeftRight
<1>8. TypeOK'
  BY <1>3, <1>4, <1>6 DEF TypeOK
<1>9. StatesFit' /\ InHands' /\ QueueFits' /\ EntriesFit' /\ Tracked'
  BY <1>2, <1>7, HandsKeep
<1>10. Verified'
  BY <1>4 DEF Verified
<1>11. CountsFit'
  BY <1>3, <1>4, <1>6 DEF CountsFit
<1>12. StoreMatchesRecord'
  BY <1>3, <1>6 DEF StoreMatchesRecord
<1> QED
  BY <1>8, <1>9, <1>10, <1>11, <1>12

\* A thread that is told to stop leaves its item pending.
LEMMA GiveUpForStopKeeps ==
    ASSUME IInv, GiveUpForStop
    PROVE  IInv'
<1> USE DEF IInv
<1>1. Working("attempt") /\ "attempt" \in Steps \ {"idle"}
  BY DEF GiveUpForStop, Steps
<1>2. Busy /\ Item \in Items /\ worker \in WorkerRows /\ disk[Item].upload = "pending" /\ stop
  BY <1>1, HandsFacts DEF GiveUpForStop
<1>3. /\ worker' = [worker EXCEPT !.step = "idle"]
      /\ UNCHANGED <<disk, remote, served, sessions, caller, queue, stop, faults, entry, report>>
  BY DEF GiveUpForStop
<1>4. /\ worker' \in WorkerRows /\ worker'.step = "idle"
      /\ worker'.alive = worker.alive /\ worker'.item = worker.item
  BY <1>2, <1>3 DEF WorkerRows, Steps
<1>5. OnlyItem /\ LeftRight
  BY <1>2, <1>3, <1>4 DEF OnlyItem, LeftRight
<1>6. TypeOK'
  BY <1>3, <1>4 DEF TypeOK
<1>7. StatesFit' /\ InHands' /\ QueueFits' /\ EntriesFit' /\ Tracked'
  BY <1>2, <1>5, HandsKeep
<1>8. Verified' /\ CountsFit' /\ StoreMatchesRecord'
  BY <1>3, <1>4 DEF Verified, CountsFit, StoreMatchesRecord
<1> QED
  BY <1>6, <1>7, <1>8

\* The start of an operation is counted before the store can serve it.
LEMMA StartOperationKeeps ==
    ASSUME IInv, StartOperation
    PROVE  IInv'
<1> USE DEF IInv
<1>1. Working("start") /\ "start" \in Steps \ {"idle"}
  BY DEF StartOperation, Steps
<1>2. /\ Busy /\ Item \in Items /\ disk[Item] \in DiskRows /\ worker \in WorkerRows
      /\ disk[Item].upload = "uploading" /\ Operation \in Names /\ worker.step = "start"
      /\ served[Item] \in Counts
  BY <1>1, HandsFacts
<1>3. /\ worker' = [worker EXCEPT !.step = "call"]
      /\ UNCHANGED <<remote, served, sessions, caller, queue, stop, faults, entry, report>>
  BY DEF StartOperation
<1>4. /\ worker' \in WorkerRows /\ worker'.step = "call" /\ worker'.operation = worker.operation
      /\ worker'.alive = worker.alive /\ worker'.item = worker.item
  BY <1>2, <1>3 DEF WorkerRows, Steps
<1> DEFINE counts == [disk[Item].started EXCEPT ![Operation] = @ + 1]
<1>5. /\ counts \in Counts /\ counts[Operation] = disk[Item].started[Operation] + 1
      /\ \A n \in Names : disk[Item].started[n] \in Nat /\ disk[Item].started[n] <= counts[n]
  BY <1>2 DEF DiskRows, Counts
<1>6. disk' = [disk EXCEPT ![Item] = [@ EXCEPT !.started = counts]]
  BY DEF StartOperation
<1> HIDE DEF counts
<1>7. /\ disk' \in [Items -> DiskRows]
      /\ \A j \in Items : j # Item => disk'[j] = disk[j]
      /\ disk'[Item].at = disk[Item].at /\ disk'[Item].upload = disk[Item].upload
      /\ disk'[Item].attempts = disk[Item].attempts
      /\ disk'[Item].started = counts /\ disk'[Item].succeeded = disk[Item].succeeded
  BY <1>2, <1>5, <1>6 DEF DiskRows, TypeOK
<1>8. OnlyItem /\ LeftRight
  BY <1>2, <1>3, <1>4, <1>7 DEF OnlyItem, LeftRight
<1>9. TypeOK'
  BY <1>3, <1>4, <1>7 DEF TypeOK
<1>10. StatesFit' /\ InHands' /\ QueueFits' /\ EntriesFit' /\ Tracked'
  BY <1>2, <1>8, HandsKeep
<1>11. Item' = Item /\ Operation' = Operation
  BY <1>4 DEF Item, Operation
<1>12. Verified'
  BY <1>2, <1>3, <1>4, <1>11 DEF Verified
<1>13. CountsFit'
  <2>1. \A n \in Names : served[Item][n] \in Nat /\ counts[n] \in Nat
    BY <1>2, <1>5 DEF Counts
  <2>2. \A n \in Names : served[Item][n] <= counts[n]
    BY <1>2, <1>5, <2>1 DEF CountsFit
  <2>3. served[Item][Operation] < counts[Operation]
    BY <1>2, <1>5, <2>1 DEF CountsFit
  <2> QED
    BY <1>2, <1>3, <1>4, <1>7, <1>11, <2>2, <2>3 DEF CountsFit
<1>14. StoreMatchesRecord'
  BY <1>3, <1>7 DEF StoreMatchesRecord
<1> QED
  BY <1>9, <1>10, <1>12, <1>13, <1>14

\* The store serves what was counted as started, and only a right read goes on.
LEMMA ServeKeeps ==
    ASSUME IInv, Serve
    PROVE  IInv'
<1> USE DEF IInv
<1>1. Working("call") /\ "call" \in Steps \ {"idle"}
  BY DEF Serve, Steps
<1>2. /\ Busy /\ Item \in Items /\ disk[Item] \in DiskRows /\ worker \in WorkerRows
      /\ disk[Item].upload = "uploading" /\ Operation \in Names /\ worker.step = "call"
      /\ served[Item] \in Counts /\ remote[Item] \in RemoteRows
  BY <1>1, HandsFacts
<1>3. PICK right \in BOOLEAN, answered \in BOOLEAN :
         /\ remote' = [remote EXCEPT ![Item] = After(right)]
         /\ worker' = [worker EXCEPT !.step = IF answered /\ ReadsRight THEN "record" ELSE "fail"]
         /\ FaultsOf((IF right THEN 0 ELSE 1) + (IF answered THEN 0 ELSE 1))
  BY DEF Serve
<1>4. UNCHANGED <<disk, sessions, caller, queue, stop, entry, report>> /\ faults' \in Nat
  BY <1>3 DEF Serve, FaultsOf, TypeOK
<1>5. /\ worker' \in WorkerRows /\ worker'.step \in {"record", "fail"}
      /\ worker'.step = "record" => ReadsRight
      /\ worker'.operation = worker.operation
      /\ worker'.alive = worker.alive /\ worker'.item = worker.item
  BY <1>2, <1>3 DEF WorkerRows, Steps
<1> DEFINE counts == [served[Item] EXCEPT ![Operation] = @ + 1]
<1>6. /\ counts \in Counts /\ counts[Operation] = served[Item][Operation] + 1
      /\ \A n \in Names : n # Operation => counts[n] = served[Item][n]
  BY <1>2 DEF Counts
<1>7. served' = [served EXCEPT ![Item] = counts]
  BY DEF Serve
<1> HIDE DEF counts
<1>8. /\ served' \in [Items -> Counts] /\ served'[Item] = counts
      /\ \A j \in Items : j # Item => served'[j] = served[j]
  BY <1>2, <1>6, <1>7 DEF TypeOK
<1>9. After(right) \in RemoteRows /\ (worker.operation \in {3, 4} => After(right) = remote[Item])
  <2>1. worker.operation \in 1 .. 4
    BY <1>2 DEF WorkerRows
  <2> QED
    BY <1>2, <2>1, OperationsAre DEF After, RemoteRows, DiskRows, Operation
<1>10. /\ remote' \in [Items -> RemoteRows] /\ remote'[Item] = After(right)
       /\ \A j \in Items : j # Item => remote'[j] = remote[j]
  BY <1>2, <1>3, <1>9 DEF TypeOK
<1>11. OnlyItem /\ LeftRight
  BY <1>2, <1>4, <1>5, <1>8, <1>10 DEF OnlyItem, LeftRight
<1>12. TypeOK'
  BY <1>4, <1>5, <1>8, <1>10 DEF TypeOK
<1>13. StatesFit' /\ InHands' /\ QueueFits' /\ EntriesFit' /\ Tracked'
  BY <1>2, <1>11, HandsKeep
<1>14. Item' = Item /\ Operation' = Operation
  BY <1>5 DEF Item, Operation
<1>15. Verified'
  <2>1. ASSUME worker'.step = "record", worker.operation = 3
        PROVE  remote'[Item].payload = "right"
    BY <1>5, <1>9, <1>10, <2>1, OperationsAre DEF ReadsRight, Operation
  <2>2. ASSUME worker'.step = "record", worker.operation = 4
        PROVE  remote'[Item].payload = "right" /\ remote'[Item].manifest = disk[Item].attempts
    BY <1>2, <1>5, <1>9, <1>10, <2>2, OperationsAre DEF ReadsRight, Operation, Verified
  <2> QED
    BY <1>4, <1>5, <1>14, <2>1, <2>2 DEF Verified
<1>16. CountsFit'
  <2>1. \A n \in Names : /\ disk[Item].succeeded[n] \in Nat /\ disk[Item].started[n] \in Nat
                         /\ served[Item][n] \in Nat
    BY <1>2 DEF DiskRows, Counts
  <2>2. \A n \in Names : disk[Item].succeeded[n] <= counts[n] /\ counts[n] <= disk[Item].started[n]
    BY <1>2, <1>6, <2>1 DEF CountsFit
  <2>3. disk[Item].succeeded[Operation] < counts[Operation]
    BY <1>2, <1>6, <2>1 DEF CountsFit
  <2> QED
    BY <1>4, <1>5, <1>8, <1>14, <2>2, <2>3 DEF CountsFit
<1>17. StoreMatchesRecord'
  BY <1>2, <1>4, <1>10 DEF StoreMatchesRecord
<1> QED
  BY <1>12, <1>13, <1>15, <1>16, <1>17

\* A refused call is an operation that was started and never served.
LEMMA RefuseKeeps ==
    ASSUME IInv, Refuse
    PROVE  IInv'
<1> USE DEF IInv
<1>1. Working("call") /\ "call" \in Steps \ {"idle"}
  BY DEF Refuse, Steps
<1>2. Busy /\ worker \in WorkerRows /\ disk[Item].upload = "uploading"
  BY <1>1, HandsFacts
<1>3. /\ worker' = [worker EXCEPT !.step = "fail"] /\ faults' \in Nat
      /\ UNCHANGED <<disk, remote, served, sessions, caller, queue, stop, entry, report>>
  BY DEF Refuse, AFault, FaultsOf, TypeOK
<1>4. /\ worker' \in WorkerRows /\ worker'.step = "fail"
      /\ worker'.alive = worker.alive /\ worker'.item = worker.item
  BY <1>2, <1>3 DEF WorkerRows, Steps
<1>5. OnlyItem /\ LeftRight
  BY <1>2, <1>3, <1>4 DEF OnlyItem, LeftRight
<1>6. TypeOK'
  BY <1>3, <1>4 DEF TypeOK
<1>7. StatesFit' /\ InHands' /\ QueueFits' /\ EntriesFit' /\ Tracked'
  BY <1>2, <1>5, HandsKeep
<1>8. Verified' /\ CountsFit' /\ StoreMatchesRecord'
  BY <1>3, <1>4 DEF Verified, CountsFit, StoreMatchesRecord
<1> QED
  BY <1>6, <1>7, <1>8

\* A success is counted after the store has served it, and the next begins.
LEMMA RecordOperationKeeps ==
    ASSUME IInv, RecordOperation
    PROVE  IInv'
<1> USE DEF IInv
<1>1. Working("record") /\ "record" \in Steps \ {"idle"}
  BY DEF RecordOperation, Steps
<1>2. /\ Busy /\ Item \in Items /\ disk[Item] \in DiskRows /\ worker \in WorkerRows
      /\ disk[Item].upload = "uploading" /\ Operation \in Names /\ worker.step = "record"
      /\ served[Item] \in Counts /\ remote[Item] \in RemoteRows
  BY <1>1, HandsFacts
<1>3. UNCHANGED <<remote, served, sessions, caller, queue, stop, entry, report>> /\ faults' \in Nat
  BY DEF RecordOperation, NoFault, AFault, FaultsOf, TypeOK
<1>4. \/ worker' = [worker EXCEPT !.step = "start", !.operation = worker.operation + 1]
           /\ worker.operation < 4
      \/ worker' = [worker EXCEPT !.step = "verified"] /\ worker.operation >= 4
      \/ worker' = [worker EXCEPT !.step = "fail"]
  BY <1>2, OperationsAre DEF RecordOperation, WorkerRows
<1>5. /\ worker' \in WorkerRows
      /\ worker'.alive = worker.alive /\ worker'.item = worker.item
      /\ \/ worker'.step = "start" /\ worker'.operation = worker.operation + 1
         \/ worker'.step = "verified" /\ worker.operation = 4
         \/ worker'.step = "fail"
  <2>1. worker.operation \in 1 .. 4
    BY <1>2 DEF WorkerRows
  <2>2. CASE worker' = [worker EXCEPT !.step = "start", !.operation = worker.operation + 1]
             /\ worker.operation < 4
    <3>1. worker.operation + 1 \in 1 .. 4 /\ "start" \in Steps
      BY <2>1, <2>2 DEF Steps
    <3> QED
      BY <1>2, <2>2, <3>1 DEF WorkerRows
  <2>3. CASE worker' = [worker EXCEPT !.step = "verified"] /\ worker.operation >= 4
    <3>1. worker.operation = 4 /\ "verified" \in Steps
      BY <2>1, <2>3 DEF Steps
    <3> QED
      BY <1>2, <2>3, <3>1 DEF WorkerRows
  <2>4. CASE worker' = [worker EXCEPT !.step = "fail"]
    <3>1. "fail" \in Steps
      BY DEF Steps
    <3> QED
      BY <1>2, <2>4, <3>1 DEF WorkerRows
  <2> QED
    BY <1>4, <2>2, <2>3, <2>4
<1> DEFINE counts == [disk[Item].succeeded EXCEPT ![Operation] = @ + 1]
<1>6. /\ counts \in Counts /\ counts[Operation] = disk[Item].succeeded[Operation] + 1
      /\ \A n \in Names : n # Operation => counts[n] = disk[Item].succeeded[n]
  BY <1>2 DEF DiskRows, Counts
<1>7. disk' = [disk EXCEPT ![Item] = [@ EXCEPT !.succeeded = counts]]
  BY DEF RecordOperation
<1> HIDE DEF counts
<1>8. /\ disk' \in [Items -> DiskRows]
      /\ \A j \in Items : j # Item => disk'[j] = disk[j]
      /\ disk'[Item].at = disk[Item].at /\ disk'[Item].upload = disk[Item].upload
      /\ disk'[Item].attempts = disk[Item].attempts
      /\ disk'[Item].started = disk[Item].started /\ disk'[Item].succeeded = counts
  BY <1>2, <1>6, <1>7 DEF DiskRows, TypeOK
<1>9. OnlyItem /\ LeftRight
  BY <1>2, <1>3, <1>5, <1>8 DEF OnlyItem, LeftRight
<1>10. TypeOK'
  BY <1>3, <1>5, <1>8 DEF TypeOK
<1>11. StatesFit' /\ InHands' /\ QueueFits' /\ EntriesFit' /\ Tracked'
  BY <1>2, <1>9, HandsKeep
<1>12. Item' = Item
  BY <1>5 DEF Item
<1>13. Verified'
  <2>1. worker.operation \in 1 .. 4
    BY <1>2 DEF WorkerRows
  <2>2. worker.operation \in {3, 4} => remote[Item].payload = "right"
    BY <1>2 DEF Verified
  <2>3. worker.operation = 4 =>
           remote[Item] = [payload |-> "right", manifest |-> disk[Item].attempts]
    BY <1>2 DEF Verified, RemoteRows
  <2>4. CASE worker'.step = "start" /\ worker'.operation = worker.operation + 1
    BY <1>3, <1>12, <2>1, <2>2, <2>4 DEF Verified
  <2>5. CASE worker'.step = "verified" /\ worker.operation = 4
    BY <1>3, <1>8, <1>12, <2>3, <2>5 DEF Verified
  <2>6. CASE worker'.step = "fail"
    BY <2>6 DEF Verified
  <2> QED
    BY <1>5, <2>4, <2>5, <2>6
<1>14. CountsFit'
  <2>1. \A n \in Names : disk[Item].succeeded[n] \in Nat /\ served[Item][n] \in Nat
    BY <1>2 DEF DiskRows, Counts
  <2>2. \A n \in Names : counts[n] <= served[Item][n]
    BY <1>2, <1>6, <2>1 DEF CountsFit
  <2> QED
    BY <1>2, <1>3, <1>5, <1>8, <2>2 DEF CountsFit
<1>15. StoreMatchesRecord'
  BY <1>2, <1>3, <1>8 DEF StoreMatchesRecord
<1> QED
  BY <1>10, <1>11, <1>13, <1>14, <1>15

\* The item is marked uploaded when the last read has found its manifest.
LEMMA MarkUploadedKeeps ==
    ASSUME IInv, MarkUploaded
    PROVE  IInv'
<1> USE DEF IInv
<1>1. Working("verified") /\ "verified" \in Steps \ {"idle"}
  BY DEF MarkUploaded, Steps
<1>2. /\ Busy /\ Item \in Items /\ disk[Item] \in DiskRows /\ worker \in WorkerRows
      /\ disk[Item].upload = "uploading" /\ worker.step = "verified"
  BY <1>1, HandsFacts
<1>3. UNCHANGED <<remote, served, sessions, caller, queue, stop, entry, report>> /\ faults' \in Nat
  BY DEF MarkUploaded, NoFault, AFault, FaultsOf, TypeOK
<1>4. \/ /\ worker' = [worker EXCEPT !.step = "idle"]
         /\ disk' = [disk EXCEPT ![Item].upload = "uploaded"]
      \/ worker' = [worker EXCEPT !.step = "fail"] /\ disk' = disk
  BY DEF MarkUploaded
<1>5. /\ worker' \in WorkerRows /\ worker'.alive = worker.alive /\ worker'.item = worker.item
      /\ worker'.step \in {"idle", "fail"}
  BY <1>2, <1>4 DEF WorkerRows, Steps
<1>6. /\ disk' \in [Items -> DiskRows]
      /\ \A j \in Items : j # Item => disk'[j] = disk[j]
      /\ disk'[Item].at = disk[Item].at
      /\ disk'[Item].upload = IF worker'.step = "idle" THEN "uploaded" ELSE "uploading"
      /\ disk'[Item].attempts = disk[Item].attempts
      /\ disk'[Item].started = disk[Item].started
      /\ disk'[Item].succeeded = disk[Item].succeeded
  <2>1. "uploaded" \in UploadStates
    BY DEF UploadStates
  <2>2. CASE /\ worker' = [worker EXCEPT !.step = "idle"]
             /\ disk' = [disk EXCEPT ![Item].upload = "uploaded"]
    <3>1. worker'.step = "idle"
      BY <1>2, <2>2 DEF WorkerRows
    <3> QED
      BY <1>2, <2>1, <2>2, <3>1 DEF DiskRows, TypeOK
  <2>3. CASE worker' = [worker EXCEPT !.step = "fail"] /\ disk' = disk
    <3>1. worker'.step = "fail"
      BY <1>2, <2>3 DEF WorkerRows
    <3> QED
      BY <1>2, <2>3, <3>1 DEF TypeOK
  <2> QED
    BY <1>4, <2>2, <2>3
<1>7. OnlyItem /\ LeftRight
  BY <1>2, <1>3, <1>5, <1>6 DEF OnlyItem, LeftRight
<1>8. TypeOK'
  BY <1>3, <1>5, <1>6 DEF TypeOK
<1>9. StatesFit' /\ InHands' /\ QueueFits' /\ EntriesFit' /\ Tracked'
  BY <1>2, <1>7, HandsKeep
<1>10. Verified' /\ CountsFit'
  BY <1>2, <1>3, <1>5, <1>6 DEF Verified, CountsFit
<1>11. StoreMatchesRecord'
  BY <1>2, <1>3, <1>5, <1>6 DEF StoreMatchesRecord, Verified
<1> QED
  BY <1>8, <1>9, <1>10, <1>11

\* A failure leaves the item pending for the next attempt, or failed.
LEMMA FailKeeps ==
    ASSUME IInv, Fail
    PROVE  IInv'
<1> USE DEF IInv
<1>1. Working("fail") /\ "fail" \in Steps \ {"idle"}
  BY DEF Fail, Steps
<1>2. /\ Busy /\ Item \in Items /\ disk[Item] \in DiskRows /\ worker \in WorkerRows
      /\ disk[Item].upload = "uploading" /\ worker.step = "fail"
  BY <1>1, HandsFacts
<1> DEFINE after == IF worker.left = 0 THEN "failed" ELSE "pending"
<1>3. /\ worker' = [worker EXCEPT !.step = IF worker.left = 0 \/ stop THEN "idle" ELSE "attempt"]
      /\ disk' = [disk EXCEPT ![Item].upload = after]
      /\ UNCHANGED <<remote, served, sessions, caller, queue, stop, faults, entry, report>>
  BY DEF Fail
<1>4. /\ worker' \in WorkerRows /\ worker'.alive = worker.alive /\ worker'.item = worker.item
      /\ worker'.step = IF worker.left = 0 \/ stop THEN "idle" ELSE "attempt"
  BY <1>2, <1>3 DEF WorkerRows, Steps
<1>5. /\ after \in {"failed", "pending"} /\ after \in UploadStates
      /\ (worker.left = 0 => after = "failed")
      /\ (worker.left # 0 => after = "pending")
  BY DEF UploadStates
<1> HIDE DEF after
<1>6. /\ disk' \in [Items -> DiskRows]
      /\ \A j \in Items : j # Item => disk'[j] = disk[j]
      /\ disk'[Item].at = disk[Item].at /\ disk'[Item].upload = after
      /\ disk'[Item].attempts = disk[Item].attempts
      /\ disk'[Item].started = disk[Item].started
      /\ disk'[Item].succeeded = disk[Item].succeeded
  BY <1>2, <1>3, <1>5 DEF DiskRows, TypeOK
<1>7. OnlyItem /\ LeftRight
  BY <1>2, <1>3, <1>4, <1>5, <1>6 DEF OnlyItem, LeftRight
<1>8. TypeOK'
  BY <1>3, <1>4, <1>6 DEF TypeOK
<1>9. StatesFit' /\ InHands' /\ QueueFits' /\ EntriesFit' /\ Tracked'
  BY <1>2, <1>7, HandsKeep
<1>10. Verified' /\ CountsFit'
  BY <1>2, <1>3, <1>4, <1>6 DEF Verified, CountsFit
<1>11. StoreMatchesRecord'
  BY <1>2, <1>3, <1>5, <1>6 DEF StoreMatchesRecord
<1> QED
  BY <1>8, <1>9, <1>10, <1>11

\* A thread that dies has nothing in its hands, and no duty.
LEMMA WorkerDiesKeeps ==
    ASSUME IInv, WorkerDies
    PROVE  IInv'
<1> USE DEF IInv
<1>1. /\ worker' = [worker EXCEPT !.alive = FALSE, !.step = "idle"]
      /\ UNCHANGED <<disk, remote, served, sessions, caller, queue, stop, entry, report>> /\ faults' \in Nat
  BY DEF WorkerDies, AFault, FaultsOf, TypeOK
<1>2. worker' \in WorkerRows /\ ~worker'.alive /\ worker'.step = "idle"
  BY <1>1 DEF TypeOK, WorkerRows, Steps
<1>3. TypeOK'
  BY <1>1, <1>2 DEF TypeOK
<1>4. StatesFit' /\ InHands' /\ QueueFits' /\ EntriesFit' /\ Tracked'
  BY <1>1, <1>2 DEF StatesFit, InHands, QueueFits, EntriesFit, Tracked, Busy, Up
<1>5. Verified' /\ CountsFit' /\ StoreMatchesRecord'
  BY <1>1, <1>2 DEF Verified, CountsFit, StoreMatchesRecord
<1> QED
  BY <1>3, <1>4, <1>5

\* A thread that stops had nothing in its hands.
LEMMA WorkerStopsKeeps ==
    ASSUME IInv, WorkerStops
    PROVE  IInv'
<1> USE DEF IInv
<1>1. /\ worker' = [worker EXCEPT !.alive = FALSE] /\ worker.step = "idle"
      /\ UNCHANGED <<disk, remote, served, sessions, caller, queue, stop, faults, entry, report>>
  BY DEF WorkerStops, Working
<1>2. worker' \in WorkerRows /\ ~worker'.alive /\ worker'.step = "idle"
  BY <1>1 DEF TypeOK, WorkerRows
<1>3. TypeOK'
  BY <1>1, <1>2 DEF TypeOK
<1>4. StatesFit' /\ InHands' /\ QueueFits' /\ EntriesFit' /\ Tracked'
  BY <1>1, <1>2 DEF StatesFit, InHands, QueueFits, EntriesFit, Tracked, Busy, Up
<1>5. Verified' /\ CountsFit' /\ StoreMatchesRecord'
  BY <1>1, <1>2 DEF Verified, CountsFit, StoreMatchesRecord
<1> QED
  BY <1>3, <1>4, <1>5

\* The head of the queue comes to the thread's hands.
LEMMA TakeItemKeeps ==
    ASSUME IInv, TakeItem
    PROVE  IInv'
<1> USE DEF IInv
<1>1. /\ worker.alive /\ worker.step = "idle" /\ queue # <<>>
      /\ worker' = [worker EXCEPT !.item = Head(queue), !.step = "attempt",
                                   !.left = MaximumAttempts]
      /\ queue' = Tail(queue)
      /\ UNCHANGED <<disk, remote, served, sessions, caller, stop, faults, entry, report>>
  BY DEF TakeItem, Working
<1>2. queue \in Seq(Items) /\ worker \in WorkerRows
  BY DEF TypeOK
<1>3. /\ Head(queue) = queue[1] /\ queue[1] \in Items /\ 1 \in 1 .. Len(queue)
      /\ queue' \in Seq(Items) /\ Len(queue') = Len(queue) - 1
      /\ \A m \in 1 .. Len(queue') : queue'[m] = queue[m + 1] /\ m + 1 \in 1 .. Len(queue)
  BY <1>1, <1>2
<1>4. /\ worker' \in WorkerRows /\ worker'.step = "attempt" /\ worker'.item = queue[1]
      /\ worker'.alive
  <2>1. MaximumAttempts \in Nat /\ "attempt" \in Steps
    BY SpoolAssumption DEF Steps
  <2> QED
    BY <1>1, <1>2, <1>3, <2>1 DEF WorkerRows
<1>5. TypeOK'
  BY <1>1, <1>3, <1>4 DEF TypeOK
<1>6. /\ Up /\ disk[queue[1]].at = "staged" /\ disk[queue[1]].upload = "pending"
      /\ entry[queue[1]] = "listed"
  BY <1>1, <1>3 DEF InHands, QueueFits
<1>7. StatesFit' /\ InHands' /\ EntriesFit'
  BY <1>1, <1>3, <1>4, <1>6 DEF StatesFit, InHands, EntriesFit, Up, Item, Busy
<1>8. QueueFits'
  <2>1. \A m \in 1 .. Len(queue') : queue'[m] # queue[1]
    BY <1>2, <1>3 DEF QueueFits
  <2>2. \A m, n \in 1 .. Len(queue') : queue'[m] = queue'[n] => m = n
    <3> SUFFICES ASSUME NEW m \in 1 .. Len(queue'), NEW n \in 1 .. Len(queue'),
                        queue'[m] = queue'[n]
                 PROVE  m = n
      OBVIOUS
    <3>1. m + 1 = n + 1
      BY <1>3 DEF QueueFits
    <3> QED
      BY <3>1
  <2>3. \A m \in 1 .. Len(queue') : /\ disk[queue'[m]].at = "staged"
                                    /\ disk[queue'[m]].upload = "pending"
                                    /\ entry[queue'[m]] = "listed"
    <3> TAKE m \in 1 .. Len(queue')
    <3>1. queue'[m] = queue[m + 1] /\ m + 1 \in 1 .. Len(queue)
      BY <1>3
    <3> QED
      BY <3>1 DEF QueueFits
  <2> QED
    BY <1>1, <1>4, <2>1, <2>2, <2>3 DEF QueueFits, Item
<1>9. Tracked'
  <2> SUFFICES ASSUME ~stop, NEW i \in Items, Open(i), ~(i = queue[1])
               PROVE  Queued(i)'
    BY <1>1, <1>4 DEF Tracked, Open, Up, Item, Busy
  <2>1. PICK m \in 1 .. Len(queue) : queue[m] = i
    BY <1>1, <1>6 DEF Tracked, Queued, Busy
  <2>2. m - 1 \in 1 .. Len(queue') /\ queue'[m - 1] = i
    BY <1>2, <1>3, <2>1
  <2> QED
    BY <2>2 DEF Queued
<1>10. Verified' /\ CountsFit' /\ StoreMatchesRecord'
  BY <1>1, <1>4 DEF Verified, CountsFit, StoreMatchesRecord
<1> QED
  BY <1>5, <1>7, <1>8, <1>9, <1>10

-----------------------------------------------------------------------------
(* The caller                                                              *)

\* The first session begins with an empty disk.
LEMMA StartKeeps ==
    ASSUME IInv, Start
    PROVE  IInv'
<1> USE DEF IInv
<1>1. /\ sessions = 0 /\ sessions' = 1 /\ caller' = "open"
      /\ worker' = IdleWorker /\ queue' = <<>> /\ stop' = FALSE
      /\ UNCHANGED <<disk, remote, served, faults, entry, report>>
  BY DEF Start
<1>2. worker' \in WorkerRows /\ worker'.step = "idle"
  BY <1>1 DEF IdleWorker, WorkerRows, Steps
<1>3. TypeOK'
  <2>1. queue' \in Seq(Items) /\ sessions' \in Nat
    BY <1>1
  <2> QED
    BY <1>1, <1>2, <2>1 DEF TypeOK
<1>4. \A i \in Items : disk'[i].at = "nowhere"
  BY <1>1 DEF StatesFit
<1>5. StatesFit' /\ InHands' /\ QueueFits' /\ EntriesFit' /\ Tracked'
  BY <1>1, <1>2, <1>4 DEF StatesFit, InHands, QueueFits, EntriesFit, Tracked, Busy, Up, Open
<1>6. Verified' /\ CountsFit' /\ StoreMatchesRecord'
  BY <1>1, <1>2 DEF Verified, CountsFit, StoreMatchesRecord
<1> QED
  BY <1>3, <1>5, <1>6

\* From finish on the thread is told to stop.
LEMMA FinishKeeps ==
    ASSUME IInv, Finish
    PROVE  IInv'
<1> USE DEF IInv
<1>1. /\ caller' = "joining" /\ stop' = TRUE /\ Up /\ Up'
      /\ \A i \in Items : entry[i] # "renamed"
      /\ UNCHANGED <<disk, remote, served, sessions, queue, worker, faults, entry, report>>
  BY DEF Finish, Up
<1>2. TypeOK' /\ StatesFit' /\ InHands' /\ QueueFits' /\ Tracked'
  BY <1>1 DEF TypeOK, StatesFit, InHands, QueueFits, Tracked, Busy, Item
<1>4. EntriesFit'
  BY <1>1 DEF EntriesFit
<1>3. Verified' /\ CountsFit' /\ StoreMatchesRecord'
  BY <1>1 DEF Verified, CountsFit, StoreMatchesRecord, Item, Operation
<1> QED
  BY <1>2, <1>3, <1>4

\* A join changes neither the disk nor the thread.  What it reports as completed
\* is all that is staged, but for what the session was never told of.
LEMMA JoinKeeps ==
    ASSUME IInv, Join
    PROVE  IInv'
<1> USE DEF IInv
<1>1. /\ caller = "joining" /\ caller' = "finished" /\ Up /\ Up' /\ report' = FinishState
      /\ UNCHANGED <<disk, remote, served, sessions, queue, worker, stop, faults, entry>>
  BY DEF Join, Up
<1>2. TypeOK' /\ StatesFit' /\ InHands' /\ QueueFits' /\ Tracked'
  BY <1>1 DEF TypeOK, StatesFit, InHands, QueueFits, Tracked, Busy, Item, Open, Queued
<1>3. EntriesFit'
  <2>1. ASSUME NEW i \in Items, disk[i].at = "staged", report' = "completed"
        PROVE  disk[i].upload = "uploaded" \/ entry[i] = "raised"
    <3>1. entry[i] \in {"listed", "raised"}
      BY <1>1, <2>1 DEF EntriesFit, TypeOK, Entries
    <3>2. entry[i] = "listed" => disk[i].upload = "uploaded"
      BY <1>1, <2>1 DEF FinishState, Known
    <3> QED
      BY <3>1, <3>2
  <2> QED
    BY <1>1, <2>1 DEF EntriesFit
<1>4. Verified' /\ CountsFit' /\ StoreMatchesRecord'
  BY <1>1 DEF Verified, CountsFit, StoreMatchesRecord, Item, Operation
<1> QED
  BY <1>2, <1>3, <1>4

\* The end of a process leaves the disk and the store.
LEMMA ExitKeeps ==
    ASSUME IInv, Exit
    PROVE  IInv'
<1> USE DEF IInv
<1>1. /\ caller' = "down" /\ Up /\ queue' = <<>> /\ stop' = FALSE
      /\ entry' = [i \in Items |-> "none"] /\ report' = "none"
      /\ worker' = [IdleWorker EXCEPT !.alive = FALSE]
      /\ UNCHANGED <<disk, remote, served, sessions, faults>>
  BY DEF Exit
<1>2. worker' \in WorkerRows /\ worker'.step = "idle" /\ ~worker'.alive
  <2>1. worker' = [alive |-> FALSE, item |-> Nobody, step |-> "idle", operation |-> 1, left |-> 0]
    BY <1>1 DEF IdleWorker
  <2>2. 1 \in 1 .. 4 /\ "idle" \in Steps
    BY DEF Steps
  <2> QED
    BY <2>1, <2>2 DEF WorkerRows
<1>3. TypeOK'
  <2>1. queue' \in Seq(Items) /\ entry' \in [Items -> Entries]
    BY <1>1 DEF Entries
  <2> QED
    BY <1>1, <1>2, <2>1 DEF TypeOK
<1>4. StatesFit' /\ InHands' /\ QueueFits' /\ EntriesFit' /\ Tracked'
  BY <1>1, <1>2 DEF StatesFit, InHands, QueueFits, EntriesFit, Tracked, Busy, Up
<1>5. Verified' /\ CountsFit' /\ StoreMatchesRecord'
  BY <1>1, <1>2 DEF Verified, CountsFit, StoreMatchesRecord
<1> QED
  BY <1>3, <1>4, <1>5

\* A step of the caller at an item that is not in the spool yet, or no longer.
Beside(i) ==
    /\ disk[i].at # "staged" /\ caller = "open" /\ sessions # 0
    /\ \A j \in Items : j # i => disk'[j] = disk[j]
    /\ disk'[i] \in DiskRows
    /\ disk'[i].at = "nowhere" => disk'[i].upload = "absent"
    /\ disk'[i].at # "nowhere" => disk'[i].upload = "pending"
    /\ disk'[i].started = disk[i].started /\ disk'[i].succeeded = disk[i].succeeded
    /\ disk' \in [Items -> DiskRows]
    /\ \A j \in Items : j # i => entry'[j] = entry[j]
    /\ entry'[i] = IF disk'[i].at = "staged" THEN "renamed" ELSE "none"
    /\ entry' \in [Items -> Entries]
    /\ faults' \in Nat
    /\ UNCHANGED <<remote, served, sessions, caller, queue, worker, stop, report>>

\* What such a step leaves alone: the queue and the thread are about others.
LEMMA BesideKeeps ==
    ASSUME IInv, NEW i \in Items, Beside(i)
    PROVE  IInv'
<1> USE DEF IInv, Beside
<1>1. Busy => Item # i /\ Item \in Items
  BY DEF InHands
<1>2. \A m \in 1 .. Len(queue) : queue[m] # i
  BY DEF QueueFits
<1>3. StatesFit'
  BY DEF StatesFit
<1>4. InHands'
  BY <1>1 DEF InHands, Busy, Item, Up
<1>5. Verified'
  BY <1>1 DEF Verified, Busy, Item
<1>6. CountsFit'
  <2>1. \A j \in Items : /\ disk'[j].started = disk[j].started
                         /\ disk'[j].succeeded = disk[j].succeeded
    OBVIOUS
  <2> QED
    BY <1>1, <2>1 DEF CountsFit, Busy, Item, Operation
<1>7. StoreMatchesRecord'
  BY DEF StoreMatchesRecord
<1>8. TypeOK'
  BY DEF TypeOK
<1>9. QueueFits'
  <2>1. \A m \in 1 .. Len(queue) : queue[m] \in Items
    BY DEF TypeOK
  <2> QED
    BY <1>2, <2>1 DEF QueueFits, Busy, Item
<1>10. EntriesFit'
  BY DEF EntriesFit, Up
<1>11. Tracked'
  <2> SUFFICES ASSUME Up, worker.alive, ~stop, NEW j \in Items, Open(j)'
               PROVE  Queued(j) \/ (Busy /\ Item = j)
    BY DEF Tracked, Queued, Busy, Item, Up
  <2>1. j # i /\ Open(j)
    BY DEF Open
  <2> QED
    BY <2>1 DEF Tracked
<1> QED
  BY <1>3, <1>4, <1>5, <1>6, <1>7, <1>8, <1>9, <1>10, <1>11

\* A hidden directory appears, or is removed again.
LEMMA HiddenKeeps ==
    ASSUME IInv, NEW i \in Items, StageHidden(i) \/ StageFails(i)
    PROVE  IInv'
<1> USE DEF IInv
<1>1. /\ caller = "open" /\ disk[i].at # "staged"
      /\ UNCHANGED <<remote, served, sessions, caller, queue, worker, stop, entry, report>>
      /\ faults' \in Nat
  BY DEF StageHidden, StageFails, AFault, FaultsOf, TypeOK
<1>2. \/ disk' = [disk EXCEPT ![i].at = "hidden", ![i].upload = "pending"]
      \/ disk' = [disk EXCEPT ![i].at = "nowhere", ![i].upload = "absent"]
  BY DEF StageHidden, StageFails
<1>3. disk[i] \in DiskRows
  BY DEF TypeOK
<1>4. /\ disk'[i] = [disk[i] EXCEPT !.at = "hidden", !.upload = "pending"]
         \/ disk'[i] = [disk[i] EXCEPT !.at = "nowhere", !.upload = "absent"]
      /\ \A j \in Items : j # i => disk'[j] = disk[j]
  BY <1>2 DEF TypeOK
<1>5. /\ disk'[i] \in DiskRows
      /\ disk'[i].at = "nowhere" => disk'[i].upload = "absent"
      /\ disk'[i].at # "nowhere" => disk'[i].upload = "pending"
      /\ disk'[i].at # "staged"
      /\ disk'[i].started = disk[i].started /\ disk'[i].succeeded = disk[i].succeeded
  BY <1>3, <1>4 DEF DiskRows, UploadStates
<1>6. disk' \in [Items -> DiskRows]
  BY <1>2, <1>4, <1>5 DEF TypeOK
<1>7. entry'[i] = "none" /\ entry' \in [Items -> Entries]
  BY <1>1 DEF EntriesFit, TypeOK
<1>8. Beside(i)
  <2>1. sessions # 0
    BY <1>1 DEF StatesFit, Up
  <2> QED
    BY <1>1, <1>4, <1>5, <1>6, <1>7, <2>1 DEF Beside
<1> QED
  BY <1>8, BesideKeeps

\* The item is staged, and the session does not know it yet.
LEMMA StageRenamedKeeps ==
    ASSUME IInv, NEW i \in Items, StageRenamed(i)
    PROVE  IInv'
<1> USE DEF IInv
<1>1. /\ caller = "open" /\ disk[i].at = "hidden"
      /\ disk' = [disk EXCEPT ![i].at = "staged"] /\ entry' = [entry EXCEPT ![i] = "renamed"]
      /\ UNCHANGED <<remote, served, sessions, caller, queue, worker, stop, report, faults>>
  BY DEF StageRenamed
<1>2. disk[i] \in DiskRows /\ disk[i].upload = "pending"
  BY <1>1 DEF TypeOK, StatesFit
<1>3. /\ disk'[i] = [disk[i] EXCEPT !.at = "staged"]
      /\ \A j \in Items : j # i => disk'[j] = disk[j]
  BY <1>1 DEF TypeOK
<1>4. /\ disk'[i] \in DiskRows /\ disk'[i].at = "staged" /\ disk'[i].upload = "pending"
      /\ disk'[i].started = disk[i].started /\ disk'[i].succeeded = disk[i].succeeded
  BY <1>2, <1>3 DEF DiskRows
<1>5. disk' \in [Items -> DiskRows]
  BY <1>1, <1>3, <1>4 DEF TypeOK
<1>6. /\ entry'[i] = "renamed" /\ entry' \in [Items -> Entries]
      /\ \A j \in Items : j # i => entry'[j] = entry[j]
  BY <1>1 DEF TypeOK, Entries
<1>7. Beside(i)
  <2>1. sessions # 0 /\ faults' \in Nat
    BY <1>1 DEF StatesFit, Up, TypeOK
  <2> QED
    BY <1>1, <1>3, <1>4, <1>5, <1>6, <2>1 DEF Beside
<1> QED
  BY <1>7, BesideKeeps

\* An item whose staging is under way is pending, and not with the thread.
LEMMA RenamedFacts ==
    ASSUME IInv, NEW i \in Items, entry[i] = "renamed"
    PROVE  /\ disk[i].at = "staged" /\ disk[i].upload = "pending" /\ Up
           /\ Busy => Item # i
           /\ \A m \in 1 .. Len(queue) : queue[m] # i
           /\ report # "completed"
BY DEF IInv, EntriesFit, InHands, QueueFits

\* The item enters the list and the queue.
LEMMA StageQueuedKeeps ==
    ASSUME IInv, NEW i \in Items, StageQueued(i)
    PROVE  IInv'
<1> USE DEF IInv
<1>1. /\ caller = "open" /\ entry[i] = "renamed"
      /\ entry' = [entry EXCEPT ![i] = "listed"] /\ queue' = Append(queue, i)
      /\ UNCHANGED <<disk, remote, served, sessions, caller, worker, stop, report, faults>>
  BY DEF StageQueued
<1>2. /\ disk[i].at = "staged" /\ disk[i].upload = "pending" /\ Up
      /\ Busy => Item # i
      /\ \A m \in 1 .. Len(queue) : queue[m] # i
      /\ report # "completed"
  BY <1>1, RenamedFacts
<1>3. /\ entry'[i] = "listed" /\ entry' \in [Items -> Entries]
      /\ \A j \in Items : j # i => entry'[j] = entry[j]
  BY <1>1 DEF TypeOK, Entries
<1>4. queue \in Seq(Items)
  BY DEF TypeOK
<1>5. /\ queue' \in Seq(Items) /\ Len(queue') = Len(queue) + 1 /\ queue'[Len(queue) + 1] = i
      /\ \A m \in 1 .. Len(queue) : queue'[m] = queue[m] /\ m \in 1 .. Len(queue')
      /\ \A m \in 1 .. Len(queue') : m \in 1 .. Len(queue) \/ m = Len(queue) + 1
      /\ Len(queue) + 1 \in 1 .. Len(queue')
      /\ \A m \in 1 .. Len(queue) : queue[m] \in Items
  BY <1>1, <1>4
<1>6. TypeOK' /\ StatesFit'
  BY <1>1, <1>3, <1>5 DEF TypeOK, StatesFit, Up
<1>7. InHands'
  BY <1>1, <1>2, <1>3 DEF InHands, Busy, Item, Up
<1>8. EntriesFit'
  BY <1>1, <1>2, <1>3 DEF EntriesFit, Up
<1>9. QueueFits'
  <2>1. \A m \in 1 .. Len(queue') : /\ disk[queue'[m]].at = "staged"
                                    /\ disk[queue'[m]].upload = "pending"
                                    /\ entry'[queue'[m]] = "listed"
    <3> TAKE m \in 1 .. Len(queue')
    <3>1. CASE m \in 1 .. Len(queue)
      <4>1. queue'[m] = queue[m] /\ entry'[queue[m]] = entry[queue[m]]
        BY <1>2, <1>3, <1>5, <3>1
      <4> QED
        BY <3>1, <4>1 DEF QueueFits
    <3>2. CASE m = Len(queue) + 1
      BY <1>2, <1>3, <1>5, <3>2
    <3> QED
      BY <1>5, <3>1, <3>2
  <2>2. \A m, n \in 1 .. Len(queue') : queue'[m] = queue'[n] => m = n
    <3> SUFFICES ASSUME NEW m \in 1 .. Len(queue'), NEW n \in 1 .. Len(queue'),
                        queue'[m] = queue'[n]
                 PROVE  m = n
      OBVIOUS
    <3>1. CASE m \in 1 .. Len(queue) /\ n \in 1 .. Len(queue)
      BY <1>5, <3>1 DEF QueueFits
    <3>2. CASE m = Len(queue) + 1 /\ n \in 1 .. Len(queue)
      BY <1>2, <1>5, <3>2
    <3>3. CASE n = Len(queue) + 1 /\ m \in 1 .. Len(queue)
      BY <1>2, <1>5, <3>3
    <3> QED
      BY <1>5, <3>1, <3>2, <3>3
  <2>3. Busy => \A m \in 1 .. Len(queue') : queue'[m] # Item
    BY <1>2, <1>5 DEF QueueFits
  <2> QED
    BY <1>1, <2>1, <2>2, <2>3 DEF QueueFits, Busy, Item
<1>10. Tracked'
  <2> SUFFICES ASSUME Up, worker.alive, ~stop, NEW j \in Items, Open(j)'
               PROVE  Queued(j)' \/ (Busy /\ Item = j)
    BY <1>1 DEF Tracked, Busy, Item, Up
  <2>1. CASE j = i
    BY <1>5, <2>1 DEF Queued
  <2>2. CASE j # i
    <3>1. Queued(j) \/ (Busy /\ Item = j)
      BY <1>1, <1>3, <2>2 DEF Open, Tracked
    <3> QED
      BY <1>5, <3>1 DEF Queued
  <2> QED
    BY <2>1, <2>2
<1>11. Verified' /\ CountsFit' /\ StoreMatchesRecord'
  BY <1>1 DEF Verified, CountsFit, StoreMatchesRecord, Item, Operation
<1> QED
  BY <1>6, <1>7, <1>8, <1>9, <1>10, <1>11

\* An exception after the rename changes nothing but what the caller was told.
LEMMA StageRaisesLateKeeps ==
    ASSUME IInv, NEW i \in Items, StageRaisesLate(i)
    PROVE  IInv'
<1> USE DEF IInv
<1>1. /\ caller = "open" /\ entry[i] = "renamed"
      /\ entry' = [entry EXCEPT ![i] = "raised"] /\ faults' \in Nat
      /\ UNCHANGED <<disk, remote, served, sessions, caller, queue, worker, stop, report>>
  BY DEF StageRaisesLate, AFault, FaultsOf, TypeOK
<1>2. /\ disk[i].at = "staged" /\ disk[i].upload = "pending" /\ Up
      /\ Busy => Item # i
      /\ \A m \in 1 .. Len(queue) : queue[m] # i
      /\ report # "completed"
  BY <1>1, RenamedFacts
<1>3. /\ entry'[i] = "raised" /\ entry' \in [Items -> Entries]
      /\ \A j \in Items : j # i => entry'[j] = entry[j]
  BY <1>1 DEF TypeOK, Entries
<1>4. TypeOK' /\ StatesFit'
  BY <1>1, <1>3 DEF TypeOK, StatesFit, Up
<1>5. InHands' /\ EntriesFit'
  BY <1>1, <1>2, <1>3 DEF InHands, EntriesFit, Busy, Item, Up
<1>6. QueueFits'
  <2>1. \A m \in 1 .. Len(queue) : queue[m] \in Items
    BY DEF TypeOK
  <2> QED
    BY <1>1, <1>2, <1>3, <2>1 DEF QueueFits, Busy, Item
<1>7. Tracked'
  <2> SUFFICES ASSUME Up, worker.alive, ~stop, NEW j \in Items, Open(j)'
               PROVE  Queued(j) \/ (Busy /\ Item = j)
    BY <1>1 DEF Tracked, Queued, Busy, Item, Up
  <2>1. j # i /\ Open(j)
    BY <1>1, <1>3 DEF Open
  <2> QED
    BY <2>1 DEF Tracked
<1>8. Verified' /\ CountsFit' /\ StoreMatchesRecord'
  BY <1>1 DEF Verified, CountsFit, StoreMatchesRecord, Item, Operation
<1> QED
  BY <1>4, <1>5, <1>6, <1>7, <1>8

\* The order in which a resume takes items up again lists each of them once.
LEMMA InOrderLists ==
    ASSUME NEW items \in SUBSET Items
    PROVE  /\ InOrder(items) \in Seq(items) /\ Len(InOrder(items)) = Cardinality(items)
           /\ \A m, n \in 1 .. Len(InOrder(items)) :
                 InOrder(items)[m] = InOrder(items)[n] => m = n
           /\ \A i \in items : \E m \in 1 .. Len(InOrder(items)) : InOrder(items)[m] = i
<1> DEFINE n == Cardinality(items)
           q == InOrder(items)
<1>1. items \subseteq Nat /\ IsFiniteSet(items)
  BY FS_Subset, SpoolAssumption
<1>2. n \in Nat
  BY <1>1, FS_CardinalityType
<1>3. \E r \in [1 .. n -> items] : \A k, l \in 1 .. n : k < l => r[k] < r[l]
  BY <1>1, IncreasingExists DEF Listed, Increasing
<1>4. q \in [1 .. n -> items] /\ \A k, l \in 1 .. n : k < l => q[k] < q[l]
  BY <1>3 DEF InOrder
<1>5. Increasing(q, n)
  BY <1>4 DEF Increasing
<1>6. /\ \A a, b \in 1 .. n : q[a] = q[b] => a = b
      /\ \A x \in items : \E a \in 1 .. n : q[a] = x
  BY <1>1, <1>4, <1>5, IncreasingLists
<1> HIDE DEF q
<1>7. q \in Seq(items) /\ Len(q) = n
  BY <1>2, <1>4
<1> QED
  BY <1>6, <1>7 DEF q

\* A resume queues exactly what is not uploaded.
LEMMA ResumeKeeps ==
    ASSUME IInv, Resume
    PROVE  IInv'
<1> USE DEF IInv
<1> DEFINE open == {i \in Staged : disk[i].upload # "uploaded"}
<1>1. /\ ~Up /\ sessions # 0 /\ sessions' \in Nat /\ sessions' # 0 /\ caller' = "open"
      /\ \A i \in Items : disk[i].at # "hidden"
      /\ disk' = [i \in Items |-> IF i \in open THEN [disk[i] EXCEPT !.upload = "pending"]
                                  ELSE disk[i]]
      /\ queue' = InOrder(open)
      /\ entry' = [i \in Items |-> IF i \in Staged THEN "listed" ELSE "none"]
      /\ worker' = IdleWorker /\ stop' = FALSE
      /\ UNCHANGED <<remote, served, faults, report>>
  BY DEF Resume, TypeOK
<1>2. worker' \in WorkerRows /\ worker'.step = "idle" /\ worker'.alive
  BY <1>1 DEF IdleWorker, WorkerRows, Steps
<1>3. /\ open \subseteq Items
      /\ \A i \in Items : i \in open <=> disk[i].at = "staged" /\ disk[i].upload # "uploaded"
  BY DEF Staged
<1> HIDE DEF open
<1>4. /\ \A i \in Items : i \in open => disk'[i] = [disk[i] EXCEPT !.upload = "pending"]
      /\ \A i \in Items : i \notin open => disk'[i] = disk[i]
  BY <1>1
<1>5. \A i \in Items : /\ disk'[i] \in DiskRows /\ disk'[i].at = disk[i].at
                       /\ disk'[i].upload = IF i \in open THEN "pending" ELSE disk[i].upload
                       /\ disk'[i].attempts = disk[i].attempts
                       /\ disk'[i].started = disk[i].started /\ disk'[i].succeeded = disk[i].succeeded
  <2> TAKE i \in Items
  <2>1. disk[i] \in DiskRows
    BY DEF TypeOK
  <2>2. CASE i \in open
    BY <1>4, <2>1, <2>2 DEF DiskRows, UploadStates
  <2>3. CASE i \notin open
    <3>1. disk'[i] = disk[i]
      BY <1>4, <2>3
    <3> QED
      BY <2>1, <2>3, <3>1
  <2> QED
    BY <2>2, <2>3
<1>6. disk' \in [Items -> DiskRows]
  <2>1. disk' = [i \in Items |-> disk'[i]]
    BY <1>1
  <2> QED
    BY <1>5, <2>1
<1>7. /\ queue' \in Seq(open)
      /\ \A m, n \in 1 .. Len(queue') : queue'[m] = queue'[n] => m = n
      /\ \A i \in open : \E m \in 1 .. Len(queue') : queue'[m] = i
  <2>1. open \in SUBSET Items
    BY <1>3
  <2> QED
    BY <1>1, <2>1, InOrderLists
<1>8. queue' \in Seq(Items) /\ \A m \in 1 .. Len(queue') : queue'[m] \in open
  BY <1>3, <1>7
<1>9. entry' \in [Items -> Entries]
      /\ \A i \in Items : entry'[i] = IF disk[i].at = "staged" THEN "listed" ELSE "none"
  BY <1>1 DEF Entries, Staged
<1>16. TypeOK'
  BY <1>1, <1>2, <1>6, <1>8, <1>9 DEF TypeOK
<1>10. StatesFit' /\ InHands' /\ EntriesFit'
  BY <1>1, <1>2, <1>3, <1>5, <1>9 DEF StatesFit, InHands, EntriesFit, Busy, Up
<1>11. QueueFits'
  <2>1. \A m \in 1 .. Len(queue') : /\ disk'[queue'[m]].at = "staged"
                                    /\ disk'[queue'[m]].upload = "pending"
                                    /\ entry'[queue'[m]] = "listed"
    <3> TAKE m \in 1 .. Len(queue')
    <3>1. queue'[m] \in open /\ queue'[m] \in Items /\ disk[queue'[m]].at = "staged"
      BY <1>3, <1>8
    <3> QED
      BY <1>5, <1>9, <3>1
  <2> QED
    BY <1>2, <1>7, <2>1 DEF QueueFits, Busy
<1>12. Tracked'
  <2>1. ASSUME NEW i \in Items, Open(i)'
        PROVE  i \in open
    <3>1. /\ disk[i].at = "staged" /\ disk'[i].upload \in {"pending", "uploading"}
          /\ (i \notin open => disk'[i].upload = disk[i].upload)
      BY <1>5, <1>9, <2>1 DEF Open
    <3> QED
      BY <1>3, <2>1, <3>1
  <2>2. \A i \in open : Queued(i)'
    BY <1>7 DEF Queued
  <2> QED
    BY <2>1, <2>2 DEF Tracked
<1>13. Verified' /\ CountsFit'
  BY <1>1, <1>2, <1>5 DEF Verified, CountsFit
<1>14. StoreMatchesRecord'
  BY <1>1, <1>5 DEF StoreMatchesRecord
<1> QED
  BY <1>16, <1>10, <1>11, <1>12, <1>13, <1>14

-----------------------------------------------------------------------------
(* The invariant                                                           *)

\* The invariant is about the state alone.
LEMMA StutterKeeps ==
    ASSUME IInv, UNCHANGED vars
    PROVE  IInv'
BY DEF vars, IInv, TypeOK, StatesFit, InHands, QueueFits, EntriesFit, Tracked, Verified, CountsFit,
   StoreMatchesRecord, Busy, Item, Operation, Up, Open, Queued

\* Every step keeps the invariant.
LEMMA NextInvariant == IInv /\ [Next]_vars => IInv'
<1> SUFFICES ASSUME IInv, [Next]_vars PROVE IInv'
  OBVIOUS
<1>1. CASE Start \/ Resume \/ Exit
  BY <1>1, StartKeeps, ResumeKeeps, ExitKeeps
<1>2. CASE \E i \in Items : \/ StageHidden(i) \/ StageRenamed(i) \/ StageQueued(i)
                            \/ StageFails(i) \/ StageRaisesLate(i)
  BY <1>2, HiddenKeeps, StageRenamedKeeps, StageQueuedKeeps, StageRaisesLateKeeps
<1>3. CASE Finish \/ Join
  BY <1>3, FinishKeeps, JoinKeeps
<1>4. CASE TakeItem \/ WorkerStops \/ BeginAttempt \/ GiveUpForStop \/ WorkerDies
  BY <1>4, TakeItemKeeps, WorkerStopsKeeps, BeginAttemptKeeps, GiveUpForStopKeeps, WorkerDiesKeeps
<1>5. CASE StartOperation \/ Serve \/ Refuse \/ RecordOperation \/ MarkUploaded \/ Fail
  BY <1>5, StartOperationKeeps, ServeKeeps, RefuseKeeps, RecordOperationKeeps, MarkUploadedKeeps,
     FailKeeps
<1>6. CASE UNCHANGED vars
  BY <1>6, StutterKeeps
<1> QED
  BY <1>1, <1>2, <1>3, <1>4, <1>5, <1>6 DEF Next, WorkerStep

-----------------------------------------------------------------------------
(* The theorems                                                            *)

\* The disk, the queue and the thread of BlobSpool fit together in every
\* state, through crashes, faults and resumes.
THEOREM SpoolInvariant == Spec => []IInv
<1>1. Init => IInv
  BY InitInvariant
<1>2. IInv /\ [Next]_vars => IInv'
  BY NextInvariant
<1> QED
  BY <1>1, <1>2, PTL DEF Spec

\* An item marked uploaded is in the store, payload and the manifest of its
\* last attempt, through retries, lost answers, crashes and resumes.
THEOREM StoreAlwaysMatches == Spec => []StoreMatchesRecord
<1>1. IInv => StoreMatchesRecord
  BY DEF IInv
<1> QED
  BY <1>1, SpoolInvariant, PTL

\* No item falls out of sight.  While the thread lives and is not told to stop,
\* an item whose staging returned and that is neither uploaded nor failed is in
\* its queue or in its hands, and nowhere twice; one whose staging is under way
\* or raised is pending on the disk.  When finish has said completed, every item
\* on the disk is uploaded but those whose staging raised.
THEOREM NothingEverDropped == Spec => []NothingDropped
<1>1. IInv => NothingDropped
  <2> SUFFICES ASSUME IInv PROVE NothingDropped
    OBVIOUS
  <2> DEFINE tracked(i) == (i \in ToSet(queue)) # (worker.step # "idle" /\ Item = i)
  <2>1. \A i \in Staged : i \in Items /\ disk[i].at = "staged"
    BY DEF Staged
  <2>2. \A i \in Items : i \in ToSet(queue) <=> Queued(i)
    BY DEF IInv, TypeOK, ToSet, Queued
  <2>3. \A i \in Items : Queued(i) => entry[i] = "listed" /\ ~(Busy /\ Item = i)
    BY DEF IInv, QueueFits, Queued
  <2>4. \A i \in Items : Busy /\ Item = i => entry[i] = "listed"
    BY DEF IInv, InHands
  <2>5. ASSUME Up, worker.alive, ~stop, NEW i \in Staged
        PROVE  IF entry[i] = "listed" THEN disk[i].upload \in {"pending", "uploading"} => tracked(i)
               ELSE entry[i] \in {"renamed", "raised"} /\ disk[i].upload = "pending" /\ ~tracked(i)
    <3>1. CASE entry[i] = "listed"
      <4>1. disk[i].upload \in {"pending", "uploading"} => Queued(i) \/ (Busy /\ Item = i)
        BY <2>1, <2>5, <3>1 DEF IInv, Tracked, Open
      <4> QED
        BY <2>1, <2>2, <2>3, <3>1, <4>1 DEF Busy
    <3>2. CASE entry[i] # "listed"
      <4>1. entry[i] \in {"renamed", "raised"} /\ disk[i].upload = "pending"
        BY <2>1, <2>5, <3>2 DEF IInv, TypeOK, Entries, EntriesFit
      <4>2. ~tracked(i)
        BY <2>1, <2>2, <2>3, <2>4, <3>2 DEF Busy
      <4> QED
        BY <3>2, <4>1, <4>2
    <3> QED
      BY <3>1, <3>2
  <2>6. report = "completed" =>
           \A i \in Staged : disk[i].upload = "uploaded" \/ entry[i] = "raised"
    BY <2>1 DEF IInv, EntriesFit
  <2> QED
    BY <2>5, <2>6 DEF NothingDropped
<1> QED
  BY <1>1, SpoolInvariant, PTL

-----------------------------------------------------------------------------
(* The bill                                                                *)

\* The counts of the disk are sums over the items.
LEMMA CountedIsTotal ==
    ASSUME NEW items, IsFiniteSet(items), NEW kind, NEW names, NEW f,
           \A i \in items : f[i] = disk[i][kind][names[1]] + disk[i][kind][names[2]]
    PROVE  Counted(items, kind, names) = Total(f, items)
<1> DEFINE E(i) == disk[i][kind][names[1]] + disk[i][kind][names[2]]
           c == CHOOSE n : n = [s \in SUBSET items |->
                               IF s = {} THEN 0 ELSE E(Pick(s)) + n[s \ {Pick(s)}]]
<1>1. Counted(items, kind, names) = c[items]
  BY DEF Counted, MapThenSumSet, MapThenFoldSet, Pick
<1>2. PICK it : IsSum(it, f, items)
  BY SumExists
<1>3. \A s \in SUBSET items : s # {} => Pick(s) \in items /\ f[Pick(s)] = E(Pick(s))
  BY DEF Pick
<1> HIDE DEF E
<1>4. \A g : IsSum(g, f, items) <=>
              g = [s \in SUBSET items |-> IF s = {} THEN 0 ELSE E(Pick(s)) + g[s \ {Pick(s)}]]
  BY <1>3 DEF IsSum
<1>5. \E n : n = [s \in SUBSET items |->
                               IF s = {} THEN 0 ELSE E(Pick(s)) + n[s \ {Pick(s)}]]
  BY <1>2, <1>4
<1>6. c = [s \in SUBSET items |-> IF s = {} THEN 0 ELSE E(Pick(s)) + c[s \ {Pick(s)}]]
  BY <1>5
<1> HIDE DEF c
<1>7. IsSum(c, f, items)
  BY <1>4, <1>6
<1> QED
  BY <1>1, <1>7, TotalIsSum

ServedOf(i, names) == served[i][names[1]] + served[i][names[2]]
Bill(items) ==
    MapThenSumSet(LAMBDA i : WriteRate * (served[i][Writes[1]] + served[i][Writes[2]])
                              + ReadRate * (served[i][Reads[1]] + served[i][Reads[2]]), items)

\* So is the bill.
LEMMA BillIsTotal ==
    ASSUME NEW items, IsFiniteSet(items), NEW f,
           \A i \in items : f[i] = WriteRate * ServedOf(i, Writes) + ReadRate * ServedOf(i, Reads)
    PROVE  Bill(items) = Total(f, items)
<1> DEFINE E(i) == WriteRate * (served[i][Writes[1]] + served[i][Writes[2]])
                    + ReadRate * (served[i][Reads[1]] + served[i][Reads[2]])
           c == CHOOSE n : n = [s \in SUBSET items |->
                               IF s = {} THEN 0 ELSE E(Pick(s)) + n[s \ {Pick(s)}]]
<1>1. Bill(items) = c[items]
  BY DEF Bill, MapThenSumSet, MapThenFoldSet, Pick
<1>2. PICK it : IsSum(it, f, items)
  BY SumExists
<1>3. \A s \in SUBSET items : s # {} => Pick(s) \in items /\ f[Pick(s)] = E(Pick(s))
  BY DEF Pick, ServedOf
<1> HIDE DEF E
<1>4. \A g : IsSum(g, f, items) <=>
              g = [s \in SUBSET items |-> IF s = {} THEN 0 ELSE E(Pick(s)) + g[s \ {Pick(s)}]]
  BY <1>3 DEF IsSum
<1>5. \E n : n = [s \in SUBSET items |->
                               IF s = {} THEN 0 ELSE E(Pick(s)) + n[s \ {Pick(s)}]]
  BY <1>2, <1>4
<1>6. c = [s \in SUBSET items |-> IF s = {} THEN 0 ELSE E(Pick(s)) + c[s \ {Pick(s)}]]
  BY <1>5
<1> HIDE DEF c
<1>7. IsSum(c, f, items)
  BY <1>4, <1>6
<1> QED
  BY <1>1, <1>7, TotalIsSum

\* A part of the bill lies between the counts that the disk holds.
LEMMA PartBetween ==
    ASSUME IInv, NEW items \in SUBSET Items, NEW names \in {Writes, Reads}
    PROVE  \E f \in [items -> Nat] :
              /\ \A i \in items : f[i] = ServedOf(i, names)
              /\ Counted(items, "succeeded", names) \in Nat
              /\ Counted(items, "started", names) \in Nat
              /\ Total(f, items) \in Nat
              /\ Counted(items, "succeeded", names) <= Total(f, items)
              /\ Total(f, items) <= Counted(items, "started", names)
<1> DEFINE f == [i \in items |-> ServedOf(i, names)]
           g == [i \in items |-> disk[i]["succeeded"][names[1]] + disk[i]["succeeded"][names[2]]]
           h == [i \in items |-> disk[i]["started"][names[1]] + disk[i]["started"][names[2]]]
<1>1. IsFiniteSet(items)
  BY FS_Subset, SpoolAssumption
<1>2. names[1] \in Names /\ names[2] \in Names
  BY OperationsAre DEF Writes, Reads
<1>3. \A i \in items : g[i] \in Nat /\ f[i] \in Nat /\ h[i] \in Nat /\ g[i] <= f[i] /\ f[i] <= h[i]
  <2> TAKE i \in items
  <2>1. i \in Items /\ disk[i] \in DiskRows /\ served[i] \in Counts
    BY DEF IInv, TypeOK
  <2>2. \A n \in Names : /\ disk[i].succeeded[n] \in Nat /\ served[i][n] \in Nat
                         /\ disk[i].started[n] \in Nat
                         /\ disk[i].succeeded[n] <= served[i][n]
                         /\ served[i][n] <= disk[i].started[n]
    BY <2>1 DEF IInv, CountsFit, DiskRows, Counts
  <2>3. /\ disk[i].succeeded[names[1]] <= served[i][names[1]]
        /\ disk[i].succeeded[names[2]] <= served[i][names[2]]
        /\ served[i][names[1]] <= disk[i].started[names[1]]
        /\ served[i][names[2]] <= disk[i].started[names[2]]
        /\ disk[i].succeeded[names[1]] \in Nat /\ disk[i].succeeded[names[2]] \in Nat
        /\ served[i][names[1]] \in Nat /\ served[i][names[2]] \in Nat
        /\ disk[i].started[names[1]] \in Nat /\ disk[i].started[names[2]] \in Nat
    BY <1>2, <2>2
  <2> QED
    BY <2>3 DEF ServedOf
<1>4. /\ \A i \in items : f[i] = ServedOf(i, names)
      /\ \A i \in items : g[i] = disk[i]["succeeded"][names[1]] + disk[i]["succeeded"][names[2]]
      /\ \A i \in items : h[i] = disk[i]["started"][names[1]] + disk[i]["started"][names[2]]
  OBVIOUS
<1>5. f \in [items -> Nat]
  BY <1>3
<1> HIDE DEF f, g, h
<1>6. Counted(items, "succeeded", names) = Total(g, items)
  BY <1>1, <1>4, CountedIsTotal
<1>7. Counted(items, "started", names) = Total(h, items)
  BY <1>1, <1>4, CountedIsTotal
<1>8. Total(f, items) \in Nat /\ Total(g, items) \in Nat /\ Total(h, items) \in Nat
  BY <1>1, <1>3, TotalType
<1>9. Total(g, items) <= Total(f, items) /\ Total(f, items) <= Total(h, items)
  BY <1>1, <1>3, TotalMonotonic
<1> QED
  BY <1>4, <1>5, <1>6, <1>7, <1>8, <1>9

\* The bill is made up of its parts.
LEMMA BillAddsUp ==
    ASSUME NEW items, IsFiniteSet(items), NEW w \in [items -> Nat], NEW r \in [items -> Nat],
           \A i \in items : w[i] = ServedOf(i, Writes) /\ r[i] = ServedOf(i, Reads)
    PROVE  Bill(items) = 3 * Total(w, items) + 2 * Total(r, items)
<1> DEFINE w2 == [i \in items |-> w[i] + w[i]]
           w3 == [i \in items |-> w2[i] + w[i]]
           r2 == [i \in items |-> r[i] + r[i]]
           f == [i \in items |-> w3[i] + r2[i]]
<1>1. \A i \in items : /\ w[i] \in Nat /\ r[i] \in Nat
                       /\ w2[i] \in Nat /\ w3[i] \in Nat /\ r2[i] \in Nat
                       /\ w2[i] = w[i] + w[i] /\ w3[i] = w2[i] + w[i] /\ r2[i] = r[i] + r[i]
                       /\ f[i] = w3[i] + r2[i]
  OBVIOUS
<1>2. \A i \in items : f[i] = WriteRate * ServedOf(i, Writes) + ReadRate * ServedOf(i, Reads)
  BY <1>1 DEF WriteRate, ReadRate
<1> HIDE DEF w2, w3, r2, f
<1>3. Total(w2, items) = Total(w, items) + Total(w, items)
  BY <1>1, TotalAdds
<1>4. Total(w3, items) = Total(w2, items) + Total(w, items)
  BY <1>1, TotalAdds
<1>5. Total(r2, items) = Total(r, items) + Total(r, items)
  BY <1>1, TotalAdds
<1>6. Total(f, items) = Total(w3, items) + Total(r2, items)
  BY <1>1, TotalAdds
<1>7. Bill(items) = Total(f, items)
  BY <1>2, BillIsTotal
<1>8. Total(w, items) \in Nat /\ Total(r, items) \in Nat
  BY <1>1, TotalType
<1> QED
  BY <1>3, <1>4, <1>5, <1>6, <1>7, <1>8

\* What the reproducibility contract bills by is what the store has served: at
\* any moment the bill lies between what is confirmed and what was started,
\* and where a cost is given as calculated it is the bill.
THEOREM AlwaysBilledAsServed == Spec => []BilledAsServed
<1>1. IInv => BilledAsServed
  <2> SUFFICES ASSUME IInv PROVE BilledAsServed
    OBVIOUS
  <2>1. Staged \in SUBSET Items /\ IsFiniteSet(Staged)
    BY FS_Subset, SpoolAssumption DEF Staged
  <2> DEFINE ws == Counted(Staged, "succeeded", Writes)
             wt == Counted(Staged, "started", Writes)
             rs == Counted(Staged, "succeeded", Reads)
             rt == Counted(Staged, "started", Reads)
  <2>2. PICK w \in [Staged -> Nat] :
           /\ \A i \in Staged : w[i] = ServedOf(i, Writes)
           /\ ws \in Nat /\ wt \in Nat /\ Total(w, Staged) \in Nat
           /\ ws <= Total(w, Staged) /\ Total(w, Staged) <= wt
    BY <2>1, PartBetween
  <2>3. PICK r \in [Staged -> Nat] :
           /\ \A i \in Staged : r[i] = ServedOf(i, Reads)
           /\ rs \in Nat /\ rt \in Nat /\ Total(r, Staged) \in Nat
           /\ rs <= Total(r, Staged) /\ Total(r, Staged) <= rt
    BY <2>1, PartBetween
  <2>4. Bill(Staged) = 3 * Total(w, Staged) + 2 * Total(r, Staged)
    BY <2>1, <2>2, <2>3, BillAddsUp
  <2> DEFINE cw == IF wt = ws THEN ws * 3 ELSE -1
             cr == IF rt = rs THEN rs * 2 ELSE -1
  <2> HIDE DEF ws, wt, rs, rt
  <2>5. /\ ws * 3 + rs * 2 <= Bill(Staged) /\ Bill(Staged) <= wt * 3 + rt * 2
        /\ cw # -1 /\ cr # -1 => cw + cr = Bill(Staged)
    BY <2>2, <2>3, <2>4
  <2>6. /\ BlobCost(Staged).confirmed = ws * 3 + rs * 2
        /\ BlobCost(Staged).maximum = wt * 3 + rt * 2
        /\ BlobCost(Staged).calculated # -1 => /\ cw # -1 /\ cr # -1
                                               /\ BlobCost(Staged).calculated = cw + cr
    BY DEF BlobCost, Component, WriteRate, ReadRate, Undetermined, ws, wt, rs, rt
  <2> QED
    BY <2>5, <2>6 DEF BilledAsServed, Bill, Undetermined
<1> QED
  BY <1>1, SpoolInvariant, PTL

-----------------------------------------------------------------------------
(* The promise                                                             *)

\* What a caller of the spool sees of an item.
UploadOf(i) == IF disk[i].at # "staged" THEN "absent"
               ELSE IF disk[i].upload = "uploading" THEN "pending" ELSE disk[i].upload
Seen == [i \in Items |-> UploadOf(i)]

\* A step that shows nothing: no item's row changes what is seen of it.
LEMMA NothingSeen ==
    ASSUME \A i \in Items : disk'[i].at = disk[i].at /\ disk'[i].upload = disk[i].upload
    PROVE  Seen' = Seen
BY DEF Seen, UploadOf

\* A step at one item is seen at that item only.
LEMMA SeenAtOne ==
    ASSUME NEW i \in Items, \A j \in Items : j # i => disk'[j] = disk[j], NEW v, UploadOf(i)' = v
    PROVE  Seen' = [Seen EXCEPT ![i] = v]
BY DEF Seen, UploadOf

\* Each step of the spool is a step of the promise, or shows nothing.
LEMMA NextKeepsPromise == IInv /\ [Next]_vars => [Uploads!Next]_Seen
<1> SUFFICES ASSUME IInv, [Next]_vars PROVE Uploads!Next \/ Seen' = Seen
  OBVIOUS
<1> USE DEF IInv
<1>1. \A i \in Items : disk[i] \in DiskRows
  BY DEF TypeOK
<1>2. CASE UNCHANGED disk
  BY <1>2, NothingSeen
<1>3. CASE Start \/ Exit \/ Finish \/ Join \/ TakeItem \/ WorkerStops \/ GiveUpForStop \/ Serve
           \/ Refuse \/ WorkerDies \/ (\E i \in Items : StageQueued(i) \/ StageRaisesLate(i))
  BY <1>2, <1>3 DEF Start, Exit, Finish, Join, TakeItem, WorkerStops, GiveUpForStop, Serve,
     Refuse, WorkerDies, StageQueued, StageRaisesLate
<1>4. CASE Resume
  <2>1. \A i \in Items : /\ disk'[i].at = disk[i].at
                        /\ disk'[i].upload = IF i \in Staged /\ disk[i].upload # "uploaded"
                                             THEN "pending" ELSE disk[i].upload
    BY <1>1, <1>4 DEF Resume, DiskRows
  <2>2. \A i \in Items : UploadOf(i)' = IF UploadOf(i) = "failed" THEN "pending" ELSE UploadOf(i)
    <3> TAKE i \in Items
    <3>1. disk[i].at = "staged" => disk[i].upload \in {"pending", "uploading", "uploaded", "failed"}
      BY <1>1 DEF StatesFit, DiskRows, UploadStates
    <3> QED
      BY <2>1, <3>1 DEF UploadOf, Staged
  <2>3. Uploads!TakeUpAgain
    BY <2>2 DEF Uploads!TakeUpAgain, UploadOf
  <2> QED
    BY <2>3 DEF Uploads!Next
<1>5. ASSUME NEW i \in Items, StageHidden(i) \/ StageFails(i)
      PROVE  Seen' = Seen
  <2>1. /\ \A j \in Items : j # i => disk'[j] = disk[j]
        /\ disk[i].at # "staged" /\ disk'[i].at # "staged"
    BY <1>1, <1>5 DEF StageHidden, StageFails, TypeOK, DiskRows
  <2> QED
    BY <2>1 DEF Seen, UploadOf
<1>6. ASSUME NEW i \in Items, StageRenamed(i)
      PROVE  Uploads!Next
  <2>1. /\ disk[i].at = "hidden" /\ disk' = [disk EXCEPT ![i].at = "staged"]
        /\ disk[i].upload = "pending"
    BY <1>6 DEF StageRenamed, StatesFit
  <2>2. /\ \A j \in Items : j # i => disk'[j] = disk[j]
        /\ disk'[i].at = "staged" /\ disk'[i].upload = "pending"
    BY <1>1, <2>1 DEF TypeOK, DiskRows
  <2>3. UploadOf(i) = "absent" /\ UploadOf(i)' = "pending"
    BY <2>1, <2>2 DEF UploadOf
  <2>4. Seen' = [Seen EXCEPT ![i] = "pending"]
    BY <2>2, <2>3, SeenAtOne
  <2>5. Uploads!Stage(i)
    BY <2>3, <2>4 DEF Uploads!Stage, Seen, UploadOf
  <2> QED
    BY <2>5 DEF Uploads!Next
<1>7. CASE BeginAttempt
  <2>1. Item \in Items /\ disk[Item].at = "staged" /\ disk[Item].upload = "pending"
    BY <1>7 DEF BeginAttempt, Working, InHands, Busy
  <2>2. /\ \A j \in Items : j # Item => disk'[j] = disk[j]
        /\ disk'[Item].at = "staged" /\ disk'[Item].upload = "uploading"
    BY <1>1, <1>7, <2>1 DEF BeginAttempt, TypeOK, DiskRows
  <2> QED
    BY <2>1, <2>2 DEF Seen, UploadOf
<1>8. CASE StartOperation \/ RecordOperation
  <2>1. \A i \in Items : disk'[i].at = disk[i].at /\ disk'[i].upload = disk[i].upload
    <3> TAKE i \in Items
    <3>1. CASE StartOperation
      <4> DEFINE counts == [disk[Item].started EXCEPT ![Operation] = @ + 1]
      <4>1. disk' = [disk EXCEPT ![Item] = [@ EXCEPT !.started = counts]]
        BY <3>1 DEF StartOperation
      <4> HIDE DEF counts
      <4> QED
        BY <1>1, <4>1 DEF TypeOK, DiskRows
    <3>2. CASE RecordOperation
      <4> DEFINE counts == [disk[Item].succeeded EXCEPT ![Operation] = @ + 1]
      <4>1. disk' = [disk EXCEPT ![Item] = [@ EXCEPT !.succeeded = counts]]
        BY <3>2 DEF RecordOperation
      <4> HIDE DEF counts
      <4> QED
        BY <1>1, <4>1 DEF TypeOK, DiskRows
    <3> QED
      BY <1>8, <3>1, <3>2
  <2> QED
    BY <2>1, NothingSeen
<1>9. CASE MarkUploaded \/ Fail
  <2>1. Item \in Items /\ disk[Item].at = "staged" /\ disk[Item].upload = "uploading"
    BY <1>9 DEF MarkUploaded, Fail, Working, InHands, Busy
  <2>2. \/ UNCHANGED disk
        \/ \E v \in {"uploaded", "failed", "pending"} : disk' = [disk EXCEPT ![Item].upload = v]
    BY <1>9 DEF MarkUploaded, Fail
  <2>3. ASSUME NEW v \in {"uploaded", "failed", "pending"}, disk' = [disk EXCEPT ![Item].upload = v]
        PROVE  Uploads!Next \/ Seen' = Seen
    <3>1. /\ \A j \in Items : j # Item => disk'[j] = disk[j]
          /\ disk'[Item].at = "staged" /\ disk'[Item].upload = v
      BY <1>1, <2>1, <2>3 DEF TypeOK, DiskRows
    <3>2. UploadOf(Item) = "pending"
      BY <2>1 DEF UploadOf
    <3>3. CASE v = "pending"
      BY <2>1, <3>1, <3>3 DEF Seen, UploadOf
    <3>4. CASE v # "pending"
      <4>1. Seen' = [i \in Items |-> IF i = Item THEN v ELSE UploadOf(i)]
        BY <2>1, <3>1, <3>4 DEF Seen, UploadOf
      <4>2. Uploads!End(Item)
        BY <3>2, <3>4, <4>1, <2>1 DEF Uploads!End, Seen, UploadOf
      <4> QED
        BY <2>1, <4>2 DEF Uploads!Next, Uploads!End
    <3> QED
      BY <3>3, <3>4
  <2> QED
    BY <1>2, <2>2, <2>3
<1>10. CASE UNCHANGED vars
  BY <1>2, <1>10 DEF vars
<1> QED
  BY <1>3, <1>4, <1>5, <1>6, <1>7, <1>8, <1>9, <1>10 DEF Next, WorkerStep

\* BlobSpool keeps what it promises the run loops, item by item: what is
\* staged stays, ends well or badly, and what ended well is never undone.
THEOREM PromiseKept == Spec => KeepsPromise
<1>1. Init => Uploads!Init
  BY DEF Init, Uploads!Init
<1>2. IInv /\ [Next]_vars => [Uploads!Next]_Seen
  BY NextKeepsPromise
<1> QED
  BY <1>1, <1>2, SpoolInvariant, PTL DEF Spec, KeepsPromise, Uploads!Spec, Seen, UploadOf
=============================================================================

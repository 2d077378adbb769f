----------------------------- MODULE WorkerPool -----------------------------
(***************************************************************************)
(* The LLMLingua worker pool: LLMLingua2Compressor of                      *)
(* src/src/compressors.py and the loop of src/src/llmlingua_worker.py.     *)
(* The pool starts its worker processes, probes them, and lends one worker *)
(* to each call of compress; request threads call compress concurrently.   *)
(* A worker reads one line and answers one line.  The owner of the pool    *)
(* (the finally block of execute_native) stops the proxy, waits for its    *)
(* request threads, and only then closes the pool.                         *)
(*                                                                         *)
(* A text is named by the call that brings it: calls are the numbers       *)
(* compress takes under calls_lock.                                        *)
(***************************************************************************)
EXTENDS Integers, FiniteSets, Sequences, SequencesExt

CONSTANTS
    Workers,      \* worker_processes_per_run of them
    Calls,        \* call numbers
    PoolFaults    \* bound: workers that die, print a stray line or differ

ASSUME PoolAssumption ==
    /\ IsFiniteSet(Workers) /\ Workers # {}
    /\ PoolFaults \in Nat

VARIABLES
    pool,       \* worker_pool: a queue of workers at rest
    worker,     \* each worker process: its state, the request it has, its stdout
    call,       \* each call of compress: where it is, its worker, its answer
    poolState,  \* "spawning" .. "open", "closing" .. "closed", "disposed"
    poolFaults

poolVars == <<pool, worker, call, poolState, poolFaults>>

Nobody == "nobody"
NoCall == 0
Closing == -1
Stray == -2
ErrorLine == -3

\* Definitions named ...Slip are not part of the model.  Each is the next
\* definition with a mistake, used to see that a property would notice it.

PoolInit ==
    /\ pool = <<>>
    /\ worker = [w \in Workers |-> [state |-> "spawned", request |-> NoCall, out |-> <<>>, output |-> "none"]]
    /\ call = [c \in Calls |-> [state |-> "idle", worker |-> Nobody, answer |-> NoCall]]
    /\ poolState = "starting"
    /\ poolFaults = 0

PoolFault == poolFaults < PoolFaults /\ poolFaults' = poolFaults + 1
Alive(w) == worker[w].state \in {"spawned", "ready"}

-----------------------------------------------------------------------------
(* Start: every worker loads the model and answers the fixtures            *)

\* _initialize_worker, in one thread per worker; the probes of a worker may
\* come out as another worker's do not.
PoolProbe(w) ==
    /\ poolState = "starting" /\ worker[w].state = "spawned"
    /\ \/ worker' = [worker EXCEPT ![w].state = "ready", ![w].output = "pinned"] /\ UNCHANGED poolFaults
       \/ worker' = [worker EXCEPT ![w].state = "ready", ![w].output = "other"] /\ PoolFault
       \/ worker' = [worker EXCEPT ![w].state = "dead"] /\ PoolFault
    /\ UNCHANGED <<pool, call, poolState>>

\* _dispose_workers: terminate, then kill, whatever still runs.
Disposed == [w \in Workers |-> [worker[w] EXCEPT !.state = "dead"]]
\* _validate_probe_agreement: one output, and the ledger's.
PoolStarted ==
    /\ poolState = "starting" /\ \A w \in Workers : worker[w].state # "spawned"
    /\ IF \A w \in Workers : worker[w].state = "ready" /\ worker[w].output = "pinned"
       THEN /\ pool' = SetToSeq(Workers) /\ poolState' = "open" /\ UNCHANGED worker
       ELSE /\ worker' = Disposed /\ poolState' = "disposed" /\ UNCHANGED pool
    /\ UNCHANGED <<call, poolFaults>>

-----------------------------------------------------------------------------
(* compress                                                                *)

\* The look at `closed`, the number, and the files of the span.
PoolEnter(c) ==
    /\ call[c].state = "idle" /\ \A d \in Calls : d < c => call[d].state # "idle"
    /\ poolState = "open"
    /\ call' = [call EXCEPT ![c].state = "waiting"]
    /\ UNCHANGED <<pool, worker, poolState, poolFaults>>

\* worker_pool.get
PoolTake(c) ==
    /\ call[c].state = "waiting" /\ pool # <<>>
    /\ call' = [call EXCEPT ![c].state = "sending", ![c].worker = Head(pool)]
    /\ pool' = Tail(pool)
    /\ UNCHANGED <<worker, poolState, poolFaults>>

GivesBack(c) == pool' = Append(pool, call[c].worker)
\* _send: a worker that has exited is found out here, and is put back.
PoolSend(c) ==
    LET w == call[c].worker IN
    /\ call[c].state = "sending"
    /\ IF Alive(w)
       THEN /\ worker' = [worker EXCEPT ![w].request = c]
            /\ call' = [call EXCEPT ![c].state = "reading"]
            /\ UNCHANGED pool
       ELSE /\ call' = [call EXCEPT ![c].state = "failed"] /\ GivesBack(c) /\ UNCHANGED worker
    /\ UNCHANGED <<poolState, poolFaults>>

\* _receive's readline and the checks of _exchange: a line that is no JSON, an
\* error line, the end of the stream, or the answer to another call.
Accepted(c, line) == line = c
PoolReceive(c) ==
    LET w == call[c].worker
        line == Head(worker[w].out)
    IN
    /\ call[c].state = "reading"
    /\ \/ /\ worker[w].out # <<>>
          /\ worker' = [worker EXCEPT ![w].out = Tail(@)]
          /\ call' = [call EXCEPT ![c].state = IF Accepted(c, line) THEN "done" ELSE "failed",
                                  ![c].answer = IF Accepted(c, line) THEN line ELSE NoCall]
       \/ /\ worker[w].out = <<>> /\ ~Alive(w)
          /\ call' = [call EXCEPT ![c].state = "failed"]
          /\ UNCHANGED worker
    /\ GivesBack(c)
    /\ UNCHANGED <<poolState, poolFaults>>

-----------------------------------------------------------------------------
(* The worker process: main of llmlingua_worker.py                         *)

\* One answer to each request; "close" is answered and ends the process.
WorkerAnswers(w) ==
    /\ Alive(w) /\ worker[w].request # NoCall
    /\ worker' = [worker EXCEPT ![w].out = Append(@, worker[w].request), ![w].request = NoCall,
                                ![w].state = IF worker[w].request = Closing THEN "dead" ELSE @]
    /\ UNCHANGED <<pool, call, poolState, poolFaults>>

\* The model or a library prints on the worker's stdout.
WorkerPrints(w) ==
    /\ Alive(w) /\ worker[w].request \in Calls /\ PoolFault
    /\ worker' = [worker EXCEPT ![w].out = Append(@, Stray)]
    /\ UNCHANGED <<pool, call, poolState>>

\* An exception is answered with an error line, and ends the process; a kill
\* ends it without a line.
WorkerDies(w) ==
    /\ worker[w].state = "ready" /\ PoolFault
    /\ \E last \in {<<>>, <<ErrorLine>>} :
          worker' = [worker EXCEPT ![w].state = "dead", ![w].request = NoCall, ![w].out = @ \o last]
    /\ UNCHANGED <<pool, call, poolState>>

-----------------------------------------------------------------------------
(* close                                                                   *)

Finished(c) == call[c].state \in {"idle", "done", "failed"}

JoinedSlipNotWaited == TRUE

\* server_close joins the request threads before the compressor is closed.
Joined == \A c \in Calls : Finished(c)
PoolClose ==
    /\ poolState = "open" /\ Joined
    /\ poolState' = "taking"
    /\ UNCHANGED <<pool, worker, call, poolFaults>>

\* close takes every worker out of the pool, waiting for those that are lent,
\* and asks each one to close.
PoolTakeAll ==
    /\ poolState = "taking" /\ Len(pool) = Cardinality(Workers)
    /\ pool' = <<>>
    /\ worker' = [w \in Workers |-> IF Alive(w) THEN [worker[w] EXCEPT !.request = Closing] ELSE worker[w]]
    /\ poolState' = "closing"
    /\ UNCHANGED <<call, poolFaults>>

\* _close_worker: the line read must be the answer to close.  A failure
\* terminates that worker, and one failure disposes of all.
ClosedCleanly(w) == worker[w].out = <<Closing>>

PoolClosed ==
    /\ poolState = "closing"
    /\ \A w \in Workers : worker[w].out # <<>> \/ ~Alive(w)
    /\ worker' = Disposed
    /\ poolState' = IF \A w \in Workers : ClosedCleanly(w) THEN "closed" ELSE "disposed"
    /\ UNCHANGED <<pool, call, poolFaults>>

-----------------------------------------------------------------------------

PoolNext ==
    \/ \E w \in Workers : PoolProbe(w) \/ WorkerAnswers(w) \/ WorkerPrints(w) \/ WorkerDies(w)
    \/ PoolStarted
    \/ \E c \in Calls : PoolEnter(c) \/ PoolTake(c) \/ PoolSend(c) \/ PoolReceive(c)
    \/ PoolClose \/ PoolTakeAll \/ PoolClosed

PoolSpec == PoolInit /\ [][PoolNext]_poolVars

-----------------------------------------------------------------------------
(* Properties                                                              *)

\* A call that returns a text returns the compression of its own input, though
\* a stray line leaves an earlier answer in a worker's pipe; a worker is lent
\* to one call at a time and no worker is lost to the pool; and no worker
\* process outlives a pool that failed to start or was closed.
PoolSound ==
    /\ \A c \in Calls : call[c].state = "done" => call[c].answer = c
    /\ poolState = "open" =>
          \A w \in Workers :
             Cardinality({i \in DOMAIN pool : pool[i] = w})
               + Cardinality({c \in Calls : call[c].worker = w /\ call[c].state \in {"sending", "reading"}}) = 1
    /\ poolState \in {"closed", "disposed"} => \A w \in Workers : ~Alive(w)

\* Closing never leaves a call waiting for a worker that does not come back.
PoolNoCallStranded ==
    poolState \in {"closing", "closed", "disposed"} => \A c \in Calls : Finished(c)

\* The pool answers each call with its own text and strands none.
PoolServes == PoolSound /\ PoolNoCallStranded
=============================================================================

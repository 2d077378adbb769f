--------------------------- MODULE VerifierReplay ---------------------------
(***************************************************************************)
(* The environment of src/src/replay_environment.py: it keeps the state of *)
(* a task's containers just before the verifier runs, and when it is       *)
(* stopped puts that state back, runs the verifier again and compares.     *)
(*                                                                         *)
(* A container's file system is its writable layer over an image.  What    *)
(* docker reports of a path of the layer: "image", nothing; "copied", a    *)
(* change with the image's own content; "changed", another content;        *)
(* "absent", for a path of the image a deletion; "socket", a path that no  *)
(* archive can hold.  The verifier's results are in a mount that is also   *)
(* a directory of the host.                                                *)
(***************************************************************************)
EXTENDS Integers, FiniteSets

CONSTANTS
    RvImagePaths, RvOtherPaths,  \* paths of the image, and paths that are not in it
    RvResults,                   \* what a verifier may leave: its return code, rewards and tests
    RvCommands, RvFaults         \* bounds: commands; failing docker or host steps, deaths, and
                                 \* what processes that a command left behind do

ASSUME RvAssumption == RvImagePaths \cap RvOtherPaths = {}

RvPaths == RvImagePaths \cup RvOtherPaths
NoResult == "none"

VARIABLES
    layer,     \* the writable layer, as docker shows it
    results,   \* the mount of the verifier's results
    running,   \* the processes that docker top shows
    life,      \* where the environment is, and its fields
    view,      \* what has been read of the containers so far
    held,      \* the replay manifest in memory
    bundle,    \* the manifest on disk
    saved,     \* original-verifier and repeated-verifier
    seen,      \* history: the state in which the first verifier's commands began
               \* and whether the repeated ones began in it; what either verifier
               \* left; where a process left behind wrote in between
    rvCommands, rvFaults

rvVars == <<layer, results, running, life, view, held, bundle, saved, seen, rvCommands, rvFaults>>

NoManifest == [status |-> "none"]
NoView == [next |-> "diff", listed |-> {}, deleted |-> {}, processes |-> 0, found |-> [p \in {} |-> "absent"], mount |-> NoResult]

\* Definitions named ...Slip are not part of the model.  Each is the next
\* definition with a mistake, used to see that a property would notice it.

RvInit ==
    /\ layer = [p \in RvPaths |-> IF p \in RvImagePaths THEN "image" ELSE "absent"]
    /\ results = NoResult /\ running = 0
    /\ life = [pc |-> "up", tests |-> FALSE, replayed |-> FALSE, pending |-> FALSE, directory |-> FALSE]
    /\ view = NoView /\ held = NoManifest /\ bundle = NoManifest
    /\ saved = [original |-> NoResult, repeated |-> NoResult]
    /\ seen = [begun |-> FALSE, first |-> <<layer, results, running>>, same |-> FALSE, late |-> FALSE,
               original |-> NoResult, repeated |-> NoResult, touched |-> {}]
    /\ rvCommands = 0 /\ rvFaults = 0

RvFault == rvFaults < RvFaults /\ rvFaults' = rvFaults + 1

-----------------------------------------------------------------------------
(* What a container shows                                                  *)

\* The paths docker diff reports as added or changed, and deleted_root_paths.
Reported(fs) == {p \in RvPaths : fs[p] \in {"changed", "copied", "socket"}}
Deleted(fs) == {p \in RvImagePaths : fs[p] = "absent"}
Sockets(fs) == {p \in RvPaths : fs[p] = "socket"}

\* _capture_container and _state_signature read one thing after the other:
\* docker diff, docker top, an archive of the listed paths, the mounts.
Reading == life.pc \in {"capture", "teardown", "compare"}
ReadNext ==
    \/ /\ view.next = "diff"
       /\ view' = [view EXCEPT !.next = "top", !.listed = Reported(layer), !.deleted = Deleted(layer)]
    \/ view.next = "top" /\ view' = [view EXCEPT !.next = "archive", !.processes = running]
    \/ /\ view.next = "archive"
       /\ view' = [view EXCEPT !.next = "mounts", !.found = [p \in view.listed |-> layer[p]]]
    \/ view.next = "mounts" /\ view' = [view EXCEPT !.next = "read", !.mount = results]
RvRead ==
    /\ Reading /\ ReadNext
    /\ UNCHANGED <<layer, results, running, life, held, bundle, saved, seen, rvCommands, rvFaults>>

\* A listed path that is no longer there cannot be archived.
AllArchived == \A p \in view.listed : view.found[p] # "absent"

\* The layer that a complete view is of.
KeptLayer ==
    [p \in RvPaths |-> IF p \in held.state.listed THEN held.state.found[p]
                       ELSE IF p \in RvImagePaths \ held.state.deleted THEN "image" ELSE "absent"]

\* What one command may do to a path.
Written(p) == IF p \in RvImagePaths THEN {"copied", "changed", "absent"} ELSE {"changed", "absent", "socket"}
Command ==
    /\ \/ UNCHANGED layer
       \/ \E p \in RvPaths : \E v \in Written(p) : layer' = [layer EXCEPT ![p] = v]
    /\ running' \in 0 .. 1

-----------------------------------------------------------------------------
(* Capture and commands                                                    *)

RvUploadTests ==
    /\ life.pc = "up" /\ ~life.tests
    /\ life' = [life EXCEPT !.tests = TRUE]
    /\ UNCHANGED <<layer, results, running, view, held, bundle, saved, seen, rvCommands, rvFaults>>

\* exec captures before the first command after the tests are uploaded; the
\* directory must be new.  When the capture raises, so does exec.
CaptureDue == life.tests /\ held = NoManifest

RvCapture ==
    /\ life.pc = "up" /\ rvCommands < RvCommands /\ CaptureDue
    /\ view' = NoView
    /\ \/ ~life.directory /\ life' = [life EXCEPT !.pc = "capture", !.directory = TRUE] /\ UNCHANGED <<rvCommands, rvFaults>>
       \/ ~life.directory /\ RvFault /\ life' \in {life, [life EXCEPT !.directory = TRUE]} /\ rvCommands' = rvCommands + 1
       \/ life.directory /\ rvCommands' = rvCommands + 1 /\ UNCHANGED <<life, rvFaults>>
    /\ UNCHANGED <<layer, results, running, held, bundle, saved, seen>>

\* The end of _capture_environment: a step that fails leaves an incomplete
\* manifest.
RvKeep ==
    /\ life.pc \in {"capture", "teardown"}
    /\ \E status \in {"complete", "incomplete"} :
          /\ status = "complete" => view.next = "read" /\ AllArchived
          /\ IF view.next = "read" /\ (status = "complete" \/ ~AllArchived) THEN UNCHANGED rvFaults ELSE RvFault
          /\ held' = [status |-> status, phase |-> IF life.pc = "capture" THEN "before_verifier" ELSE "teardown",
                      state |-> view, replay |-> "none", restored |-> FALSE, same |-> FALSE]
    /\ bundle' = held'
    /\ life' = [life EXCEPT !.pc = IF @ = "capture" THEN "up" ELSE "stopped"]
    /\ UNCHANGED <<layer, results, running, view, saved, seen, rvCommands>>

\* The command itself; one that raises leaves what it did and nothing noted.
RvExec(verifier, result, raises) ==
    LET counted == life.tests /\ ~life.replayed /\ verifier /\ ~raises
        first == life.tests /\ ~seen.begun
        left == IF verifier THEN [seen EXCEPT !.original = result, !.touched = @ \ {"original"}] ELSE seen
    IN
    /\ life.pc = "up" /\ rvCommands < RvCommands
    /\ rvCommands' = rvCommands + 1
    /\ ~CaptureDue
    /\ verifier => life.tests
    /\ Command
    /\ results' = IF verifier THEN result ELSE results
    /\ life' = IF counted THEN [life EXCEPT !.replayed = TRUE, !.pending = TRUE] ELSE life
    /\ seen' = IF first THEN [left EXCEPT !.begun = TRUE, !.first = <<layer, results, running>>] ELSE left
    /\ IF raises THEN RvFault ELSE UNCHANGED rvFaults
    /\ UNCHANGED <<view, held, bundle, saved>>

\* The moments at which a write makes a difference between what was read and
\* what a verifier begins in, or between what it left and what is copied.
BeforeVerifier == life.pc \in {"capture", "compare", "repeat"} \/ (life.pc = "up" /\ held # NoManifest /\ ~seen.begun)
AfterVerifier ==
    CASE life.pc \in {"up", "copy", "stopped"} -> {"original"}
      [] life.pc = "judge" -> {"repeated"}
      [] OTHER -> {}

\* A process that a command left behind writes to the layer or to the results,
\* or ends; until the containers are down, also after the replay.
RvDisturb ==
    /\ running = 1 /\ life.pc # "dead" /\ RvFault
    /\ \/ \E p \in RvPaths : \E v \in Written(p) : layer' = [layer EXCEPT ![p] = v] /\ UNCHANGED <<results, running>>
       \/ results' \in RvResults \cup {NoResult} /\ UNCHANGED <<layer, running>>
       \/ running' = 0 /\ UNCHANGED <<layer, results>>
    /\ seen' = [seen EXCEPT !.late = @ \/ BeforeVerifier, !.touched = @ \cup IF results' = results THEN {} ELSE AfterVerifier]
    /\ UNCHANGED <<life, view, held, bundle, saved, rvCommands>>

-----------------------------------------------------------------------------
(* stop: the replay                                                        *)

RvStop ==
    /\ life.pc = "up"
    /\ \/ /\ life.pending
          /\ life' = [life EXCEPT !.pc = "copy", !.pending = FALSE] /\ UNCHANGED <<view, rvFaults>>
       \/ /\ ~life.pending /\ bundle = NoManifest /\ ~life.directory
          /\ view' = NoView
          /\ \/ life' = [life EXCEPT !.pc = "teardown", !.directory = TRUE] /\ UNCHANGED rvFaults
             \/ RvFault /\ life' = [life EXCEPT !.pc = "stopped"]
       \/ /\ ~life.pending /\ (bundle # NoManifest \/ life.directory)
          /\ life' = [life EXCEPT !.pc = "stopped"] /\ UNCHANGED <<view, rvFaults>>
    /\ UNCHANGED <<layer, results, running, held, bundle, saved, seen, rvCommands>>

\* The finally of stop: the containers go down.
RvDown ==
    /\ life.pc = "stopped" /\ running = 1 /\ running' = 0
    /\ UNCHANGED <<layer, results, life, view, held, bundle, saved, seen, rvCommands, rvFaults>>

\* _copy_host_tree of the results, before anything is touched and outside the
\* try: when it fails the environment stops with the manifest as it was.
RvCopy ==
    /\ life.pc = "copy"
    /\ \/ /\ life' = [life EXCEPT !.pc = "restore"]
          /\ saved' = [saved EXCEPT !.original = results]
          /\ UNCHANGED rvFaults
       \/ RvFault /\ life' = [life EXCEPT !.pc = "stopped"] /\ UNCHANGED saved
    /\ UNCHANGED <<layer, results, running, view, held, bundle, seen, rvCommands>>

\* _restore_container refuses a process table, or sockets, that differ.
CanRestore ==
    /\ held.status = "complete" /\ running = held.state.processes
    /\ Sockets(layer) = {p \in held.state.listed : held.state.found[p] = "socket"}

\* The layer after _restore_container: added and changed paths are removed, the
\* image's content is copied back over changed and deleted ones, which docker
\* may report or not; then come the captured deletions and the captured archive.
\* A write to a path meanwhile comes before or after that path is restored.
Restored(fs) ==
    \A p \in RvPaths :
       CASE p \in held.state.listed \cup held.state.deleted -> fs[p] = KeptLayer[p]
         [] p \notin held.state.listed \cup held.state.deleted /\ p \in RvImagePaths ->
              IF layer[p] = "image" THEN fs[p] = "image" ELSE fs[p] \in {"image", "copied"}
         [] OTHER -> fs[p] = IF layer[p] = "socket" THEN "socket" ELSE "absent"

\* A restore that fails has removed, or has not yet put back, some paths.
HalfRestored(fs) == \A p \in RvPaths : fs[p] \in {layer[p], KeptLayer[p], IF layer[p] = "socket" THEN "socket" ELSE "absent"}

Layers == {fs \in [RvPaths -> {"image", "copied", "changed", "absent", "socket"}] :
             \A p \in RvPaths : fs[p] \in Written(p) \cup {IF p \in RvImagePaths THEN "image" ELSE "absent"}}

RvRestore ==
    /\ life.pc = "restore"
    /\ \/ /\ CanRestore
          /\ \E fs \in Layers : Restored(fs) /\ layer' = fs
          /\ results' = held.state.mount
          /\ life' = [life EXCEPT !.pc = "compare"]
          /\ view' = NoView
          /\ UNCHANGED <<held, rvFaults>>
       \/ /\ IF CanRestore THEN RvFault ELSE UNCHANGED rvFaults
          /\ IF CanRestore THEN \E fs \in Layers : HalfRestored(fs) /\ layer' = fs ELSE UNCHANGED layer
          /\ results' \in IF CanRestore THEN {results, NoResult, held.state.mount} ELSE {results}
          /\ life' = [life EXCEPT !.pc = "put_back"]
          /\ held' = [held EXCEPT !.replay = "incomplete"]
          /\ UNCHANGED view
    /\ UNCHANGED <<running, bundle, saved, seen, rvCommands>>

StateRestoredSlipAssumed == TRUE
\* The comparison of the restored signature with the captured one.
StateRestored == AllArchived /\ view = held.state

RvCompare ==
    /\ life.pc = "compare"
    /\ \/ /\ view.next = "read"
          /\ held' = [held EXCEPT !.restored = StateRestored, !.replay = "incomplete"]
          /\ life' = [life EXCEPT !.pc = IF StateRestored THEN "repeat" ELSE "put_back"]
          /\ UNCHANGED rvFaults
       \/ /\ RvFault
          /\ held' = [held EXCEPT !.replay = "incomplete"]
          /\ life' = [life EXCEPT !.pc = "put_back"]
    /\ UNCHANGED <<layer, results, running, view, bundle, saved, seen, rvCommands>>

\* The preparatory commands and the verifier again.
RvRepeat(result) ==
    /\ life.pc = "repeat"
    /\ Command
    /\ results' = result
    /\ seen' = [seen EXCEPT !.same = <<layer, results, running>> = seen.first, !.repeated = result, !.touched = @ \ {"repeated"}]
    /\ \/ life' = [life EXCEPT !.pc = "judge"] /\ UNCHANGED rvFaults
       \/ RvFault /\ life' = [life EXCEPT !.pc = "put_back"]
    /\ UNCHANGED <<view, held, bundle, saved, rvCommands>>

\* The comparison of what the two left.
RvJudge ==
    /\ life.pc = "judge"
    /\ life' = [life EXCEPT !.pc = "put_back"]
    /\ \/ /\ saved' = [saved EXCEPT !.repeated = results]
          /\ held' = [held EXCEPT !.same = saved.original = results,
                                  !.replay = IF saved.original = results THEN "complete" ELSE "mismatch"]
          /\ UNCHANGED rvFaults
       \/ RvFault /\ UNCHANGED <<saved, held>>
    /\ UNCHANGED <<layer, results, running, view, bundle, seen, rvCommands>>

\* _replace_host_tree: the original results are the host's again.
PutBack == results' = saved.original

\* The finally of _repeat_verifier.  When the tree cannot be put back, the
\* exception leaves through the finally of stop, with the results removed and
\* the manifest on disk as captured; so it stays when it cannot be written.
RvPutBack ==
    /\ life.pc = "put_back"
    /\ life' = [life EXCEPT !.pc = "stopped"]
    /\ \/ /\ PutBack
          /\ held' = [held EXCEPT !.status = IF held.replay = "complete" THEN @ ELSE "incomplete"]
          /\ \/ bundle' = held' /\ UNCHANGED rvFaults
             \/ RvFault /\ UNCHANGED bundle
       \/ /\ RvFault
          /\ results' \in {results, NoResult}
          /\ UNCHANGED <<held, bundle>>
    /\ UNCHANGED <<layer, running, view, saved, seen, rvCommands>>

RvDies ==
    /\ life.pc \notin {"stopped", "dead"} /\ RvFault
    /\ life' = [life EXCEPT !.pc = "dead"]
    /\ UNCHANGED <<layer, results, running, view, held, bundle, saved, seen, rvCommands>>

RvNext ==
    \/ RvUploadTests \/ RvCapture \/ RvRead \/ RvKeep \/ RvDisturb \/ RvStop \/ RvDown \/ RvCopy \/ RvRestore
    \/ RvCompare \/ RvJudge \/ RvPutBack \/ RvDies
    \/ \E verifier, raises \in BOOLEAN, result \in RvResults : RvExec(verifier, result, raises)
    \/ \E result \in RvResults : RvRepeat(result)

RvSpec == RvInit /\ [][RvNext]_rvVars

-----------------------------------------------------------------------------
(* Properties                                                              *)

\* _attempt_replay of the screening run: what it takes as a good replay.
ReplayAccepted ==
    /\ bundle # NoManifest
    /\ bundle.phase = "before_verifier" /\ bundle.status = "complete"
    /\ bundle.replay = "complete" /\ bundle.restored /\ bundle.same

\* A replay that is accepted was made: the commands of the second verifier began
\* in the very state in which those of the first began, unless a process left
\* behind wrote (or ended) while that state was read or before the commands that
\* follow the reading; and the second verifier left what the first one left,
\* unless such a process wrote to the results before they were copied.  However
\* the replay ends, an environment that stopped leaves the first verifier's
\* results in place (but for such a process), or its replay is not accepted and
\* original-verifier holds them.
RvReplayIsGenuine ==
    /\ ReplayAccepted => /\ seen.same \/ seen.late
                         /\ seen.original = seen.repeated \/ seen.touched # {}
    /\ life.pc = "stopped" /\ life.replayed /\ "original" \notin seen.touched =>
          results = seen.original \/ (~ReplayAccepted /\ saved.original = seen.original)
=============================================================================

--------------------------- MODULE AccountlessRun ---------------------------
(***************************************************************************)
(* One task on a local model without an account                             *)
(* (src/src/accountless_native.py).  Commands given the same run id race    *)
(* for its directory; the one that makes it checks its prerequisites, starts *)
(* a worker in a session of its own and reads the worker's lines through a   *)
(* pipe.  Reading a line takes all that the pipe holds into the reader's      *)
(* buffer, and select looks at the pipe alone.                               *)
(***************************************************************************)
EXTENDS Integers, Sequences, FiniteSets, SequencesExt

CONSTANTS
    AnCommands, \* commands given the same run id
    NoCommand,
    Stages      \* the lines the worker prints before its result, in order

ASSUME AnAssumption ==
    /\ NoCommand \notin AnCommands
    /\ Stages \in Seq(STRING \ {"inference_finished"})

VARIABLES
    at,      \* [AnCommands -> where the command is]
    owner,   \* the command that made the run's directory
    inference, \* the worker: [state, printed, output, exit]
    pipe,    \* lines in the pipe
    buffer,  \* lines the reader took and has not looked at
    loop,    \* what the loop found: [final, error, asked]
    files    \* the run's directory: [raw, result]

anVars == <<at, owner, inference, pipe, buffer, loop, files>>

Outputs == {"right", "wrong", "no_marker"}
NoFile == [none |-> TRUE]
Started == [state |-> "runs", printed |-> 0, output |-> "none", exit |-> 0]

ToRead(kind) == [kind |-> kind, output |-> "none", valid |-> TRUE]
ResultLine(output, valid) == [kind |-> "inference_finished", output |-> output, valid |-> valid]

Code(status) ==
    [pass |-> 0, wrong |-> 1, preflight_failed |-> 2, execution_failed |-> 3, collision |-> 4][status]

\* judge_output: the marker's text compared with the reference's.
Verdict(output) ==
    CASE output = "right" -> "pass" [] output = "wrong" -> "wrong_answer" [] OTHER -> "wrong_format"

Failed(status) == [status |-> status, code |-> Code(status), verdict |-> "none", invocations |-> 0, output |-> "none"]
Completed(output) ==
    [status |-> "completed", code |-> Code(IF Verdict(output) = "pass" THEN "pass" ELSE "wrong"),
     verdict |-> Verdict(output), invocations |-> 1, output |-> output]

(***************************************************************************)
(* The worker.  It may raise before its result, and the process may die of  *)
(* its own or end otherwise than with 0 after its result.                    *)
(***************************************************************************)
InfPrints ==
    /\ inference.state = "runs" /\ inference.printed < Len(Stages)
    /\ inference' = [inference EXCEPT !.printed = @ + 1]
    /\ pipe' = Append(pipe, ToRead(Stages[inference.printed + 1]))
    /\ UNCHANGED <<at, owner, buffer, loop, files>>

InfPrintsResult(output, valid) ==
    /\ inference.state = "runs" /\ inference.printed = Len(Stages)
    /\ inference' = [inference EXCEPT !.state = "leaves", !.output = output]
    /\ pipe' = Append(pipe, ResultLine(output, valid))
    /\ UNCHANGED <<at, owner, buffer, loop, files>>

InfRaises ==
    /\ inference.state = "runs"
    /\ inference' = [inference EXCEPT !.state = "leaves", !.exit = 3]
    /\ pipe' = Append(pipe, ToRead("worker_error"))
    /\ UNCHANGED <<at, owner, buffer, loop, files>>

\* Something in the process prints on its standard output: text, or a number.
InfStrays(kind) ==
    /\ inference.state = "runs" /\ inference.printed = 1 /\ \A l \in ToSet(pipe) : l.kind # kind
    /\ pipe' = Append(pipe, ToRead(kind))
    /\ UNCHANGED <<at, owner, inference, buffer, loop, files>>

InfExits(code) ==
    /\ inference.state = "leaves"
    /\ inference' = [inference EXCEPT !.state = "ended", !.exit = IF @ = 0 THEN code ELSE @]
    /\ UNCHANGED <<at, owner, pipe, buffer, loop, files>>

InfDies ==
    /\ inference.state = "runs"
    /\ inference' = [inference EXCEPT !.state = "ended", !.exit = -9]
    /\ UNCHANGED <<at, owner, pipe, buffer, loop, files>>

(***************************************************************************)
(* The command.  mkdir lets one command of a run id through.                *)
(***************************************************************************)
AnReserve(c) ==
    /\ at[c] = "start"
    /\ IF owner = NoCommand
       THEN owner' = c /\ at' = [at EXCEPT ![c] = "checks"]
       ELSE at' = [at EXCEPT ![c] = "collision"] /\ UNCHANGED owner
    /\ UNCHANGED <<inference, pipe, buffer, loop, files>>

LeavesResult(c, result) ==
    /\ files' = [files EXCEPT !.result = result]
    /\ at' = [at EXCEPT ![c] = "ended"]

AnPreflight(c, ready) ==
    /\ at[c] = "checks"
    /\ IF ready
       THEN inference' = Started /\ at' = [at EXCEPT ![c] = "reads"] /\ UNCHANGED files
       ELSE LeavesResult(c, Failed("preflight_failed")) /\ UNCHANGED inference
    /\ UNCHANGED <<owner, pipe, buffer, loop>>

\* terminate: a worker that has not ended is stopped, with SIGKILL in the end.
Stopped == IF inference.state = "ended" THEN inference ELSE [inference EXCEPT !.state = "ended", !.exit = -15]

\* The top of the loop finds that the attempt or its progress took too long.
AnTimeout(c) ==
    /\ at[c] = "reads" /\ loop.asked
    /\ loop' = [loop EXCEPT !.error = TRUE]
    /\ inference' = Stopped
    /\ at' = [at EXCEPT ![c] = "judges"]
    /\ UNCHANGED <<owner, pipe, buffer, files>>

\* select wakes up for bytes in the pipe or for its end, and one line is read.
Ready == pipe # <<>> \/ inference.state = "ended"
Lines == IF buffer = <<>> THEN pipe ELSE buffer
Unread == IF buffer = <<>> THEN <<>> ELSE pipe

\* A line that is JSON but no object raises out of the attempt; the command
\* reports it as a failed preflight, and the worker goes on.
AnRead(c) ==
    /\ at[c] = "reads" /\ loop.asked /\ Ready
    /\ pipe' = Unread
    /\ buffer' = IF Lines = <<>> THEN <<>> ELSE Tail(Lines)
    /\ LET line == IF Lines = <<>> THEN ToRead("end") ELSE Head(Lines)
       IN  /\ loop' = [final |-> IF line.kind = "inference_finished" THEN line ELSE loop.final,
                       error |-> loop.error \/ line.kind \in {"worker_error", "text"},
                       asked |-> FALSE]
           /\ inference' = IF line.kind = "text" THEN Stopped ELSE inference
           /\ at' = IF line.kind = "number" THEN [at EXCEPT ![c] = "raised"] ELSE at
    /\ UNCHANGED <<owner, files>>

\* Nothing to read within half a second.
AnWait(c) ==
    /\ at[c] = "reads" /\ loop.asked /\ ~Ready
    /\ loop' = [loop EXCEPT !.asked = FALSE]
    /\ UNCHANGED <<at, owner, inference, pipe, buffer, files>>

\* The bottom of the loop: an error or the end of the worker leaves it.
AnLoop(c) ==
    /\ at[c] = "reads" /\ ~loop.asked
    /\ LET leaves == loop.error \/ inference.state = "ended"
       IN  /\ loop' = [loop EXCEPT !.asked = ~leaves]
           /\ at' = IF leaves THEN [at EXCEPT ![c] = "judges"] ELSE at
           /\ inference' = IF leaves THEN Stopped ELSE inference
    /\ UNCHANGED <<owner, pipe, buffer, files>>

\* The result that counts: no error, the worker ended with 0, a result was read.
BackedSlipExitIgnored == ~loop.error /\ loop.final # NoFile
Backed == ~loop.error /\ inference.exit = 0 /\ loop.final # NoFile

\* The raw output is written before the fixture is read again to judge it.
AnJudge(c, fixtureThere) ==
    /\ at[c] = "judges"
    /\ IF Backed /\ loop.final.valid
       THEN /\ files' = [files EXCEPT !.raw = loop.final.output,
                                      !.result = IF fixtureThere THEN Completed(loop.final.output) ELSE @]
            /\ at' = [at EXCEPT ![c] = IF fixtureThere THEN "ended" ELSE "raised"]
       ELSE LeavesResult(c, Failed("execution_failed"))
    /\ UNCHANGED <<owner, inference, pipe, buffer, loop>>

\* run_command: what the command exits with.
ExitOf(c) ==
    CASE at[c] = "ended" -> files.result.code
      [] at[c] = "collision" -> Code("collision")
      [] at[c] = "raised" -> Code("preflight_failed")
      [] OTHER -> -1

\* verify_run on the run's directory.
Accepts ==
    /\ files.result # NoFile
    /\ files.result.invocations = 1 =>
        files.raw = files.result.output /\ files.result.verdict \in {"pass", "wrong_answer", "wrong_format"}

\* The command is killed; its worker, in another session, is not.
AnKilled(c) ==
    /\ at[c] \in {"checks", "reads", "judges"}
    /\ at' = [at EXCEPT ![c] = "killed"]
    /\ UNCHANGED <<owner, inference, pipe, buffer, loop, files>>

(***************************************************************************)
AnInit ==
    /\ at = [c \in AnCommands |-> "start"] /\ owner = NoCommand
    /\ inference = [Started EXCEPT !.state = "none"]
    /\ pipe = <<>> /\ buffer = <<>>
    /\ loop = [final |-> NoFile, error |-> FALSE, asked |-> TRUE]
    /\ files = [raw |-> "none", result |-> NoFile]

AnNext ==
    \/ InfPrints \/ InfRaises \/ InfDies
    \/ \E output \in Outputs, valid \in BOOLEAN : InfPrintsResult(output, valid)
    \/ \E kind \in {"text", "number"} : InfStrays(kind)
    \/ \E code \in {0, 1} : InfExits(code)
    \/ \E c \in AnCommands :
        \/ AnReserve(c) \/ AnTimeout(c) \/ AnRead(c) \/ AnWait(c) \/ AnLoop(c) \/ AnKilled(c)
        \/ \E ok \in BOOLEAN : AnPreflight(c, ok) \/ AnJudge(c, ok)

AnSpec == AnInit /\ [][AnNext]_anVars

(***************************************************************************)
(* A verdict is the worker's: the result of a run is completed only when    *)
(* the worker printed that output, ended with 0 and was not stopped, and    *)
(* the command's exit code says the verdict; no worker is alive beside a    *)
(* result (accountless_native.py:363-509); every result that is written is  *)
(* one verify_run accepts, and it belongs to the command that made the      *)
(* directory: every other command of the same run id ends as a collision.   *)
(***************************************************************************)
AnVerdictIsEarned ==
    /\ files.result # NoFile =>
        /\ Accepts
        /\ inference.state \in {"none", "ended"}
        /\ ExitOf(owner) = files.result.code
        /\ files.result.status = "completed" =>
            /\ inference.exit = 0 /\ inference.output = files.result.output
            /\ ExitOf(owner) = 0 <=> inference.output = "right"
    /\ \A c \in AnCommands : ExitOf(c) \in {0, 1} => c = owner /\ files.result.status = "completed"
=============================================================================

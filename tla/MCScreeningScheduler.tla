------------------------ MODULE MCScreeningScheduler ------------------------
(***************************************************************************)
(* Small instances of ScreeningScheduler.  The plan is the manifest's: one *)
(* repetition after the other, the tasks of each in an order of its own.   *)
(***************************************************************************)
EXTENDS ScreeningScheduler, TLC

MCTwoTasks == {"a", "b"}

\* Odd repetitions plan a before b, even ones b before a.
MCPlanIndex ==
    [tr \in MCTwoTasks \X (1 .. 3) |->
       2 * (tr[2] - 1) + (IF (tr[1] = "a") = (tr[2] % 2 = 1) THEN 0 ELSE 1)]
MCPlan2x1 == [tr \in MCTwoTasks \X (1 .. 1) |-> MCPlanIndex[tr]]
MCPlan2x2 == [tr \in MCTwoTasks \X (1 .. 2) |-> MCPlanIndex[tr]]

MCRuntime(artifact, container, workspace) ==
    [artifact |-> artifact, container |-> container, workspace |-> workspace]
MCOneRuntime == {MCRuntime("x", "p", "p")}
MCTwoRuntimes == {MCRuntime("x", "p", "p"), MCRuntime("x", "q", "q")}
=============================================================================

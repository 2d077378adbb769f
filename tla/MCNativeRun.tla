----------------------------- MODULE MCNativeRun -----------------------------
(* NativeRun on small instances: three tasks, 2, 4 and 6 repetitions for the *)
(* code's 5, 10 and 20.                                                      *)
EXTENDS NativeRun

Row(a, b) == <<a, b, 1>>
Steady == [r \in 1 .. 6 |-> Row(1, 0)]
Wide == [r \in 1 .. 6 |-> IF r % 2 = 0 THEN Row(0, 0) ELSE Row(1, 1)]
Settles == <<Row(1, 1), Row(1, 1), Row(1, 0), Row(1, 0), Row(1, 1), Row(1, 0)>>
Drifts == <<Row(1, 1), Row(1, 1), Row(1, 0), Row(1, 0), Row(0, 0), Row(0, 0)>>
Floor == [r \in 1 .. 6 |-> <<0, 0, 0>>]

MCRewardTables == {Steady, Wide, Settles, Drifts, Floor}
MCBaselineRows == SubSeq(Steady, 1, 4)
=============================================================================

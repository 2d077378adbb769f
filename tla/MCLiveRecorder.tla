---------------------------- MODULE MCLiveRecorder ----------------------------
(* LiveRecorder on small instances. *)
EXTENDS LiveRecorder, TLC

FreshOnly == {}
WithPrior == {<<1, 0>>, <<4, 4>>}
Alike == Permutations(Requests)
AlikeBoth == Permutations(Requests) \cup Permutations(Trials)
=============================================================================

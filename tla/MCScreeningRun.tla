---------------------------- MODULE MCScreeningRun ----------------------------
(* ScreeningRun on small instances. *)
EXTENDS ScreeningRun
=============================================================================

-------------------------- MODULE MCTestRunService --------------------------
(* Two overlapping Starts, a Cancel and a crash on one small run.          *)
EXTENDS TestRunService, TLC
=============================================================================

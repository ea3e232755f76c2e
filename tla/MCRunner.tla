------------------------------ MODULE MCRunner ------------------------------
(* One call of Run on a small run, sequential or parallel.                 *)
EXTENDS Runner, TLC
=============================================================================

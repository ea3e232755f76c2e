----------------------------- MODULE MCRunStream -----------------------------
(* One viewer with a short channel; the run publishes a few events.        *)
EXTENDS RunStream, TLC
=============================================================================

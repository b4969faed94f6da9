----------------------------- MODULE MCResolveBatch -----------------------------
(* ResolveBatch for TLC.  Its bounds are constants of the specification.   *)
EXTENDS ResolveBatch
=============================================================================

------------------------------ MODULE MCInstanceIO ------------------------------
(* InstanceIO for TLC.  Its bounds are constants of the specification.     *)
EXTENDS InstanceIO
=============================================================================

--------------------------- MODULE MCRuntimeLifecycle ---------------------------
(* RuntimeLifecycle for TLC: callers of NewInstance and the template are   *)
(* model values.  Liveness is checked, so symmetry is not used.            *)
EXTENDS RuntimeLifecycle
=============================================================================

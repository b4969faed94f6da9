---------------------------- MODULE MCGuestContext ----------------------------
(* GuestContext for TLC: two lines of configuration and of trust anchors,  *)
(* one root hint.                                                          *)
EXTENDS GuestContext, TLC

MCLines == [cfg |-> 2, anchors |-> 2, hints |-> 1]

InstanceSymmetry == Permutations(Instances)
=============================================================================

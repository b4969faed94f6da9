----------------------------- MODULE MCGuestEvents -----------------------------
(* GuestEvents for TLC: one descriptor, so that it is reused.              *)
EXTENDS GuestEvents, TLC

MCFds == {0}
MCBitSets == {{"read"}, {"read", "persist"}}
Symmetry == Permutations(Evs)
=============================================================================

----------------------------- MODULE MCHostInputs -----------------------------
(* HostInputs for TLC: three names, one of them in two spellings, and      *)
(* widths scaled down.                                                     *)
EXTENDS HostInputs

MCNames == {"q", "Q", "x", "y"}
MCFold == [n \in MCNames |-> IF n = "Q" THEN "q" ELSE n]
=============================================================================

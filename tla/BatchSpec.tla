-------------------------------- MODULE BatchSpec --------------------------------
(***************************************************************************)
(* What ResolveAll promises of a batch, whatever becomes of the instance:  *)
(* every query is settled, once, with a result or with an error, and the   *)
(* call returns when all are.                                              *)
(***************************************************************************)
CONSTANT Queries
VARIABLES active,   \* a ResolveAll call is in progress
          outcome   \* of each query: "none", "result", "error"

Unsettled == {q \in Queries : outcome[q] = "none"}

Init == active = FALSE /\ outcome = [q \in Queries |-> "none"]

Begin ==
    /\ ~active
    /\ active' = TRUE /\ outcome' = [q \in Queries |-> "none"]

\* One query gets its outcome.
Settle(q) ==
    /\ active /\ q \in Unsettled
    /\ \E o \in {"result", "error"} : outcome' = [outcome EXCEPT ![q] = o]
    /\ UNCHANGED active

\* The instance fails, and with it every query that is not settled.
FailRest ==
    /\ active /\ Unsettled # {}
    /\ outcome' = [q \in Queries |-> IF q \in Unsettled THEN "error" ELSE outcome[q]]
    /\ UNCHANGED active

Return ==
    /\ active /\ Unsettled = {}
    /\ active' = FALSE /\ UNCHANGED outcome

Next == Begin \/ (\E q \in Queries : Settle(q)) \/ FailRest \/ Return

Spec == Init /\ [][Next]_<<active, outcome>>
=============================================================================

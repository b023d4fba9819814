----------------------------- MODULE MCRunLoop -----------------------------
(***************************************************************************)
(* RunLoop with two trials, planned in the order t1, t2, and ids that sort *)
(* the other way round.                                                    *)
(***************************************************************************)
EXTENDS RunLoop

CONSTANTS t1, t2

PlanPosition == [t \in Trials |-> IF t = t1 THEN 1 ELSE 2]

IdPosition == [t \in Trials |-> IF t = t1 THEN 2 ELSE 1]

=============================================================================

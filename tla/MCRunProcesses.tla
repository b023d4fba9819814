--------------------------- MODULE MCRunProcesses ---------------------------
(***************************************************************************)
(* RunProcesses with two processes, which are interchangeable, and at most *)
(* two trials, taken in the order t1, t2.                                  *)
(***************************************************************************)
EXTENDS RunProcesses, TLC

CONSTANTS t1, t2, proc1, proc2

RankInOrder == [t \in Trials |-> IF t = t1 THEN 1 ELSE 2]

Interchangeable == Permutations(Procs)

=============================================================================

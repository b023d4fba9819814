-------------------------- MODULE MCEvaluationPlan --------------------------
(***************************************************************************)
(* EvaluationPlan with two tasks of one name in different directories, two *)
(* commits that differ in the second task, and four configuration files.   *)
(***************************************************************************)
EXTENDS EvaluationPlan

CONSTANTS p1, p2, c1, c2, original, changed, terra, luna, nick

OneName == [p \in Paths |-> "task"]

TwoCommits ==
  [k \in Commits |-> [p \in Paths |-> IF k = c2 /\ p = p2 THEN changed ELSE original]]

Base ==
  [wellFormed |-> TRUE, secret |-> FALSE, official |-> TRUE, tasks |-> <<p1, p2>>,
   systems |-> <<[name |-> NULL, key |-> terra, trials |-> 1, estimate |-> 1]>>, budget |-> 2,
   public |-> <<"reports", "generated">>, private |-> <<".coldstart", "private-reports">>]

TwoSystems ==
  [Base EXCEPT !.official = FALSE, !.tasks = <<p1>>, !.budget = 4,
     !.systems = <<[name |-> NULL, key |-> terra, trials |-> 2, estimate |-> NULL],
                   [name |-> NULL, key |-> luna, trials |-> 1, estimate |-> 0]>>]

Named ==
  [Base EXCEPT !.systems = <<[name |-> nick, key |-> terra, trials |-> 1, estimate |-> NULL]>>]

Misplaced == [Base EXCEPT !.public = <<"results", "private", "out">>]

FourDocuments == {Base, TwoSystems, Named, Misplaced}

\* No average; one of terra that is over the budget of Base and not of TwoSystems.
TwoHistories ==
  {[x \in {"task"} \X Keys |-> NULL],
   [x \in {"task"} \X Keys |-> IF x[2] = terra THEN 2 ELSE NULL]}

=============================================================================

--------------------------- MODULE MCHarborRunner ---------------------------
(***************************************************************************)
(* HarborRunner with two launches, the second of which writes once more to *)
(* stdout after a write that _tail can have displaced; or with two chunks  *)
(* on stderr, the second of which classify_missing_result does not see.    *)
(***************************************************************************)
EXTENDS HarborRunner

TwoOnStdout == [l \in Launches |-> [stdout |-> IF l = 1 THEN 1 ELSE 2, stderr |-> 1]]
TwoOnStderr == [l \in Launches |-> [stdout |-> 0, stderr |-> 2]]

Signals == [stdout |-> {"verifying"}, stderr |-> {"auth"}]
AnyText == [stdout |-> {"plain"}, stderr |-> {"plain", "auth"}]

Passed     == [raised |-> "none", scored |-> "pass"]
NotANumber == [raised |-> "none", scored |-> "not_a_number"]
AnyScore   == {Passed, NotANumber}
NoScore    == {[raised |-> "other", scored |-> "none"]}

=============================================================================

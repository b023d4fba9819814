--------------------------- MODULE MCResultStore ---------------------------
(***************************************************************************)
(* ResultStore with job directories in which everything ingestion tells    *)
(* apart occurs: one trial or two, with one name or two, scored, with half *)
(* a reward or with an exception, and files that do not parse.             *)
(***************************************************************************)
EXTENDS ResultStore, TLC

CONSTANTS n1, n2, s1, v1, v2, strict, functional, c1

Trial(state, name, setup, rewards, raised, cost, failed) ==
  [state |-> state, name |-> name, system |-> s1, setup |-> setup,
   rewards |-> rewards, raised |-> raised, cost |-> cost, failed |-> failed]

Rewarded(pass, rest) == [d \in Dimensions |-> IF d = strict THEN pass ELSE rest]

Passed == Trial("valid", n1, v1, Rewarded(2, 2), FALSE, 1, {})
Half   == Trial("valid", n1, v2, Rewarded(1, NULL), FALSE, NULL, {c1})
Raised == Trial("valid", n2, NULL, NoScores, TRUE, 2, {})
Broken == Trial("unparsable", n2, NULL, NoScores, FALSE, NULL, {})
BadNumber == Trial("bad_reward", n2, NULL, NoScores, FALSE, NULL, {})

Directory(first, second) == [readable |-> TRUE, trials |-> <<first, second>>]

Two    == Directory(Passed, Raised)
Twice  == Directory(Passed, Half)
Cut    == Directory(Half, Broken)
Wrong  == Directory(Half, BadNumber)
Empty  == Directory(NULL, NULL)
Torn   == [Empty EXCEPT !.readable = FALSE]

AnyContents == {Two, Twice, Cut, Wrong, Empty, Torn}

OfJobs == {[keys |-> {<<j, n1>>, <<j, n2>>}, system |-> NULL] : j \in Jobs}
OfPairs == [keys |-> {}, system |-> s1]
SingleScopes == {[keys |-> {<<j, n1>>}, system |-> NULL] : j \in Jobs}
AnyScope == OfJobs \cup {OfPairs}

Alike == Permutations(Jobs) \cup Permutations(Ingesters)

\* For the reports: two jobs of one system, set up differently.
SetupContents == {Directory(Passed, NULL), Directory(Half, NULL)}
=============================================================================

-------------------------- MODULE MCWorkflowRunner --------------------------
(* Small instances of WorkflowRunner.                                      *)
EXTENDS WorkflowRunner, TLC

CONSTANTS w1, w2, d1, d2, wk, d3, o2

\* One topic: the daily brief of Sunday (day 2), the weekly brief that ends
\* on the same day, and the daily brief of Monday that must choose between
\* them.
WeekKeys  == {d2, wk, d3}
WeekTopic == [k \in WeekKeys |-> "topic"]
WeekStart == [k \in WeekKeys |-> CASE k = d2 -> 2 [] k = wk -> 1 [] k = d3 -> 3]
WeekEnd   == [k \in WeekKeys |-> IF k = d3 THEN 3 ELSE 2]

\* Two consecutive days, each of another topic.
TwoTopics == [k \in {d1, o2} |-> IF k = d1 THEN "topic" ELSE "other"]
TwoStart  == [k \in {d1, o2} |-> IF k = d1 THEN 1 ELSE 2]

\* One day.
LoneTopic == [k \in {d1} |-> "topic"]
LoneStart == [k \in {d1} |-> 1]

WorkerSymmetry == Permutations({w1, w2})
=============================================================================

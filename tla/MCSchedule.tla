----------------------------- MODULE MCSchedule -----------------------------
(* A small instance of Schedule.                                            *)
EXTENDS Schedule

\* Weeks of three days; day 5 is a Sunday and the first of a month.  Topic 1
\* has news before and after the daily job of day 4 and on day 5.
Story(t, d, h) == [topic |-> t, day |-> d, hour |-> h]
SomeStories == {Story(1, 4, 4), Story(1, 5, 0), Story(2, 5, 0)}

\* Topic 1 has news in both weeks of the month from day 3 to day 8, each time
\* before the daily job.
ActiveMonth == {Story(1, 4, 0), Story(1, 7, 0)}
=============================================================================

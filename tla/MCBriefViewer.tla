---------------------------- MODULE MCBriefViewer ----------------------------
(* A small instance of BriefViewer.                                         *)
EXTENDS BriefViewer

CONSTANTS b1, b2, wk, wn, o1

\* Two daily briefs of topic 1, one of which is being written, and a daily one
\* of topic 2; the weekly brief of last week and one, asked for by hand, of a
\* week that has not ended.
SomeBriefs == {b1, b2, wk, wn, o1}
SomeTopics == [b \in SomeBriefs |-> IF b = o1 THEN 2 ELSE 1]
SomeTabs   == [b \in SomeBriefs |-> IF b \in {wk, wn} THEN "weekly" ELSE "daily"]
=============================================================================

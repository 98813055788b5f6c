--------------------------- MODULE MCDailyPipeline ---------------------------
(* Small instances of DailyPipeline, with the grouping of Batcher.          *)
EXTENDS DailyPipeline

CONSTANTS w1, w2

\* Four articles of one language: two of day 1, two of day 2.
FourArticles == {1, 2, 3, 4}
FourDays     == [a \in FourArticles |-> IF a <= 2 THEN 1 ELSE 2]

Grouper == INSTANCE Batcher WITH
             Articles <- FourArticles,
             Language <- [a \in FourArticles |-> "en"],
             MinBatch <- 2, MaxBatch <- 3

\* The first three of them.
ThreeArticles == {1, 2, 3}
ThreeDays     == [a \in ThreeArticles |-> FourDays[a]]

\* Everything is about one story.
OneStory        == [S \in SUBSET FourArticles |-> Grouper!Batches(Grouper!Pairs, S)]
OneStoryOfThree == [S \in SUBSET ThreeArticles |-> OneStory[S]]
=============================================================================

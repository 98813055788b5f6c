--------------------------- MODULE MCFeedPolling ---------------------------
(* Small instances of FeedPolling.                                         *)
EXTENDS FeedPolling, TLC

CONSTANTS w1, w2, a

\* One story: feed 1 has it first under a title that is off topic, and a user
\* adds it from there, then as entry 1, together with an entry whose URL does
\* not parse.  Feed 2 has the story under an entry of its own.
StoryTwice == [f \in Feeds |-> CASE f = 1 -> <<{2}, {1, 4}>>
                                 [] f = 2 -> <<{3}>>
                                 [] OTHER -> <<{}>>]

\* No feed has entries.
NoStories == [f \in Feeds |-> <<{}>>]

SameStory == [e \in Entries |-> IF e = 4 THEN NoUrl ELSE a]
Disable   == {<<1, FALSE>>}

WorkerSymmetry == Permutations({w1, w2})
=============================================================================

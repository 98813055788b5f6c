------------------------------ MODULE MCBatcher ------------------------------
(***************************************************************************)
(* Batcher over every similarity relation, while the articles are captured *)
(* one by one in any order; and Extraction, the way of one article before  *)
(* that.  The two share no variable, so their steps are not interleaved.   *)
(***************************************************************************)
EXTENDS Batcher, Extraction

VARIABLES
  sim,      \* which pairs of titles are similar
  pool      \* eligible articles so far

vars == <<sim, pool, extraction>>

TwoLanguages == [a \in Articles |-> IF a = 3 THEN "de" ELSE "en"]

Init == sim \in SUBSET Pairs /\ pool = {} /\ ExtractionInit

Capture(a) ==
  /\ a \in Articles \ pool
  /\ stage = "start"
  /\ pool' = pool \cup {a}
  /\ UNCHANGED <<sim, extraction>>

Extract ==
  /\ sim = {} /\ pool = {}
  /\ ExtractionNext
  /\ UNCHANGED <<sim, pool>>

Next == (\E a \in Articles : Capture(a)) \/ Extract

Spec == Init /\ [][Next]_vars

-----------------------------------------------------------------------------
\* Every eligible article is in one batch of three to five (MinBatch to
\* MaxBatch) or carried forward, and in no two places (batch_articles).
EveryArticlePlacedOnce ==
  LET batches == Batches(sim, pool)
  IN  /\ \A g, h \in batches : g # h => g \cap h = {}
      /\ \A g \in batches : Cardinality(g) \in MinBatch..MaxBatch
      /\ (UNION batches) \cup CarriedForward(sim, pool) = pool
      /\ (UNION batches) \cap CarriedForward(sim, pool) = {}

\* What decides a grouping, without the loop: inside a language an article
\* joins the earliest earlier seed that is similar to it, unless that seed's
\* group is full of articles before it, and is a seed if there is none.
\* At most one grouping meets these conditions, by induction on the order.
GreedyByDefinition ==
  LET groups == Groups(sim, pool)
      Takes(g, a) == Language[Min(g)] = Language[a] /\ Similar(sim, Min(g), a)
  IN  \A g \in groups :
        /\ \A a \in g \ {Min(g)} : Takes(g, a)
        /\ \A h \in groups : Min(g) < Min(h) =>
             \A a \in h : Takes(g, a) =>
               Cardinality(g) = MaxBatch /\ \A b \in g : b < a

\* An article later than all others changes one group at most: it extends
\* that group or becomes a seed of its own.  So a batch key stays what it was
\* unless that very batch grew (the keys of _derive_batch_key are stable).
LaterArticleIsLocal ==
  [][\A a \in pool' \ pool :
       (\A b \in pool : b < a) =>
         \/ Groups(sim, pool') = Groups(sim, pool) \cup {{a}}
         \/ \E g \in Groups(sim, pool) :
              Groups(sim, pool') = (Groups(sim, pool) \ {g}) \cup {g \cup {a}}]_vars
=============================================================================

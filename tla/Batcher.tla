------------------------------- MODULE Batcher -------------------------------
(***************************************************************************)
(* batching/batcher.py: batch_articles, a pure and deterministic greedy    *)
(* grouping.  A batch is the set of its articles: the order inside it is   *)
(* the sort order, and its key is a hash of that order and of settings.    *)
(***************************************************************************)
EXTENDS Naturals, FiniteSets, FiniteSetsExt

CONSTANTS
  Articles,     \* articles, numbered by (published_at, url_fingerprint, id)
  Language,     \* Language[a]
  MinBatch,     \* _MIN_BATCH_SIZE
  MaxBatch      \* _MAX_BATCH_SIZE

ASSUME BatcherAssumption ==
  /\ Articles \subseteq Nat
  /\ IsFiniteSet(Articles)
  /\ MinBatch \in Nat \ {0}
  /\ MaxBatch \in Nat
  /\ MinBatch <= MaxBatch

\* Pairs of distinct articles: which of them have similar titles is `sim`.
Pairs == kSubset(2, Articles)

\* _jaccard(seed, a) >= title_similarity_threshold, a symmetric relation that
\* does not hold for a title without tokens.
Similar(sim, seed, a) == {seed, a} \in sim

\* The n first articles of S.
Foremost(S, n) == {a \in S : Cardinality({b \in S : b < a}) < n}

\* Mutants: the limit counts the candidates and not the seed; a candidate is
\* compared with any article before it; the group takes the last candidates.
GroupOversize(sim, pool) ==
  LET seed == Min(pool)
  IN  {seed} \cup Foremost({a \in pool : Similar(sim, seed, a)}, MaxBatch)

GroupChained(sim, pool) ==
  LET seed == Min(pool)
  IN  {seed} \cup Foremost({a \in pool : \E b \in pool : b < a /\ Similar(sim, b, a)},
                           MaxBatch - 1)

GroupLatest(sim, pool) ==
  LET seed == Min(pool)
      alike == {a \in pool : Similar(sim, seed, a)}
  IN  {seed} \cup {a \in alike : Cardinality({b \in alike : b > a}) < MaxBatch - 1}

\* One turn of the loop: the first article left is the seed, and the first
\* MaxBatch - 1 articles similar to it join.
Group(sim, pool) ==
  LET seed == Min(pool)
  IN  {seed} \cup Foremost({a \in pool : Similar(sim, seed, a)}, MaxBatch - 1)

\* The loop over one language.
Grouping(sim, partition) ==
  LET turn[pool \in SUBSET partition] ==
        IF pool = {} THEN {}
        ELSE {Group(sim, pool)} \cup turn[pool \ Group(sim, pool)]
  IN  turn[partition]

\* by_language: one partition for each language.
Partitions(pool) == {{a \in pool : Language[a] = l} : l \in {Language[a] : a \in pool}}

Groups(sim, pool) == UNION {Grouping(sim, p) : p \in Partitions(pool)}

LargeEnough(g) == Cardinality(g) >= MinBatch

\* The two components of BatcherResult.
Batches(sim, pool)        == {g \in Groups(sim, pool) : LargeEnough(g)}
CarriedForward(sim, pool) == UNION {g \in Groups(sim, pool) : ~LargeEnough(g)}
=============================================================================

---------------------------- MODULE BriefArchive ----------------------------
(***************************************************************************)
(* How briefs get into the archive and out of it again: the last steps of  *)
(* workflows/graphs.py synthesize (embedding, transaction, SAVEPOINT) and  *)
(* the read routes GET /briefs, GET /briefs/{id} and GET /archive/search.  *)
(* A brief stands for the rows its transaction inserts: narrative version, *)
(* expectations and brief.  Rows are never deleted.                        *)
(***************************************************************************)
EXTENDS Naturals, FiniteSets

CONSTANTS
  Briefs,           \* briefs whose synthesis is asked for
  Existing,         \* those committed before, without an embedding
  Topics,           \* topics, numbered in the order of list_topics
  Cadences,         \* cadences of briefs
  TopicOf,          \* TopicOf[b]
  CadenceOf,        \* CadenceOf[b]
  Ended             \* briefs whose last day is not after today

ASSUME ArchiveAssumption ==
  /\ Existing \subseteq Briefs
  /\ Ended \subseteq Briefs
  /\ Topics \subseteq Nat
  /\ TopicOf \in [Briefs -> Topics]
  /\ CadenceOf \in [Briefs -> Cadences]

VARIABLES
  writer,           \* where the synthesis of each brief is
  vectors,          \* briefs whose embedding the provider returned
  staged,           \* embedding rows inserted in a transaction still open
  committed,        \* brief table
  embedded,         \* embedding table, by brief_id
  broken            \* history: syntheses ended by something else than the
                    \* embedding: database error, refused brief, crash

archive == <<writer, vectors, staged, committed, embedded, broken>>

Writing == {"embed", "insert", "savepoint", "commit"}

ArchiveTypeOK ==
  /\ writer \in [Briefs -> {"waiting", "done", "failed"} \cup Writing]
  /\ vectors \in SUBSET Briefs
  /\ staged \in SUBSET Briefs
  /\ committed \in SUBSET Briefs
  /\ embedded \in SUBSET Briefs
  /\ broken \in SUBSET Briefs

ArchiveInit ==
  /\ writer = [b \in Briefs |-> IF b \in Existing THEN "done" ELSE "waiting"]
  /\ vectors = {}
  /\ staged = {}
  /\ committed = Existing
  /\ embedded = {}
  /\ broken = {}

WriterGoto(b, label) == writer' = [writer EXCEPT ![b] = label]

\* The model has answered and the rows are drafted (_frontier_synthesis).
Synthesise(b) ==
  /\ writer[b] = "waiting"
  /\ WriterGoto(b, "embed")
  /\ UNCHANGED <<vectors, staged, committed, embedded, broken>>

\* gateway.embed before the transaction; any Exception of it is suppressed.
Embed(b) ==
  /\ writer[b] = "embed"
  /\ vectors' \in {vectors, vectors \cup {b}}
  /\ WriterGoto(b, "insert")
  /\ UNCHANGED <<staged, committed, embedded, broken>>

\* The transaction opens: narrative, expectations and brief are flushed.
InsertBrief(b) ==
  /\ writer[b] = "insert"
  /\ WriterGoto(b, IF b \in vectors THEN "savepoint" ELSE "commit")
  /\ UNCHANGED <<vectors, staged, committed, embedded, broken>>

StageEmbedding(b) ==
  /\ writer[b] = "savepoint"
  /\ staged' = staged \cup {b}
  /\ WriterGoto(b, "commit")
  /\ UNCHANGED <<vectors, committed, embedded, broken>>

\* Mutant: no SAVEPOINT, so the failed statement aborts the transaction and
\* the commit of session_scope fails.
EmbeddingAborts(b) ==
  /\ writer[b] = "savepoint"
  /\ WriterGoto(b, "failed")
  /\ UNCHANGED <<vectors, staged, committed, embedded, broken>>

\* The flush of the embedding fails: begin_nested rolls back to the SAVEPOINT,
\* which leaves the rows before it alone, and the exception is swallowed.
EmbeddingRefused(b) ==
  /\ writer[b] = "savepoint"
  /\ WriterGoto(b, "commit")
  /\ UNCHANGED <<vectors, staged, committed, embedded, broken>>

\* session_scope commits: all rows become visible at once.
CommitBrief(b) ==
  /\ writer[b] = "commit"
  /\ committed' = committed \cup {b}
  /\ embedded' = embedded \cup (staged \cap {b})
  /\ staged' = staged \ {b}
  /\ WriterGoto(b, "done")
  /\ UNCHANGED <<vectors, broken>>

\* The commit has taken effect, but its acknowledgement is lost: the caller
\* sees an exception, the rows are durable all the same.
CommitAckLost(b) ==
  /\ writer[b] = "commit"
  /\ committed' = committed \cup {b}
  /\ embedded' = embedded \cup (staged \cap {b})
  /\ staged' = staged \ {b}
  /\ broken' = broken \cup {b}
  /\ WriterGoto(b, "failed")
  /\ UNCHANGED vectors

\* Anything else ends the synthesis: the rows of an open transaction go.
SynthesisFails(b) ==
  /\ writer[b] \in Writing
  /\ staged' = staged \ {b}
  /\ broken' = broken \cup {b}
  /\ WriterGoto(b, "failed")
  /\ UNCHANGED <<vectors, committed, embedded>>

Write(b) ==
  \/ Synthesise(b) \/ Embed(b) \/ InsertBrief(b)
  \/ StageEmbedding(b) \/ EmbeddingRefused(b)
  \/ CommitBrief(b) \/ CommitAckLost(b) \/ SynthesisFails(b)

-----------------------------------------------------------------------------
\* GET /briefs: list_prior_briefs before tomorrow.  A brief of a window that
\* ends after today is left out; so are all but the latest 31.
Listing(c, t) ==
  {b \in committed \cap Ended : CadenceOf[b] = c /\ TopicOf[b] = t}

\* GET /briefs/{id}: the brief, or 404.
Readable(b) == b \in committed

\* GET /archive/search over all cadences: embedding joined with brief.
Searchable == {b \in embedded : b \in committed}

-----------------------------------------------------------------------------
\* An embedding that cannot be had or stored never costs a brief: a synthesis
\* fails only if something else failed, and one that ends well has committed
\* its brief (graphs.py, the SAVEPOINT around save_embedding).  A synthesis
\* that fails may have committed as well: the acknowledgement can be lost.
\* And no embedding is durable before its brief or without it, so the archive
\* search finds the brief of every embedding.
EmbeddingIsOptional ==
  /\ \A b \in Briefs : writer[b] = "failed" => b \in broken
  /\ \A b \in Briefs : writer[b] = "done" => b \in committed
  /\ embedded = Searchable
=============================================================================

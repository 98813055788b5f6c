---------------------------- MODULE DailyPipeline ----------------------------
(***************************************************************************)
(* pipeline/daily_brief.py: concurrent calls of DailyBriefPipeline.run for *)
(* one topic (the scheduler's job, POST /pipelines/daily, retries).  Every *)
(* transaction and provider call is one action.  The workflow run a call   *)
(* ends with is the ledger of RunLedger.tla, which WorkflowRunner.tla      *)
(* implements; the grouping is any function that keeps the contract of     *)
(* Batcher.tla.                                                            *)
(***************************************************************************)
EXTENDS Naturals, FiniteSets

CONSTANTS
  Workers,          \* concurrent calls
  Days,             \* dates a brief is asked for
  Articles,         \* articles of the topic, numbered in the batcher's order
  Day,              \* Day[a]: date of publication
  Batching,         \* Batching[S]: the batches batch_articles makes of S
  MaxArticles,      \* max_articles_per_run
  NoDay,            \* "not called yet"
  FaultKinds,       \* faults considered: subset of AllFaults
  MaxFaults         \* bound on how many calls are ended by a fault

AllFaults == {"raise", "crash", "invalid"}

ASSUME PipelineAssumption ==
  /\ Days \subseteq Nat
  /\ NoDay \notin Days
  /\ Articles \subseteq Nat
  /\ Day \in [Articles -> Nat]
  /\ \A a, b \in Articles : a < b => Day[a] <= Day[b]
  /\ MaxArticles \in Nat
  /\ FaultKinds \subseteq AllFaults
  /\ MaxFaults \in Nat

\* What DailyBriefPipeline relies on: see EveryArticlePlacedOnce of MCBatcher.
ASSUME BatchingAssumption ==
  /\ Batching \in [SUBSET Articles -> SUBSET SUBSET Articles]
  /\ \A S \in SUBSET Articles : \A g \in Batching[S] :
       /\ g # {} /\ g \subseteq S
       /\ \A h \in Batching[S] : g # h => g \cap h = {}

VARIABLES
  articles,         \* article table: those captured so far
  batches,          \* article_batch table (batch_key is unique)
  summarised,       \* batches with a row in batch_summary
  status,           \* workflow_run table, by target date
  published,        \* dates with a committed brief
  cited,            \* cited_batch_summary_ids of the brief of each date
  pc,               \* where each call is
  day,              \* target_date of each call
  todo,             \* batches left in the current loop of each call
  ready,            \* summaries_by_batch of each call
  chosen,           \* selected_summaries of each call
  answer,           \* result of each worker's last call
  seen,             \* history: status of the date when the call began
  faults,           \* calls ended by a fault so far
  overlapped        \* history: a call listed articles while another was
                    \* about to save its batches

tables == <<articles, batches, summarised, status, published, cited>>
locals == <<day, todo, ready, chosen, answer, seen>>
vars   == <<tables, pc, locals, faults, overlapped>>

Runs == INSTANCE RunLedger WITH Keys <- Days

\* Before the run; and while this call owns the run, inside runner.run_daily.
Preparing == {"list", "save", "lookup", "store", "select", "report", "run", "claim"}
Owning    == {"execute", "finish"}
Answer    == Runs!Status \cup {"none", "nocontent", "raised", "crashed"}

TypeOK ==
  /\ articles \in SUBSET Articles
  /\ batches \in SUBSET SUBSET Articles
  /\ summarised \in SUBSET batches
  /\ Runs!TypeOK
  /\ cited \in [Days -> SUBSET SUBSET Articles]
  /\ pc \in [Workers -> {"idle"} \cup Preparing \cup Owning]
  /\ day \in [Workers -> Days \cup {NoDay}]
  /\ todo \in [Workers -> SUBSET SUBSET Articles]
  /\ ready \in [Workers -> SUBSET SUBSET Articles]
  /\ chosen \in [Workers -> SUBSET SUBSET Articles]
  /\ answer \in [Workers -> Answer]
  /\ seen \in [Workers -> Runs!Status]
  /\ faults \in Nat
  /\ overlapped \in BOOLEAN

Init ==
  /\ articles = {}
  /\ batches = {}
  /\ summarised = {}
  /\ Runs!Init
  /\ cited = [d \in Days |-> {}]
  /\ pc = [w \in Workers |-> "idle"]
  /\ day = [w \in Workers |-> NoDay]
  /\ todo = [w \in Workers |-> {}]
  /\ ready = [w \in Workers |-> {}]
  /\ chosen = [w \in Workers |-> {}]
  /\ answer = [w \in Workers |-> "none"]
  /\ seen = [w \in Workers |-> "absent"]
  /\ faults = 0
  /\ overlapped = FALSE

-----------------------------------------------------------------------------
Goto(w, label) == pc' = [pc EXCEPT ![w] = label]
Assign(f, w, value) == [f EXCEPT ![w] = value]

\* The call ends: its locals go with it.
Leave(w, result) ==
  /\ Goto(w, "idle")
  /\ answer' = Assign(answer, w, result)
  /\ todo' = Assign(todo, w, {})
  /\ ready' = Assign(ready, w, {})
  /\ chosen' = Assign(chosen, w, {})
  /\ UNCHANGED <<day, seen>>

\* Captured by poll_feed at the start of a call, or by any other ingestion.
Capture(a) ==
  /\ a \in Articles \ articles
  /\ articles' = articles \cup {a}
  /\ UNCHANGED <<batches, summarised, status, published, cited, pc, locals, faults, overlapped>>

Call(w, d) ==
  /\ pc[w] = "idle"
  /\ Goto(w, "list")
  /\ day' = Assign(day, w, d)
  /\ seen' = Assign(seen, w, status[d])
  /\ answer' = Assign(answer, w, "none")
  /\ UNCHANGED <<tables, todo, ready, chosen, faults, overlapped>>

\* list_eligible_unbatched_articles, ordered, cut at max_articles_per_run.
Oldest(S, n) == {a \in S : Cardinality({b \in S : b < a}) < n}

\* Mutant: articles of existing batches are eligible again.
UnbatchedForgetful(d) == {a \in articles : Day[a] <= d}

Unbatched(d) ==
  {a \in articles : Day[a] <= d /\ \A b \in batches : a \notin b}

List(w) ==
  /\ pc[w] = "list"
  /\ todo' = Assign(todo, w, Batching[Oldest(Unbatched(day[w]), MaxArticles)])
  /\ Goto(w, "save")
  /\ overlapped' = (overlapped \/ \E v \in Workers \ {w} : pc[v] = "save")
  /\ UNCHANGED <<tables, day, ready, chosen, answer, seen, faults>>

\* Mutant: the session is closed without a commit.
SaveBatchesLost(w) ==
  /\ pc[w] = "save"
  /\ Goto(w, IF todo[w] = {} THEN "report" ELSE "lookup")
  /\ UNCHANGED <<tables, locals, faults, overlapped>>

\* The batch transaction: a batch whose key exists is reused, the others are
\* inserted, all or none.
SaveBatches(w) ==
  /\ pc[w] = "save"
  /\ batches' = batches \cup todo[w]
  /\ Goto(w, IF todo[w] = {} THEN "report" ELSE "lookup")
  /\ UNCHANGED <<articles, summarised, status, published, cited, locals, faults, overlapped>>

\* The key was committed by another call after this one looked for it: the
\* unique constraint refuses the insert and nothing catches IntegrityError.
BatchConflict(w) ==
  /\ pc[w] = "save"
  /\ todo[w] \cap batches # {}
  /\ Leave(w, "raised")
  /\ UNCHANGED <<tables, faults, overlapped>>

-----------------------------------------------------------------------------
\* The batch a loop over resolved_batches is at.
Current(w) == {b \in todo[w] : \A c \in todo[w] \ {b} : \E x \in b : \A y \in c : x < y}

\* Next turn of the summary loop, or on to the selection.
Summarised(w, b, have) ==
  LET rest == todo[w] \ {b}
  IN  /\ ready' = Assign(ready, w, IF rest = {} THEN {} ELSE have)
      /\ todo' = Assign(todo, w, IF rest = {} THEN have ELSE rest)
      /\ Goto(w, CASE rest # {} -> "lookup"
                   [] rest = {} /\ have # {} -> "select"
                   [] OTHER -> "report")
      /\ UNCHANGED <<day, chosen, answer, seen>>

\* get_batch_summary_by_identity: an existing summary is reused.
Lookup(w) ==
  /\ pc[w] = "lookup"
  /\ \E b \in Current(w) :
       \/ b \in summarised /\ Summarised(w, b, ready[w] \cup {b})
       \/ b \notin summarised /\ Goto(w, "store") /\ UNCHANGED locals
  /\ UNCHANGED <<tables, faults, overlapped>>

\* summarize_batch answers and save_batch_summary commits, or another call
\* has committed this summary since and the unique constraint refuses it.
Store(w) ==
  /\ pc[w] = "store"
  /\ \E b \in Current(w) :
       \/ /\ b \notin summarised
          /\ summarised' = summarised \cup {b}
          /\ Summarised(w, b, ready[w] \cup {b})
       \/ /\ b \in summarised
          /\ Leave(w, "raised")
          /\ UNCHANGED summarised
  /\ UNCHANGED <<articles, batches, status, published, cited, faults, overlapped>>

\* Mutant: an invalid answer is asked for again.
SkipAgain(w) ==
  /\ pc[w] = "store"
  /\ "invalid" \in FaultKinds
  /\ Goto(w, "lookup")
  /\ UNCHANGED <<tables, locals, faults, overlapped>>

\* SummaryValidationError: the loop goes on without this batch.
Skip(w) ==
  /\ pc[w] = "store"
  /\ "invalid" \in FaultKinds
  /\ \E b \in Current(w) : Summarised(w, b, ready[w])
  /\ UNCHANGED <<tables, faults, overlapped>>

Dates(b) == {Day[a] : a \in b}

\* is_batch_summary_cited, excluding the brief of the target date itself.
CitedElsewhere(b, d) == \E e \in Days \ {d} : b \in cited[e]

\* Mutant: only later articles are refused.
SelectableUpTo(b, d) == ~CitedElsewhere(b, d) /\ \A e \in Dates(b) : e <= d

\* The batch has news of date d and none of a later date.
NewsOf(b, d) == d \in Dates(b) /\ \A e \in Dates(b) : e <= d

Selectable(b, d) == ~CitedElsewhere(b, d) /\ NewsOf(b, d)

\* One turn of the selection loop.
Select(w) ==
  /\ pc[w] = "select"
  /\ \E b \in Current(w) :
       LET rest == todo[w] \ {b}
           kept == chosen[w] \cup {c \in {b} : Selectable(c, day[w])}
       IN  /\ todo' = Assign(todo, w, rest)
           /\ chosen' = Assign(chosen, w, kept)
           /\ Goto(w, CASE rest # {} -> "select"
                        [] rest = {} /\ kept # {} -> "run"
                        [] OTHER -> "report")
  /\ UNCHANGED <<tables, day, ready, answer, seen, faults, overlapped>>

\* Mutants: a retry with nothing new is always a no-content day; nothing
\* selected is no reason to stop.
ReportNothing(w) ==
  /\ pc[w] = "report"
  /\ Leave(w, "nocontent")
  /\ UNCHANGED <<tables, faults, overlapped>>

ReportRun(w) ==
  /\ pc[w] = "report"
  /\ Goto(w, "run")
  /\ UNCHANGED <<tables, locals, faults, overlapped>>

\* Nothing selected: no content, unless the date's run has ended already.
Report(w) ==
  /\ pc[w] = "report"
  /\ \/ /\ status[day[w]] \in {"succeeded", "failed"}
        /\ Goto(w, "run")
        /\ UNCHANGED locals
     \/ /\ status[day[w]] \notin {"succeeded", "failed"}
        /\ Leave(w, "nocontent")
  /\ UNCHANGED <<tables, faults, overlapped>>

-----------------------------------------------------------------------------
(***************************************************************************)
(* runner.run_daily(target_date, selected_summaries) on the run ledger.    *)
(***************************************************************************)
EnsureRun(w) ==
  /\ pc[w] = "run"
  /\ \/ Runs!Create(day[w]) /\ Goto(w, "claim") /\ UNCHANGED locals
     \/ /\ status[day[w]] = "pending"
        /\ Goto(w, "claim")
        /\ UNCHANGED <<status, published, locals>>
     \/ /\ status[day[w]] \notin {"absent", "pending"}
        /\ Leave(w, status[day[w]])
        /\ UNCHANGED <<status, published>>
  /\ UNCHANGED <<articles, batches, summarised, cited, faults, overlapped>>

Claim(w) ==
  /\ pc[w] = "claim"
  /\ \/ Runs!Begin(day[w]) /\ Goto(w, "execute") /\ UNCHANGED locals
     \/ /\ status[day[w]] # "pending"
        /\ Leave(w, status[day[w]])
        /\ UNCHANGED <<status, published>>
  /\ UNCHANGED <<articles, batches, summarised, cited, faults, overlapped>>

Publish(w) ==
  /\ pc[w] = "execute"
  /\ Runs!Publish(day[w])
  /\ cited' = [cited EXCEPT ![day[w]] = chosen[w]]
  /\ Goto(w, "finish")
  /\ UNCHANGED <<articles, batches, summarised, locals, faults, overlapped>>

\* The run succeeds; the call reads the brief and returns.
Succeed(w) ==
  /\ pc[w] = "finish"
  /\ Runs!Succeed(day[w])
  /\ Leave(w, "succeeded")
  /\ UNCHANGED <<articles, batches, summarised, cited, faults, overlapped>>

-----------------------------------------------------------------------------
Fault(kind) ==
  /\ kind \in FaultKinds
  /\ faults < MaxFaults
  /\ faults' = faults + 1

\* A provider or database error: no step of the pipeline catches it ...
Raise(w) ==
  /\ pc[w] \in Preparing
  /\ Fault("raise")
  /\ Leave(w, "raised")
  /\ UNCHANGED <<tables, overlapped>>

\* ... but the runner records it on the run it owns.
RunFails(w) ==
  /\ pc[w] \in Owning
  /\ Fault("raise")
  /\ Runs!Abort(day[w])
  /\ Leave(w, "raised")
  /\ UNCHANGED <<articles, batches, summarised, cited, overlapped>>

\* The process dies or the task is cancelled.
Crash(w) ==
  /\ pc[w] # "idle"
  /\ Fault("crash")
  /\ Leave(w, "crashed")
  /\ UNCHANGED <<tables, overlapped>>

Step(w) ==
  \/ List(w) \/ SaveBatches(w) \/ BatchConflict(w)
  \/ Lookup(w) \/ Store(w) \/ Skip(w) \/ Select(w) \/ Report(w)
  \/ EnsureRun(w) \/ Claim(w) \/ Publish(w) \/ Succeed(w)

Disturb(w) == Raise(w) \/ RunFails(w) \/ Crash(w)

Next ==
  \/ \E a \in Articles : Capture(a)
  \/ \E w \in Workers :
       \/ \E d \in Days : Call(w, d)
       \/ Step(w)
       \/ Disturb(w)

Spec == Init /\ [][Next]_vars

\* The event loop keeps running every call that can proceed.
FairSpec == Spec /\ \A w \in Workers : WF_vars(Step(w))

\* Moreover the pipeline keeps being asked for every date.
RetrySpec == FairSpec /\ \A w \in Workers, d \in Days : SF_vars(Call(w, d))

-----------------------------------------------------------------------------
(***************************************************************************)
(* Properties.                                                             *)
(***************************************************************************)
\* "Never assigns an article to more than one batch" (section 3.5 of
\* 2026-07-13-rss-daily-brief-design.md).
ArticlesBatchedOnce == \A b, c \in batches : b # c => b \cap c = {}

\* The promise is kept, through faults, retries and later articles, as long as
\* no call reads the eligible articles between the read and the save of
\* another (the two transactions of DailyBriefPipeline.run).
BatchedOnceUnlessOverlapped == ~overlapped => ArticlesBatchedOnce

\* A brief cites stored summaries only, each with news of its own date and
\* none from a later one (no look-ahead); so no summary is in two briefs.
EvidenceOfDay ==
  \A d \in Days : \A b \in cited[d] : b \in summarised /\ NewsOf(b, d)

\* No brief is written, and no run is even created, from nothing: a date with
\* a run has a stored summary with news of that date, and its brief cites one.
RunsHaveEvidence ==
  \A d \in Days :
    /\ status[d] # "absent" => \E b \in summarised : d \in Dates(b)
    /\ d \in published => cited[d] # {}

\* A retry of a date whose run has ended reports that run's status (unless a
\* fault ends it), not a day without content, although the date's articles are
\* no longer eligible.
RetryReportsRun ==
  \A w \in Workers :
    seen[w] \in {"succeeded", "failed"} => answer[w] \in {seen[w], "none", "raised", "crashed"}

\* The strengthening under which these are inductive: what a call may rely on
\* about the tables at each place.
CallsSound ==
  \A w \in Workers :
    /\ pc[w] # "idle" => day[w] \in Days
    /\ pc[w] = "idle" => chosen[w] = {}
    /\ pc[w] \in {"lookup", "store"} => todo[w] \subseteq batches
    /\ ready[w] \subseteq summarised
    /\ pc[w] = "select" => todo[w] \subseteq summarised
    /\ \A b \in chosen[w] : b \in summarised /\ NewsOf(b, day[w])
    /\ pc[w] = "run" /\ chosen[w] = {} => status[day[w]] \in {"succeeded", "failed"}
    /\ pc[w] \in {"claim", "execute"} => chosen[w] # {}
    /\ pc[w] # "idle" /\ seen[w] \in {"succeeded", "failed"} => status[day[w]] = seen[w]
    /\ pc[w] # "idle" => answer[w] = "none"

PipelineInv == CallsSound /\ EvidenceOfDay /\ RunsHaveEvidence /\ RetryReportsRun

\* And without an overlap: one call at most is about to save, and it holds
\* disjoint batches of unbatched articles.
SavesUnbatched ==
  ~overlapped =>
    \A w \in Workers : pc[w] = "save" =>
      /\ \A v \in Workers : pc[v] = "save" => v = w
      /\ \A g \in todo[w] : \A h \in todo[w] \cup batches : g # h => g \cap h = {}

\* Every call is answered, whatever the model returns and whoever else runs.
CallsAnswered == \A w \in Workers : pc[w] # "idle" ~> pc[w] = "idle"

\* "Three or more eligible articles form deterministic persisted batches":
\* articles that make a batch do not stay unbatched while the date is asked for.
GroupsGetBatched ==
  \A d \in Days : Batching[Unbatched(d)] # {} ~> Batching[Unbatched(d)] = {}

\* "Pipeline retry reuses articles, batches, summaries, and terminal workflow
\* runs": a batch left without a summary by a failed call gets one by a retry.
RetryReusesBatches == \A b \in SUBSET Articles : b \in batches ~> b \in summarised
=============================================================================

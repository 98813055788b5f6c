# A TLA+ verification of AgenticAnalyst

AgenticAnalyst polls RSS feeds, groups the articles of a topic into batches,
has a model summarise each batch, and writes daily, weekly and monthly briefs
whose narrative builds on earlier ones. This directory holds TLA+ modules of
its core, the TLC configurations that check them on small instances, and TLAPS
proofs of what matters most for instances of any size. Paths below are relative
to the repository's root; `analyst_engine/` stands for `src/analyst_engine/`.

## Running

    tlc -workers 2 -config RunnerSafety.cfg MCWorkflowRunner     # any run of the table below
    tlapm WorkflowRunnerProofs.tla
    tlapm DailyPipelineProofs.tla
    tlapm PeriodicPipelineProofs.tla
    tlapm FeedPollingProofs.tla
    tlapm ScheduleProofs.tla
    tlapm BatcherProofs.tla
    tlapm BriefViewerProofs.tla
    tlapm LeastElements.tla

Every run takes two minutes at most with two workers, most a few seconds.

## The system

One asyncio process (or an API process and a scheduler process) over one
PostgreSQL database. There are no locks in the program: what keeps concurrent
calls apart is the database (unique keys, row locks, conditional updates), and
every `await` lets another call in.

| component | state it keeps | operations | hard behaviour | correct when |
|---|---|---|---|---|
| **Workflow runner** `workflows/runner.py`, `workflows/graphs.py`, `persistence/repositories.py` | `workflow_run`, `narrative_state_version`, `brief`, LangGraph checkpoints | `run_daily`, `run_weekly`, `run_monthly`: ensure a row, claim it, load the narrative, call the model, write the brief, finish | duplicate triggers, crash between two transactions, failure after the brief is committed, context that is stale when it is used | one brief for an interval, one worker for a run, final states final, briefs build on their own past |
| **Daily pipeline** `pipeline/daily_brief.py` | `article`, `article_batch`, `batch_summary`, citations of briefs | poll, list unbatched, batch, summarise, select, run | list and save are separate transactions, retries after a partial failure, a full cap | an article in one batch, no brief without evidence of its date, a retry reports what was done |
| **Title batcher** `batching/batcher.py` | none | `batch_articles` | size limits, order, stability of keys | every article placed once, later articles leave earlier groups alone |
| **Batch summariser** `summarization/` | none | `summarize_batch` | an invalid answer of the model | only articles of the batch are cited |
| **Weekly and monthly pipeline** `pipeline/periodic_brief.py` | citations of briefs | select summaries of a window, run | adjacent windows at once, a query that expects one row at most | a summary is in one brief of a cadence |
| **Ingestion** `ingestion/service.py` | `article`, `ingestion_attempt` | candidate to article or attempt, file upload | two inserts of one URL, fallback extraction | one article for a URL, each candidate accounted for |
| **Feed polling and registration** `ingestion/feed_client.py`, `api/app.py` | `source`, `source_feed` | register, list due, fetch, ingest, save validators | validators saved before ingestion, a stale row written back, errors of an unknown kind | no candidate lost that can be read and stored, a disabled feed stays disabled |
| **Bounded fetch, canonical URLs** `ingestion/bounded_http.py`, `ingestion/canonicalize.py` | none | stream with limits, normalise | redirect and size limits | the bound on redirects kept, a refused URL final, no article lost to the fallback |
| **Topics** `topics/`, `persistence/repositories.py` | `topic` | create, update, delete, match | delete against inserts of dependents, tables without a foreign key | no dependent, run, summary or brief without its topic |
| **Scheduling** `scheduling.py`, `main.py` | scheduler jobs | cron jobs ask for windows, topic by topic | a job that runs before its window has ended, jobs that overlap, one topic of several failing, lost triggers | what is summarised when a job starts is in its brief, whatever happens to other topics |
| **Runtime** `runtime.py` | open resources | build, close | failed close, second close | each resource closed once |
| **HTTP API** `api/` | none of its own | triggers, registration, reads | manual triggers beside scheduled ones | as the components it calls |
| **Model gateway** `models/` | none | `complete`, `embed` | errors, retryable or not | errors surface as documented |
| **Archive** `workflows/graphs.py`, `api/app.py` | `brief`, `embedding` | embed, insert behind a SAVEPOINT, list, read, search | an embedding that cannot be had or stored | it never costs a brief |
| **Web front end** `frontend/src/App.tsx` | selection, lists, loading flags | switch, select, load | answers that arrive late | what is shown belongs to the selection |

How they interact: the scheduler, the API and the command line call the
pipelines; the daily pipeline calls ingestion, the batcher, the summariser and
the runner, and the periodic pipelines call the runner; the runner calls the
model gateway; all of them share the tables. `PROJECT.json` lists each
component with its status, and each hazard at its line with the properties that
watch it.

## The modules

    RunLedger      what readers of workflow_run and brief may rely on
      ^ implemented by   ^ used as a component by
    WorkflowRunner       DailyPipeline, PeriodicPipeline
    Batcher              keeps the contract that DailyPipeline assumes of it
    FeedPolling          what DailyPipeline sees as Capture
    Extraction           what FeedPolling sees as Insert or ExtractFails
    TopicRegistry        the topics that Schedule's jobs go through
      ^ extended by
    Schedule             the calls that the pipelines see as Call
    BriefArchive         the brief's way into the database and out again
      ^ extended by
    BriefViewer          the page that reads it

`MC<module>` instantiates a module for TLC, `<module>Proofs` holds its theorems;
those of `Extraction`, which `MCBatcher` checks, are in `BatcherProofs`.
`LeastElements` has the lemmas that several of the proofs need: that there is a
least number, a smallest set, an element that nothing is above.

**RunLedger** is the abstract specification: for each key one status that moves
`absent -> pending -> running -> succeeded | failed`, and a publication that is
made while the run is running and is there before the run succeeds.
Both pipelines run on top of it and are proved to change the tables in no other
way (`PipelineKeepsLedger`), and `WorkflowRunner` is proved to implement it
(`RunnerImplementsLedger`), so the pipelines' results hold of a pipeline over
the real runner as far as the tables are concerned.

**WorkflowRunner** has one action for every transaction, for the model call and
for the exception handler of `WorkflowRunner._execute`. A worker is one call.

| action | code |
|---|---|
| `Call` | `run_daily`, `run_weekly`, `run_monthly` |
| `Lookup`, `Insert`, `Reread` | the three transactions of `_ensure_run`; `Insert` is refused by the unique idempotency key if another call was faster |
| `Claim`, `ReadWinner` | the conditional `UPDATE` of `claim_pending_workflow_run`; the loser's second read |
| `LoadContext` | `get_narrative_version_as_of`, in a transaction of its own |
| `Generate` | `_frontier_synthesis` enters `gateway.generate`, which `calls` counts whatever becomes of the call |
| `DraftRows` | the model's answer is read, the drafts get their `created_at` |
| `Commit` | the synthesis transaction of `_build_graph` |
| `Finish` | `update_workflow_run(SUCCEEDED)` |
| `TryFails`, `MarkFailed` | anything the `try` block raises; the handler, which suppresses the errors of its own update |
| `TxFails`, `InsertAckLost`, `ClaimAckLost`, `CommitAckLost`, `FinishAckLost`, `Crash` | infrastructure faults: a transaction outside the `try` block fails, a commit takes effect and is not acknowledged, the process dies or the task is cancelled (`CancelledError` is not an `Exception`) |

A row is named by its idempotency key, a narrative by the key of the run that
made it, and `created_at` by a counter of drafts (equal time stamps do not
occur). The history variable `before` records what was briefed when a run was
claimed, and `calls` how often `gateway.generate` was entered for each run. That
is not the number of requests sent: the clients of the adapters resend one that
timed out or was answered with a server error (`max_retries`, `dashscope.py:61`,
`openrouter.py:30`), and what they resend is inside `gateway.generate`. Left out: the text of prompts and answers, the prior briefs that only
feed the prompt, expectations (they are written in the brief's transaction),
checkpoints (nothing reads them back: a run is never resumed) and the
embedding, which is in BriefArchive.

**Batcher** is `batch_articles` for an arbitrary symmetric similarity relation
instead of the Jaccard quotient of title tokens. Articles are numbered in the
sort order of the code, so a batch is a set. The loop is a recursive function.

**DailyPipeline** has one action for every transaction and provider call of
`DailyBriefPipeline.run`, for one topic. `Capture` stands for everything that
inserts an article, the call's own poll included, so articles may arrive at any
point. A batch is named by its articles, as its key is in the code (there it is
also derived from the grouping settings and the prompt version, which do not
change while the process runs). The grouping is any function with the contract
`BatchingAssumption`: non-empty disjoint sets of the given articles. TLC
instantiates it with `Batcher`'s own definition and evaluates the assumption;
the theorem `BatchesKeepContract` proves it of `Batcher` for every relation. Left out: the counters
of the result, and articles in a language that is not allowed, which the query
for unbatched articles never returns (they are never in `Articles`).

**PeriodicPipeline** is `PeriodicBriefPipeline.run` for one topic and one of
the two cadences, which share the code. A window is a week or a month and is
named, not computed from an anchor date; `Spans[s]` are the windows in which
the batch of summary `s` has an article.

| action | code |
|---|---|
| `Summarise` | external to this module: a daily pipeline stores a summary |
| `Call`, `List` | entry; `list_eligible_batch_summaries_for_window` |
| `Check`, `CheckRaises` | one turn of the selection loop, `is_batch_summary_cited`; its `scalar_one_or_none` raises when two other briefs of the cadence cite the summary |
| `Report` | nothing selected: no content, or on to the runner if the window's run has ended |
| `Run`, `Publish`, `Succeed` | `run_weekly` or `run_monthly` on the ledger, and the brief read back |
| `Raise`, `RunFails`, `Crash` | a failing transaction before the run is claimed; any error after it, which the runner records; the process dies |

**FeedPolling** is `ingestion/service.py` with the two ways into it, the feed
loop of the daily pipeline and the routes that add articles directly, beside
`POST /sources`. It is about one topic. A call is a poll of the oldest due
feeds, one after the other, or one direct add.

| action | code |
|---|---|
| `NewDocument`, `IntervalPasses` | external: a publisher's server, time |
| `Register` | `register_source`: `upsert_source_feed` with a fresh row, which also forgets the validator and the time of the last poll |
| `Poll` | `list_due_source_feeds`, cut to `max_feeds_per_run`; the rows it read are kept until each is written |
| `Fetch`, `FetchRaises` | `FeedClient.fetch` and `parse_feed`: a document, 304, an error of a known class; an error of another class, which ends the call |
| `Save` | `upsert_source_feed` of the whole row as read, with its new validator |
| `Submit` | `ingest_urls`, `ingest_file`, one entry of it |
| `Reject`, `CheckDuplicate`, `RecordDuplicate`, `ExtractFails`, `Insert`, `InsertRefused`, `Reload` | the transactions of `_ingest_candidate` and `_finalize_extracted` |
| `Drop` | an exception of `_ingest_candidate` that the URL or the article itself causes and nothing in it catches: no attempt, and the loop goes on |
| `CandidateFails`, `CallDies` | the same after a database error; an error outside the loop over the candidates, or a crash |

What decides whether a text is an article is the choice between `Insert` and
`ExtractFails`, which **Extraction** makes in detail. A row keeps `enabled`, which stands for
the poll interval as well (both are settings, written in the same place), and
the validator, which is the number of the document it came with; `last_polled_at`
is an order of the feeds, `before`, and the feeds polled within their interval,
`recent`. The code writes the time at which the poll of the feed began; the
model orders by the write. `wanted` and `disturbed` are history variables: how a
feed was last registered, and whether a poll held its row at that time. A
registration names one feed, and the entries that users add share their names
with those of feeds, which only identifies a page with itself.

**Extraction** is the way of one candidate from its URL to an article or an
error code: `bounded_fetch` with its redirects, the two extractors, and the
handlers of `_ingest_candidate` that decide who is asked next. Servers and
resolvers may answer anew at each request, so an address may be refused at any
of them.

| action | code |
|---|---|
| `Begin` | `canonicalize_url` of the candidate |
| `Pin` | `_pin_to_validated_address`, then the request |
| `Redirected` | a redirect: its target is canonicalised, then the hops are compared with `MAX_REDIRECTS` |
| `Unanswered`, `Answered` | the other ends of `PrimaryHttpExtractor.extract`; a page is good, without a title, or short |
| `SecondOpinion` | the fallback after a page that lacked something; its `ExtractionFailedError` is swallowed |
| `Rescue` | the fallback after the primary extractor failed |
| `Finalize` | the checks of `_finalize_extracted`; the insert that follows is in FeedPolling |

The canonical form of a URL, which addresses are refused and the cleaning of
HTML are choices between outcomes. An exception of the second opinion that is no
`ExtractionFailedError` lands in the handler meant for the primary extractor,
which asks the fallback once more and blames the primary: `crawls` counts that.
It shares no variable with the batcher; `MCBatcher` runs both in one model
without interleaving them.

**TopicRegistry** has `CreateTopic`, `CheckDelete` (the two queries of
`delete_topic`) and `Delete` (its `DELETE`, which the foreign keys `ON DELETE
RESTRICT` may refuse), and `Refer`, the insert of a row with such a key. A
delete that is refused after its check is answered with 500, not 409. Editing a
topic changes texts only.

**Schedule** is `register_schedules` and `run_scheduler` over that registry.
Time is a day and one of four hours: midnight and those of the triggers. A story
breaks at a given day and hour and is captured then, so its publication and its
capture are of one day. A pipeline call is one step when it begins, which reads
`date.today()`, and one when it ends, with the effect on batches, summaries and
runs that the modules above show in detail: a daily call may batch any of the
eligible articles, and a batch may be left without a summary.

| action | code |
|---|---|
| `Tick` | time passes; triggers fire, or are lost while the process is down or while the same job is still at work |
| `Fire` | a job lists the topics |
| `BeginCall`, `EndCall` | `pipeline.run(date.today(), topic_id=topic.id)` for the next topic |
| `CallRaises` | the call fails anywhere; the loop logs it and goes on |
| `Skip` | a job beyond its grace time, or without a list of topics, since `list_topics` is outside the `try` |
| `Trigger` | a manual call for any topic and date |
| `Stop`, `Restart` | the process ends, by shutdown or crash, and starts again with triggers in memory only |
| `Break` | an article arrives |

`missed` and `excused` are history variables: whether a job was skipped, cut
short or still at work at midnight, and the topics a call failed for or was
triggered by hand.

**BriefArchive** is the end of `synthesize` (`Embed` before the transaction,
`InsertBrief`, `StageEmbedding` or `EmbeddingRefused` behind the SAVEPOINT,
`CommitBrief`, `CommitAckLost`, `SynthesisFails`) and what the read routes see: `Listing`,
`Readable`, `Searchable`. The limits on the number of results, the similarity
order and the resolution of citations are left out.

**BriefViewer** is `App.tsx`. An action is a click or one response with the
handlers it runs.

| action | code |
|---|---|
| `TopicsLoaded`, `TopicsFail` | the effect on mount; nothing asks again |
| `NewTopic`, `TopicCreated` | the onboarding flow and `handleTopicCreated`, which selects the topic and leaves the detail pane as it is |
| `SelectTopic`, `ChangeCadence` | `handleTopicSelect`, `handleCadenceChange`: both reset the pane, except `detailLoading` |
| `Refetch` (in these), `ListAnswered`, `ListFails` | the list effect, its cancellation flag as the number of the current run |
| `PickBrief`, `DetailAnswered`, `DetailFails` | `handleSelectBrief`, whose guard compares ids and not requests |

`strayed` is a history variable: a topic was created since the last pick or
switch. The settings view, the forms and the list of ingestion attempts share
no state with these.

## What is checked

Nine runs pass. The other three (`RunnerResume`, `PipelineRetry`,
`MonthUnbriefed`) end in the counterexamples described in the next section.

| run | instance | properties |
|---|---|---|
| RunnerSafety | 2 calls; a daily interval, the weekly one that ends on the same day, the next day; 1 fault | `TypeOK` `SingleOwner` `OneBriefPerRun` `AnswersDurable` `RereadFindsRun` `LineageSound` `NarrativeCurrent` `RunningIsOwned` `ModelCalledOnce` `ImplementsLedger` |
| RunnerLiveness | 2 calls; one interval of each of two topics, asked for again and again; 1 fault | `CallsAnswered` `RunningTerminates` `PendingStarts` |
| BatcherGreedy | 5 articles, 2 languages, every similarity relation, every order of capture; one candidate, up to 5 redirects | `EveryArticlePlacedOnce` `GreedyByDefinition` `LaterArticleIsLocal` `ExtractionSound` |
| PipelineCalls | 2 calls for 2 dates again and again, 3 articles arriving at any time, 1 fault, invalid answers without bound | `TypeOK` `EvidenceOfDay` `RunsHaveEvidence` `RetryReportsRun` `BatchedOnceUnlessOverlapped` `CallsAnswered` `GroupsGetBatched` |
| PeriodicRetries | 2 calls again and again, 3 windows, a story over all of them and one of the last, 1 fault | `TypeOK` `EvidenceOfWindow` `CitedOnceUnlessOverlapped` `RetryReportsRun` `EvidenceStartsRun` |
| FeedsSafety | 2 calls, 3 feeds of which 2 are polled at a time and 1 raises, one story under 3 entries, one of which cannot be stored, and an entry whose URL does not parse, 1 registration, 1 fault | `TypeOK` `AttemptsTruthful` `CandidatesAccounted` `SettingsKept` |
| FeedsPolled | 2 calls again and again, 3 feeds, 2 at a time, 1 fault | `DueFeedsPolled` |
| ScheduledJobs | 3 days over the end of a week and of a month, 2 topics of which 1 is created, 3 stories, 1 disturbance | `HistoryHasTopic` `ReadyNewsIsBriefed` |
| BriefsRead | 5 briefs of which 1 is being written, 2 tabs, 2 topics of which 1 is created, 3 list and 3 detail requests | `EmbeddingIsOptional` `PaneShowsPick` `ListBelongsToTab` `PanesSettle` |

Why these bounds are enough to be interesting. Two calls suffice for every race
in the code, which are all between one reader and one writer of a row; both
losing branches (the insert and the claim) are reached, and so is a third party
because a worker that has left may call again. Three intervals are the least
with which the order of narratives (`covered_end`, then `created_at`) has a tie
to break. One fault may hit any step, and what follows is a full retry; a
second fault adds nothing that the proofs do not cover. Three articles with
batches of two to three (`MinBatch`, `MaxBatch`; three to five in the code)
give a full batch, one that leaves the third article for later, a batch of one
date only, a batch across two dates and overlapping alternatives; five articles
for the batcher alone give two groups in one language. Three windows are the least with which a third call meets two other
briefs that cite one summary. Three feeds with two a call are the least with
which a call has a next feed and another feed is left out; two documents of one
feed, off topic and on topic, another feed and a user bring in one story, so
every pair of sources can race for it. Feed 1 sends it together with an entry whose
URL does not parse, and one of its entries has a value that no column takes when a
user adds it (`Unhandled`). The two calls are interchangeable, so the run uses their
symmetry. `MaxRegistrations` bounds the
registrations; `revision` is bounded by the documents. `MaxFaults` bounds the faults; `faults` is otherwise unused, except
that `RunningIsOwned`, `RunningTerminates` and `CandidatesAccounted` are claims
about executions without infrastructure faults. `clock` and
`calls` need no bound: a run is claimed once.
`WeekLength` is 3 instead of 7 so that the end of a week, the first of a month
and a day on both sides of them fit between `FirstDay` and `LastDay`; all three
jobs fire on day 5. `News` has a story before and one after the daily job of a
day, and a second topic that fails or is created meanwhile. `MaxDisturbances`
bounds failed calls, skipped jobs, manual triggers and stops together; the
theorem has no such bound. `MaxLists` and `MaxClicks` are the requests of a
session: three of each give a response that is late, one that is current and
one that is for the brief picked first and picked again. `MaxRedirects` is the
code's 5. Deadlock is not checked where the system may stop: at the last day
(ScheduledJobs, MonthUnbriefed), after the last request or when the topics could
not be loaded (BriefsRead), and when all articles are captured (BatcherGreedy).

Fairness. `FairSpec` gives weak fairness to the steps of every call under way:
the event loop runs every task that can proceed, database and provider calls
have timeouts or raise, and no step of the code waits for another call.
`RetrySpec` adds that somebody keeps asking for every interval (the scheduler's
jobs and the API do), each interval or window for itself; it is strong fairness
of `Call` because a worker is free only now and then. For feeds it is strong
fairness of some worker's `Poll`, which the daily job of the topic provides;
none is given to `IntervalPasses`, `NewDocument`, registrations or direct adds. For the page it is
weak fairness of each request's response: a `fetch` settles in the end, one way or
the other. No fairness is given to clicks, to faults, to `Capture` or to a choice
between outcomes of a step: `TryFails` may happen at any time, and a model may
return invalid summaries for ever.

Every property has a mutant: a definition next to the one it replaces, with the
comment `Mutant`, which changes the model the way a plausible bug would and
makes the property fail in its run.

## Where code and documents disagree

Three statements of the design documents have a run whose counterexample shows
that they do not hold of the code.

- **RunnerResume / `InterruptedRunResumes`.** The design says an interrupted
  graph can resume from its checkpoint. The runner claims only `PENDING` rows
  and returns a `RUNNING` one to every caller (`runner.py:129`): after a crash
  past the claim (or a claim whose commit was not acknowledged) the interval
  never gets a brief. `RunningIsOwned` and `RunningTerminates` say that nothing
  else leaves a run behind; `PendingStarts` says that a crash before the claim
  is harmless.
- **PipelineRetry / `RetryReusesBatches`.** A retry does not reuse the batches
  of a call that failed after saving them: it starts from articles in no batch
  (`daily_brief.py:98`), so they get no summary and appear in no brief.
- **MonthUnbriefed / `ActiveMonthIsBriefed`.** A month with weekly activity
  "produces one durable Monthly Brief". The monthly job runs on the first and
  asks for `date.today()` (`scheduling.py:64`), so for the month that begins and
  never for the one that has ended: its brief has what was summarised in its
  first hours, or there is none. `ReadyNewsIsBriefed` says what the jobs do
  achieve.

More of the kind came up while modelling, and has no run of its own:

- The daily job asks at 02:00 for the date that begins, and a brief needs news
  of its own date. News captured after 02:00 is batched by the next day's call,
  without news of that day, and gets into no daily brief, where the topic design
  says of added articles that "they appear in the next scheduled brief"
  (`2026-07-16-topic-first-analyst-design.md:385`). The weekly job on Sunday at
  03:00 likewise misses what is summarised later that day, since its run is then
  final.
- The batcher "never assigns an article to more than one batch"
  (`2026-07-13-rss-daily-brief-design.md:127`); two calls that overlap between
  list and save do, since only the exact list of members is unique.
  `BatchedOnceUnlessOverlapped` says that this overlap is the only way.
- `is_batch_summary_cited` expects at most one other brief of the cadence to
  cite a summary (`repositories.py:1181`, `scalar_one_or_none`), yet two
  overlapping calls for adjacent weeks can both cite a summary that spans them.
  From then on every call for a third week with an article of that batch raises,
  and nothing is recorded. `EvidenceStartsRun` says that this is the only way
  for fresh evidence to be left without a run.
- A failing feed is to be marked failed "while other feeds continue"
  (`2026-07-13-rss-daily-brief-design.md:82`). `bounded_fetch` names only
  time-outs and network errors of the client library (`bounded_http.py:154`);
  another transport error, such as a server that breaks the protocol, passes
  through `poll_feed` and ends the daily pipeline. The feed's `last_polled_at`
  is not written, so every later call meets it first again. With errors of known
  classes only (no feed in `Broken`), every due feed gets its turn: FeedsPolled.

More limits are stated by the properties that hold around them.
`GroupsGetBatched` holds with room for every article: the cap takes the oldest
unbatched articles (`daily_brief.py:105`), and leftovers that match nothing stay
the oldest, so once they fill the cap no later article is considered.
`CandidatesAccounted` is about executions without faults: the validator is
saved before the candidates are ingested (the design lists the opposite order),
so after a crash in between the server answers 304 and the candidates are gone.
It excepts the candidates in `Unhandled`, which go that way without any fault.
`_ingest_candidate` records only what it names: `UrlValidationError`
(`service.py:364`) and the failures of the extractors. `canonicalize_url` also
raises a plain `ValueError` or `UnicodeError` for a URL that `urlparse`, its `port`
or the name resolution cannot read (`canonicalize.py:74`, `107`, `126`), and the
insert a `DataError` for an article with, say, a language longer than its column
(`models.py:78`). Both end at `service.py:156` as `unexpected_error` in the result
of the call, without an attempt, where the comment at `service.py:39` finds
"silent drops are undebuggable". What the property says of them is that
they take no other candidate of their document with them. The attempt itself is
taken to be storable: a candidate's own URL holds no character that its column
refuses.
`SettingsKept` excepts feeds registered while a poll holds their row: the poll
writes back what it read, and a feed that was disabled meanwhile is enabled
again. `ReadyNewsIsBriefed` excepts executions that lost a trigger, which nothing
repeats. `PanesSettle` excepts a pick that the reader switches away from: then no
response clears `detailLoading`, and the pane loads until another brief is
picked. `PaneShowsPick` excepts the topic created while a brief is shown, which
leaves that brief of another topic on the page. `Listing` leaves out briefs whose
window ends after today (`app.py:797`), so a weekly or monthly brief made during
its window is readable and in no list until the window is over.

## What is proved

The proofs hold for any sets of workers, keys, dates and articles, any number
of faults and any interleaving. They assume `KeysAssumption` and
`FaultsAssumption` (intervals are not empty, faults are of the listed kinds)
and, for the pipeline, `PipelineAssumption` (articles are numbered by date) and
`BatchingAssumption` (the contract of the batcher). `PeriodicAssumption` only
says what the constants are, and `FeedsAssumption` that every feed has a
document and there are finitely many feeds. `BatcherAssumption` says that there
are finitely many articles and that the sizes of a batch are sensible. `RegistryAssumption`,
`ScheduleAssumption` (topics and days are numbered, each day lies in a month and
in a week), `ExtractionAssumption`, `ArchiveAssumption` and `ViewerAssumption`
say what the constants are.

| module | theorems | by the invariant |
|---|---|---|
| WorkflowRunnerProofs | `TypeCorrect` | `TypeOK` with the place of each execution |
| | `SingleOwnerHolds` `OneBriefPerRunHolds` `SucceededHasBriefHolds` `AnswersDurableHolds` `RereadFindsRunHolds` | `RunInv` |
| | `RunnerImplementsLedger` | each action is mapped to `Create`, `Begin`, `Publish`, `Succeed`, `Abort` or a stutter, given `RunInv` |
| | `TerminalIsFinalHolds` | step by step from `RunInv` |
| | `LineageSoundHolds` `NarrativeCurrentHolds` | a lineage invariant about the narrative each execution holds |
| | `RunningIsOwnedHolds` | itself with `RunInv` |
| | `ModelCalledOnceHolds` | `CallsInv`: no call for a run that was not claimed, nor for one whose owner is not past the call, and one at most |
| | `CallsUnblocked` `StepsAdvance` | `RunInv` with `StampsApart` (drafts have different time stamps); the steps an execution has left |
| DailyPipelineProofs | `TypeCorrect` | `TypeOK` with stored batches under each loop |
| | `EvidenceOfDayHolds` `RunsHaveEvidenceHolds` `RetryReportsRunHolds` | `PipelineInv` |
| | `BatchedOnceUnlessOverlappedHolds` | itself with `SavesUnbatched` |
| | `CitedByOneBrief` | follows from `EvidenceOfDay` |
| | `PipelineKeepsLedger` | each action is mapped to one of `RunLedger` or a stutter |
| | `CallsUnblocked` `StepsAdvance` | `LoopsSound` (batches in a loop are disjoint) and `OwnsRun`; the part of `run` and the batches left |
| PeriodicPipelineProofs | `TypeCorrect` | `TypeOK` |
| | `EvidenceOfWindowHolds` `RetryReportsRunHolds` | `PeriodicInv` |
| | `CitedOnceUnlessOverlappedHolds` | itself with `ChosenFresh` |
| | `PipelineKeepsLedger` | each action is mapped to one of `RunLedger` or a stutter |
| | `CallsUnblocked` `StepsAdvance` | `PeriodicInv` with `OwnsRun`; the part of `run` and the candidates left |
| FeedPollingProofs | `TypeCorrect` | `TypeOK` with `CallsSound` and a document for each revision |
| | `AttemptsTruthfulHolds` | itself with `CallsSound`: who is to record a duplicate has seen the article |
| | `SettingsKeptHolds` | itself with `SettingsHeld`, the rows that polls hold |
| | `CandidatesAccountedHolds` | itself with `HeldAccounted`, the validators that polls hold |
| | `CallsUnblocked` `StepsAdvance` | `LoopsSound` (the times of polls order the feeds, whoever writes them); feeds, candidates and places left |
| ScheduleProofs | `TypeCorrect` | `TypeOK` with topics left in every loop |
| | `HistoryKeepsTopics` | every story captured, and what is made of it, has a topic that something refers to, so that its `DELETE` is refused |
| | `NewsIsBriefed` | `BriefInv` |
| BatcherProofs | `EveryArticlePlacedOnceHolds` `GreedyByDefinitionHolds` | `Divides` and `Greedy`, for every pool of articles |
| | `LaterArticleIsLocalHolds` | `Local`, for every pool and every article later than it |
| | `BatchesKeepContract` | `Divides`; it is the `BatchingAssumption` of DailyPipeline |
| | `ExtractionTypeCorrect` `ExtractionSoundHolds` | `StageSound`, what the handler may rely on at each stage |
| BriefViewerProofs | `TypeCorrect` | `TypeOK` with `Selected`: who browses has a topic selected |
| | `EmbeddingIsOptionalHolds` | `ArchiveInv`: only a synthesis that has ended can have committed, well or with the acknowledgement lost |
| | `ListBelongsToTabHolds` | `ListInv`: the current request asks for what is selected |
| | `PaneShowsPickHolds` | `PaneInv`: the awaited answer is that of the highlighted brief |

None of these properties is inductive by itself. That a run has one owner
depends on what the owner's place in the code says about the row; that a
succeeded run has a brief depends on `finish` being reached only after the
commit; that a caller is told the truth depends on the loser of a claim having
seen a row that is no longer pending. `ProgressAgrees` collects what an
execution may rely on at each place of the code, and `RunInv` is the
conjunction that one step preserves. For the lineage, an execution's loaded
narrative must stay a committed row that precedes its run, and its draft must
be later than that row; for currency, everything briefed at the claim must be
no newer than what was loaded, which holds since rows are only added. In the
pipeline `CallsSound` does the same for the locals of a call: the batches in a
loop are stored, what was chosen has news of the call's date, and the run is
reached with nothing chosen only if it has ended. `CallsSound` of the periodic
pipeline is of the same kind; `ChosenFresh` says that as long as no two calls
have overlapped, what a call has chosen is cited by no other brief until its
own commit.

`BriefInv` is the argument for the scheduler, as long as no trigger was lost.
`JobsOnTime`: a job that is due or at work is one of today's, its hour has come,
and the date of its call is today. `RunByJob`: except for excused topics, a run
was started by the job of its window, so that job finds it absent. `Briefed`: a
summary that was ready for the job of a window is cited once that job is past
its topic. The property is the case in which the day is over. A call that fails
excuses its own topic only, which is where `Survive` enters.

`ModelCalledOnce` is about each run: the model is entered for it once at most,
and never before its claim. The call that would be the second needs an owner
about to call, so `CallsInv` says that there is none for a run whose call was made; it holds
since a run has one owner, is claimed once, and its owner never goes back.
`RunningIsOwned` needs `RunInv` for the handler of the `try` block: a row that
is still running when its owner leaves would contradict what the owner's place
says about it.

The loop of the batcher is a recursive function over sets of articles, and the
induction theorems of the library cannot be used (they take an operator as a
parameter). `BatcherProofs` argues by a smallest counterexample instead: of the
pools a property does not hold of, `MinimalExists` gives a smallest one; the
loop takes one group out of it, what remains is smaller, so the property holds
there, and one turn carries it back. That the recursive function exists at all
is proved in the same way, over the pools the loop can reach. `Divides` says that
the groups are non-empty, disjoint and together the pool; `Greedy` that each article
is with the earliest seed that takes it and has room; `Local` that a later
article changes one group at most.

That a call comes to its end has two halves that need no fairness, and they are
proved. `CallsUnblocked` says that wherever a call is, what it looks for is
there: the next batch, feed or candidate is exactly one, the row it reads again
exists, the narrative to build on is one, and the transactions of the run it owns
find the row and the brief as they expect them, whatever other calls have done.
`StepsAdvance` says that each step of a call takes it forward in a well-founded
order (a later part of the code, fewer items left in its loop) and that no step of
another call takes it back. For feeds both depend on `last_polled_at` staying an
order of the feeds while polls and registrations move them. What is left to TLC
is the step from both to "eventually", which needs the fairness rule.

Only model-checked: the liveness properties themselves (`CallsAnswered`,
`RunningTerminates`, `PendingStarts`, `GroupsGetBatched`, `EvidenceStartsRun`,
`DueFeedsPolled`, `PanesSettle`), since the prover has no reasoning about
fairness or `ENABLED`. Every invariant and every action property of a passing run is
proved. `ActiveMonthIsBriefed`, `RetryReusesBatches` and `InterruptedRunResumes`
are refuted and have no proof.

## What is not modelled

Text processing (feeds, HTML, PDF, prompts, keyword matching, the canonical form
of a URL), settings, observability, container files and migrations keep no state
of their own or have no behaviour to check; the constraints the migrations
create are guards of the modelled transactions. The model gateway is stateless:
its outcomes are the failures the other modules inject. `runtime.py` builds and
closes its resources in one sequence of one task; the end of a process is an
action of `Schedule`. Of the API, key checks, request validation and the reads
that no other component relies on are left out; of the page, the settings view,
the forms and the attempts list. `TopicOnboarding` creates the topic before the
sources, so that a failed submission repeated creates it twice; its form is not
modelled.

The database is taken to keep its promises: transactions are atomic, a unique
key admits one row, `UPDATE ... WHERE` re-checks its condition under the row
lock. Isolation is read committed, so each statement sees what was committed
before it.

## Plan

Written, in this order: RunLedger, WorkflowRunner, Batcher, DailyPipeline,
PeriodicPipeline, FeedPolling, then TopicRegistry and Schedule, BriefArchive and
BriefViewer, Extraction, each with its proofs. Left:

1. The composition of `Schedule` with `FeedPolling`: which news of a feed is
   captured before a day's job, instead of stories at given hours.
2. The calls of the runtime's `close` when one of them fails.

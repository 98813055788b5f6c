---------------------------- MODULE FeedPolling ----------------------------
(***************************************************************************)
(* ingestion/service.py for one topic: the daily pipeline polls feeds, the *)
(* API registers feeds and adds articles directly, all at the same time.   *)
(* Feeds are numbered in an order that breaks ties of last_polled_at;      *)
(* entries of feeds are numbered in the sort order of parse_feed.          *)
(***************************************************************************)
EXTENDS Naturals, Sequences, FiniteSets

CONSTANTS
  Workers,          \* concurrent calls
  Feeds,            \* feeds of one topic's sources
  Entries,          \* candidates: feed entries, pasted URLs, uploaded files
  Urls,             \* url fingerprints
  NoUrl,            \* "canonicalize_url never accepts the entry's URL"
  Url,              \* Url[e]: fingerprint of entry e
  Unhandled,        \* entries whose URL does not parse, or whose article has a
                    \* value its column does not take: nothing handles the error
  Documents,        \* Documents[f]: the successive documents of feed f
  Direct,           \* entries that users add directly
  Relevant,         \* entries whose title or summary matches a keyword
  Validating,       \* feeds whose server sends an ETag
  Broken,           \* feeds whose fetch raises an error of no known class
  NoFeed,           \* "not a feed's candidate"
  MaxFeeds,         \* max_feeds_per_run
  Requests,         \* <<f, enabled>>: registrations that may be asked for
  MaxRegistrations, \* bound on registrations
  MaxFaults         \* bound on faults

ASSUME FeedsAssumption ==
  /\ Feeds \subseteq Nat
  /\ IsFiniteSet(Feeds)
  /\ NoFeed \notin Feeds
  /\ Entries \subseteq Nat
  /\ NoUrl \notin Urls
  /\ Url \in [Entries -> Urls \cup {NoUrl}]
  /\ Unhandled \subseteq Entries
  /\ Documents \in [Feeds -> Seq(SUBSET Entries) \ {<<>>}]
  /\ Direct \subseteq Entries
  /\ Relevant \subseteq Entries
  /\ Validating \subseteq Feeds
  /\ Broken \subseteq Feeds
  /\ MaxFeeds \in Nat \ {0}
  /\ Requests \subseteq Feeds \X BOOLEAN
  /\ MaxRegistrations \in Nat
  /\ MaxFaults \in Nat

VARIABLES
  feeds,            \* source_feed table: settings and validator of each feed
  before,           \* <<f, g>>: last_polled_at of f is older than g's
  recent,           \* feeds polled within their interval
  articles,         \* article table: fingerprints
  attempts,         \* ingestion_attempt table
  revision,         \* external: number of each feed's current document
  pc,               \* where each call is
  due,              \* feeds each poll has still to fetch
  listed,           \* rows and order each poll has read
  feed,             \* feed each call is at
  row,              \* row each poll is about to write
  todo,             \* candidates each call has still to ingest
  registrations,    \* registrations so far
  faults,           \* faults so far
  wanted,           \* history: enabled as last registered
  disturbed         \* history: feeds registered while a poll held their row

tables  == <<feeds, before, recent, articles, attempts>>
locals  == <<due, listed, feed, row, todo>>
history == <<registrations, faults, wanted, disturbed>>
vars    == <<tables, revision, pc, locals, history>>

Row     == [enabled : BOOLEAN, etag : Nat]     \* etag 0: none
Status  == {"succeeded", "duplicate", "failed", "race_reload_failed"}
Attempt == [entry : Entries, status : Status]
Handling == {"candidate", "duplicate", "extract", "reload"}
PC      == {"idle", "fetch", "save"} \cup Handling
Listing == [rows : [Feeds -> Row], order : SUBSET (Feeds \X Feeds)]

NoRow     == [enabled |-> FALSE, etag |-> 0]
NoListing == [rows |-> [f \in Feeds |-> NoRow], order |-> {}]

TypeOK ==
  /\ feeds \in [Feeds -> Row]
  /\ before \in SUBSET (Feeds \X Feeds)
  /\ recent \in SUBSET Feeds
  /\ articles \in SUBSET Urls
  /\ attempts \in SUBSET Attempt
  /\ revision \in [Feeds -> Nat \ {0}]
  /\ pc \in [Workers -> PC]
  /\ due \in [Workers -> SUBSET Feeds]
  /\ listed \in [Workers -> Listing]
  /\ feed \in [Workers -> Feeds \cup {NoFeed}]
  /\ row \in [Workers -> Row]
  /\ todo \in [Workers -> SUBSET Entries]
  /\ registrations \in Nat
  /\ faults \in Nat
  /\ wanted \in [Feeds -> BOOLEAN]
  /\ disturbed \in SUBSET Feeds

\* The feeds have just been registered.
Init ==
  /\ feeds = [f \in Feeds |-> [enabled |-> TRUE, etag |-> 0]]
  /\ before = {p \in Feeds \X Feeds : p[1] < p[2]}
  /\ recent = {}
  /\ articles = {}
  /\ attempts = {}
  /\ revision = [f \in Feeds |-> 1]
  /\ pc = [w \in Workers |-> "idle"]
  /\ due = [w \in Workers |-> {}]
  /\ listed = [w \in Workers |-> NoListing]
  /\ feed = [w \in Workers |-> NoFeed]
  /\ row = [w \in Workers |-> NoRow]
  /\ todo = [w \in Workers |-> {}]
  /\ registrations = 0
  /\ faults = 0
  /\ wanted = [f \in Feeds |-> TRUE]
  /\ disturbed = {}

-----------------------------------------------------------------------------
Assign(f, w, value) == [f EXCEPT ![w] = value]
Goto(w, label) == pc' = Assign(pc, w, label)

\* The call ends: its locals go with it.
Leave(w) ==
  /\ Goto(w, "idle")
  /\ due' = Assign(due, w, {})
  /\ listed' = Assign(listed, w, NoListing)
  /\ feed' = Assign(feed, w, NoFeed)
  /\ row' = Assign(row, w, NoRow)
  /\ todo' = Assign(todo, w, {})

\* What the loops do once only the candidates in rest are left of a feed, or
\* of a direct call: the next candidate, the next feed, or the end.
Proceed(w, rest) ==
  \/ /\ rest # {}
     /\ Goto(w, "candidate")
     /\ todo' = Assign(todo, w, rest)
     /\ row' = Assign(row, w, NoRow)
     /\ UNCHANGED <<due, listed, feed>>
  \/ /\ rest = {}
     /\ due[w] # {}
     /\ Goto(w, "fetch")
     /\ todo' = Assign(todo, w, {})
     /\ row' = Assign(row, w, NoRow)
     /\ feed' = Assign(feed, w, NoFeed)
     /\ UNCHANGED <<due, listed>>
  \/ /\ rest = {}
     /\ due[w] = {}
     /\ Leave(w)

-----------------------------------------------------------------------------
(***************************************************************************)
(* The world: a feed publishes another document, its interval passes.      *)
(***************************************************************************)
NewDocument(f) ==
  /\ revision[f] < Len(Documents[f])
  /\ revision' = [revision EXCEPT ![f] = @ + 1]
  /\ UNCHANGED <<tables, pc, locals, history>>

IntervalPasses(f) ==
  /\ recent' = recent \ {f}
  /\ UNCHANGED <<feeds, before, articles, attempts, revision, pc, locals, history>>

-----------------------------------------------------------------------------
\* A poll that has read the row of f and not yet written it.
Holding(w, f) == f \in due[w] \/ (pc[w] = "save" /\ feed[w] = f)

\* Mutant: the row of a known feed stays as it is, like that of a known source.
RegisterOnce(f, enabled) ==
  /\ registrations < MaxRegistrations
  /\ registrations' = registrations + 1
  /\ wanted' = [wanted EXCEPT ![f] = enabled]
  /\ disturbed' = IF \E w \in Workers : Holding(w, f)
                  THEN disturbed \cup {f} ELSE disturbed \ {f}
  /\ UNCHANGED <<tables, revision, pc, locals, faults>>

\* POST /sources: a row without validators that has never been polled.
Register(f, enabled) ==
  /\ registrations < MaxRegistrations
  /\ registrations' = registrations + 1
  /\ feeds' = [feeds EXCEPT ![f] = [enabled |-> enabled, etag |-> 0]]
  /\ before' = {p \in before : p[2] # f} \cup {<<f, g>> : g \in Feeds \ {f}}
  /\ recent' = recent \ {f}
  /\ wanted' = [wanted EXCEPT ![f] = enabled]
  /\ disturbed' = IF \E w \in Workers : Holding(w, f)
                  THEN disturbed \cup {f} ELSE disturbed \ {f}
  /\ UNCHANGED <<articles, attempts, revision, pc, locals, faults>>

-----------------------------------------------------------------------------
(***************************************************************************)
(* poll_feed, for the due feeds of the daily pipeline in turn.             *)
(***************************************************************************)
DueFeeds == {f \in Feeds : feeds[f].enabled /\ f \notin recent}

\* Mutant: the feeds polled last come first.
Newest(S) == {f \in S : Cardinality({g \in S : <<f, g>> \in before}) < MaxFeeds}

\* list_due_source_feeds orders by last_polled_at, the pipeline cuts the list.
Oldest(S) == {f \in S : Cardinality({g \in S : <<g, f>> \in before}) < MaxFeeds}

Poll(w) ==
  /\ pc[w] = "idle"
  /\ DueFeeds # {}
  /\ Goto(w, "fetch")
  /\ LET first == Oldest(DueFeeds)
     IN  /\ due' = Assign(due, w, first)
         /\ listed' = Assign(listed, w,
              [rows |-> [f \in Feeds |-> IF f \in first THEN feeds[f] ELSE NoRow],
               order |-> before \cap (first \X first)])
  /\ UNCHANGED <<tables, revision, feed, row, todo, history>>

First(w, f) == f \in due[w] /\ \A g \in due[w] : <<g, f>> \notin listed[w].order

Current(f) == Documents[f][revision[f]]

\* Mutant: the validator of a document that does not parse is kept.
AnswerKeepsTag(f, old) ==
  {[row |-> [old EXCEPT !.etag = revision[f]], entries |-> d] : d \in {{}, Current(f)}}

\* The row to write and the candidates that follow from a fetch, given the row
\* as listed: an error of a known class, a document that does not parse or 304
\* leave its validator alone; a document brings its own.
Answer(f, old) ==
  {[row |-> old, entries |-> {}]} \cup
  (IF f \in Validating /\ old.etag = revision[f] THEN {}
   ELSE {[row |-> [old EXCEPT !.etag = IF f \in Validating THEN revision[f] ELSE @],
          entries |-> Current(f)]})

Fetch(w) ==
  /\ pc[w] = "fetch"
  /\ \E f \in due[w] \ Broken :
       /\ First(w, f)
       /\ feed' = Assign(feed, w, f)
       /\ due' = Assign(due, w, due[w] \ {f})
       /\ listed' = Assign(listed, w, [listed[w] EXCEPT !.rows[f] = NoRow])
       /\ \E a \in Answer(f, listed[w].rows[f]) :
            /\ row' = Assign(row, w, a.row)
            /\ todo' = Assign(todo, w, a.entries)
  /\ Goto(w, "save")
  /\ UNCHANGED <<tables, revision, history>>

\* httpx.RemoteProtocolError, say, is no NetworkError: it leaves the pipeline.
FetchRaises(w) ==
  /\ pc[w] = "fetch"
  /\ \E f \in due[w] \cap Broken : First(w, f)
  /\ Leave(w)
  /\ UNCHANGED <<tables, revision, history>>

\* upsert_source_feed of the whole row; last_polled_at is now the latest.
Save(w) ==
  /\ pc[w] = "save"
  /\ feeds' = [feeds EXCEPT ![feed[w]] = row[w]]
  /\ before' = {p \in before : p[1] # feed[w]} \cup {<<g, feed[w]>> : g \in Feeds \ {feed[w]}}
  /\ recent' = recent \cup {feed[w]}
  /\ Proceed(w, todo[w])
  /\ UNCHANGED <<articles, attempts, revision, history>>

-----------------------------------------------------------------------------
(***************************************************************************)
(* _ingest_candidate, ingest_urls and ingest_file.                         *)
(***************************************************************************)
\* POST /ingestion/urls and /ingestion/files, one entry.
Submit(w, e) ==
  /\ pc[w] = "idle"
  /\ Goto(w, "candidate")
  /\ todo' = Assign(todo, w, {e})
  /\ UNCHANGED <<tables, revision, due, listed, feed, row, history>>

NextUp(w, e) == e \in todo[w] /\ \A d \in todo[w] : e <= d

\* Only candidates of feeds have to match the topic.
OffTopic(w, e) == feed[w] # NoFeed /\ e \notin Relevant

Record(w, e, status) ==
  /\ attempts' = attempts \cup {[entry |-> e, status |-> status]}
  /\ Proceed(w, todo[w] \ {e})

\* Off topic, a URL that canonicalize_url refuses with UrlValidationError, or
\* an upload that is too large.  It resolves the host, and may for now refuse
\* any URL.
Reject(w) ==
  /\ pc[w] = "candidate"
  /\ \E e \in todo[w] : NextUp(w, e) /\ Record(w, e, "failed")
  /\ UNCHANGED <<feeds, before, recent, articles, revision, history>>

CheckDuplicate(w) ==
  /\ pc[w] = "candidate"
  /\ \E e \in todo[w] :
       /\ NextUp(w, e)
       /\ ~OffTopic(w, e)
       /\ Url[e] \in Urls
       /\ Goto(w, IF Url[e] \in articles THEN "duplicate" ELSE "extract")
  /\ UNCHANGED <<tables, revision, locals, history>>

\* _ingest_candidate raises what only its caller catches: a plain ValueError or
\* UnicodeError of canonicalize_url, a DataError of the article's transaction.
\* The result is unexpected_error, and there is no attempt.
Drop(w) ==
  /\ pc[w] \in {"candidate", "extract"}
  /\ \E e \in todo[w] \cap Unhandled :
       /\ NextUp(w, e)
       /\ ~OffTopic(w, e)
       /\ pc[w] = "candidate" => Url[e] = NoUrl
       /\ Proceed(w, todo[w] \ {e})
  /\ UNCHANGED <<tables, revision, history>>

RecordDuplicate(w) ==
  /\ pc[w] = "duplicate"
  /\ \E e \in todo[w] : NextUp(w, e) /\ Record(w, e, "duplicate")
  /\ UNCHANGED <<feeds, before, recent, articles, revision, history>>

\* Both extractors fail, or the result has no title, no date, too little text
\* or nothing that matches the topic.
ExtractFails(w) ==
  /\ pc[w] = "extract"
  /\ \E e \in todo[w] : NextUp(w, e) /\ Record(w, e, "failed")
  /\ UNCHANGED <<feeds, before, recent, articles, revision, history>>

\* Mutant: the URL is not unique.
InsertAnyway(w) ==
  /\ pc[w] = "extract"
  /\ \E e \in todo[w] :
       /\ NextUp(w, e)
       /\ articles' = articles \cup {Url[e]}
       /\ Record(w, e, "succeeded")
  /\ UNCHANGED <<feeds, before, recent, revision, history>>

\* Article and attempt in one transaction ...
Insert(w) ==
  /\ pc[w] = "extract"
  /\ \E e \in todo[w] :
       /\ NextUp(w, e)
       /\ Url[e] \notin articles
       /\ articles' = articles \cup {Url[e]}
       /\ Record(w, e, "succeeded")
  /\ UNCHANGED <<feeds, before, recent, revision, history>>

\* ... which the unique fingerprint refuses if another call was faster.
InsertRefused(w) ==
  /\ pc[w] = "extract"
  /\ \E e \in todo[w] : NextUp(w, e) /\ Url[e] \in articles
  /\ Goto(w, "reload")
  /\ UNCHANGED <<tables, revision, locals, history>>

\* Mutant: the attempt keeps the column's default status.
ReloadPending(w) ==
  /\ pc[w] = "reload"
  /\ \E e \in todo[w] : NextUp(w, e) /\ Record(w, e, "pending")
  /\ UNCHANGED <<feeds, before, recent, articles, revision, history>>

Reload(w) ==
  /\ pc[w] = "reload"
  /\ \E e \in todo[w] :
       /\ NextUp(w, e)
       /\ Record(w, e, IF Url[e] \in articles THEN "duplicate" ELSE "race_reload_failed")
  /\ UNCHANGED <<feeds, before, recent, articles, revision, history>>

-----------------------------------------------------------------------------
Fault ==
  /\ faults < MaxFaults
  /\ faults' = faults + 1
  /\ UNCHANGED <<tables, revision, registrations, wanted, disturbed>>

\* The database fails inside _ingest_candidate: the candidate's result is
\* unexpected_error, and nothing is recorded.
CandidateFails(w) ==
  /\ pc[w] \in Handling
  /\ \E e \in todo[w] :
       /\ NextUp(w, e)
       /\ ~OffTopic(w, e)
       /\ Proceed(w, todo[w] \ {e})
  /\ Fault

\* A transaction fails elsewhere and the exception ends the whole pipeline, or
\* the process dies, or the task is cancelled.
CallDies(w) ==
  /\ pc[w] # "idle"
  /\ Leave(w)
  /\ Fault

Step(w) ==
  \/ Fetch(w) \/ FetchRaises(w) \/ Save(w)
  \/ Reject(w) \/ CheckDuplicate(w) \/ Drop(w) \/ RecordDuplicate(w)
  \/ ExtractFails(w) \/ Insert(w) \/ InsertRefused(w) \/ Reload(w)

Next ==
  \/ \E f \in Feeds : NewDocument(f) \/ IntervalPasses(f)
  \/ \E r \in Requests : Register(r[1], r[2])
  \/ \E w \in Workers :
       \/ Poll(w)
       \/ \E e \in Direct : Submit(w, e)
       \/ Step(w)
       \/ CandidateFails(w) \/ CallDies(w)

Spec == Init /\ [][Next]_vars

\* The event loop runs every call that can proceed, and the daily pipeline
\* keeps being started.
RetrySpec ==
  /\ Spec
  /\ \A w \in Workers : WF_vars(Step(w))
  /\ SF_vars(\E w \in Workers : Poll(w))

-----------------------------------------------------------------------------
(***************************************************************************)
(* Properties.                                                             *)
(***************************************************************************)
Captures(u) == {a \in attempts : a.status = "succeeded" /\ Url[a.entry] = u}

\* Attempts tell the truth about articles, whoever else captures the same URL
\* meanwhile: an article was captured once, a success or a duplicate has an
\* article, and the loser of a race always finds the winner.
AttemptsTruthful ==
  /\ \A u \in Urls : u \in articles <=> Captures(u) # {}
  /\ \A a, b \in attempts :
       a.status = "succeeded" /\ b.status = "succeeded" /\ Url[a.entry] = Url[b.entry] => a = b
  /\ \A a \in attempts :
       /\ a.status = "duplicate" => Url[a.entry] \in articles
       /\ a.status # "race_reload_failed"

\* An entry of f has an attempt, or a poll that is to make one.
Accounted(f, e) ==
  \/ \E a \in attempts : a.entry = e
  \/ \E w \in Workers : feed[w] = f /\ pc[w] # "save" /\ e \in todo[w]

\* The entries of a feed's document that are to leave a trace: an Unhandled one
\* on the topic need not, although "rejected candidates must remain observable
\* - silent drops are undebuggable" (service.py:39-40).
Traceable(f, n) == Documents[f][n] \ (Unhandled \cap Relevant)

\* Once a feed's validator is stored, so that its document will not be sent
\* again, each of its candidates is accounted for, unless faults occur or the
\* candidate raises what service.py:364 does not catch (:156 then drops it).
CandidatesAccounted ==
  faults = 0 =>
    \A f \in Feeds : feeds[f].etag # 0 =>
      \A e \in Traceable(f, feeds[f].etag) : Accounted(f, e)

\* A feed is enabled as it was last registered, unless that happened while a
\* poll held its row: the poll writes all of the row back.
SettingsKept == \A f \in Feeds \ disturbed : feeds[f].enabled = wanted[f]

\* A due feed gets polled, however many feeds there are, whether or not they
\* answer: "network failure ... marks that feed attempt failed while other
\* feeds continue" (2026-07-13-rss-daily-brief-design.md, 3.2).  Not so once a
\* feed is Broken: it ends every call and stays the first of the due ones.
DueFeedsPolled ==
  \A f \in Feeds \ Broken : f \in DueFeeds ~> f \notin DueFeeds

\* The strengthenings under which the safety properties are inductive: what a
\* call may rely on at each place,
CallsSound ==
  \A w \in Workers :
    /\ pc[w] \in {"idle", "fetch"} => feed[w] = NoFeed
    /\ pc[w] = "save" => feed[w] \in Feeds
    /\ pc[w] \in {"duplicate", "extract", "reload"} =>
         \A e \in todo[w] : NextUp(w, e) => Url[e] \in Urls
    /\ pc[w] \in {"duplicate", "reload"} =>
         \A e \in todo[w] : NextUp(w, e) => Url[e] \in articles

\* the settings that polls hold,
SettingsHeld ==
  \A w \in Workers, f \in Feeds \ disturbed :
    /\ f \in due[w] => listed[w].rows[f].enabled = wanted[f]
    /\ pc[w] = "save" /\ feed[w] = f => row[w].enabled = wanted[f]

\* and the validators that polls hold.
HeldAccounted ==
  faults = 0 =>
    \A w \in Workers, f \in Feeds :
      /\ f \in due[w] /\ listed[w].rows[f].etag # 0 =>
           \A e \in Traceable(f, listed[w].rows[f].etag) : Accounted(f, e)
      /\ pc[w] = "save" /\ feed[w] = f /\ row[w].etag # 0 =>
           \A e \in Traceable(f, row[w].etag) : Accounted(f, e) \/ e \in todo[w]
=============================================================================

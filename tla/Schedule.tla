------------------------------ MODULE Schedule ------------------------------
(***************************************************************************)
(* scheduling.py and main.py run_scheduler: three cron jobs that ask the   *)
(* pipelines for one topic after the other, beside topics that come and go *)
(* and manual triggers.  A pipeline call is two steps, its beginning (when *)
(* date.today() is read) and its end, with the effect that DailyPipeline   *)
(* and PeriodicPipeline show in detail.                                    *)
(***************************************************************************)
EXTENDS TopicRegistry, Integers

CONSTANTS
  FirstDay, FirstHour, \* when the scheduler is started first
  LastDay,          \* bound on the days; day 0 is a Monday
  WeekLength,       \* 7; Sunday is the last day of a week
  Months,           \* first days of months, one of them before FirstDay and
                    \* one after LastDay
  News,             \* stories that may break: topic, day and hour
  MaxDisturbances   \* bound on failures and manual triggers

Jobs  == {"daily", "weekly", "monthly"}
Hours == {0, 2, 3, 4}    \* midnight and the hours of the cron triggers

Days  == FirstDay..LastDay

ASSUME ScheduleAssumption ==
  /\ FirstDay \in Nat /\ LastDay \in Nat /\ FirstDay <= LastDay
  /\ FirstHour \in Hours
  /\ WeekLength \in Nat \ {0}
  /\ Months \subseteq Nat
  /\ \A d \in Days :
       /\ \E f \in Months : f <= d /\ \A g \in Months : g <= d => g <= f
       /\ \E f \in Months : f > d /\ \A g \in Months : g > d => f <= g
  /\ News \subseteq [topic : Topics, day : Days, hour : Hours]
  /\ MaxDisturbances \in Nat

VARIABLES
  today, hour,      \* local time
  up,               \* the scheduler process runs
  due,              \* jobs whose trigger has fired and that have not started
  phase,            \* where each job is
  todo,             \* topics left in the loop of each job
  date,             \* date.today() of each job's current call
  articles,         \* article table
  batched,          \* articles in a batch
  summaries,        \* batch summaries: articles, target date and hour
  started,          \* runs past PENDING: no call starts them again
  briefs,           \* briefs: run and cited summaries
  disturbances,     \* how many so far
  missed,           \* history: a job was skipped, stopped, without a list of
                    \* topics, or still at work at midnight
  excused           \* history: topics of a failed call or a manual trigger

clock   == <<today, hour>>
jobs    == <<due, phase, todo, date>>
content == <<articles, batched, summaries, started, briefs>>
history == <<missed, excused>>
vars    == <<registry, clock, up, jobs, content, disturbances, history>>

Run     == [cadence : Jobs, topic : Topics, start : Int]
Summary == [news : (SUBSET News) \ {{}}, date : Days, hour : Hours]

TypeOK ==
  /\ RegistryTypeOK
  /\ today \in Days /\ hour \in Hours
  /\ up \in BOOLEAN
  /\ due \in SUBSET Jobs
  /\ phase \in [Jobs -> {"off", "loop", "call"}]
  /\ todo \in [Jobs -> SUBSET Topics]
  /\ date \in [Jobs -> Days]
  /\ articles \in SUBSET News /\ batched \in SUBSET News
  /\ summaries \in SUBSET Summary
  /\ started \in SUBSET Run
  /\ briefs \in SUBSET [run : Run, cites : SUBSET Summary]
  /\ disturbances \in Nat
  /\ missed \in BOOLEAN
  /\ excused \in SUBSET Topics

Init ==
  /\ RegistryInit
  /\ today = FirstDay /\ hour = FirstHour
  /\ up = TRUE
  /\ due = {}
  /\ phase = [c \in Jobs |-> "off"]
  /\ todo = [c \in Jobs |-> {}]
  /\ date = [c \in Jobs |-> FirstDay]
  /\ articles = {} /\ batched = {}
  /\ summaries = {} /\ started = {} /\ briefs = {}
  /\ disturbances = 0
  /\ missed = FALSE
  /\ excused = {}

-----------------------------------------------------------------------------
\* Windows: a date, a week from Monday to Sunday, a calendar month.
WeekStart(d)  == d - (d % WeekLength)
WeekEnd(d)    == WeekStart(d) + WeekLength - 1
MonthStart(d) == CHOOSE f \in Months : f <= d /\ \A g \in Months : g <= d => g <= f
MonthEnd(d)   == (CHOOSE f \in Months : f > d /\ \A g \in Months : g > d => f <= g) - 1

Start(c, d) == CASE c = "daily" -> d [] c = "weekly" -> WeekStart(d) [] OTHER -> MonthStart(d)
End(c, d)   == CASE c = "daily" -> d [] c = "weekly" -> WeekEnd(d) [] OTHER -> MonthEnd(d)
RunOf(c, t, d) == [cadence |-> c, topic |-> t, start |-> Start(c, d)]

Dates(s)   == {a.day : a \in s.news}
TopicOf(s) == (CHOOSE a \in s.news : TRUE).topic

\* The batch has an article of the window.
Touches(s, c, d) == \E e \in Dates(s) : Start(c, d) <= e /\ e <= End(c, d)

\* list_eligible_unbatched_articles: a daily call makes batches of some of
\* these (one stands for all of them) and carries the others forward.
Eligible(t, d)   == {a \in articles \ batched : a.topic = t /\ a.day <= d}
Batches(c, t, d) == IF c = "daily" THEN SUBSET Eligible(t, d) ELSE {{}}

\* The summary of a batch, unless its answer is refused.
SummariesOf(batch, d) == {{}} \cup {{[news |-> batch, date |-> d, hour |-> hour]} : a \in batch}

\* What a call's brief is made from: the call's summaries with news of the
\* date; the summaries of the window that no other brief of the cadence cites.
Evidence(c, t, d, made) ==
  IF c = "daily"
    THEN {s \in made : d \in Dates(s)}
    ELSE {s \in summaries :
            /\ TopicOf(s) = t
            /\ Touches(s, c, d)
            /\ \A b \in briefs :
                 b.run.cadence = c /\ b.run # RunOf(c, t, d) => s \notin b.cites}

\* Without evidence there is no run; a run is started once.
Execute(run, evidence) ==
  IF evidence = {} \/ run \in started
    THEN UNCHANGED <<started, briefs>>
    ELSE /\ started' = started \cup {run}
         /\ briefs' = briefs \cup {[run |-> run, cites |-> evidence]}

\* DailyBriefPipeline.run and PeriodicBriefPipeline.run
Call(c, t, d) ==
  \E batch \in Batches(c, t, d) : \E made \in SummariesOf(batch, d) :
    /\ batched' = batched \cup batch
    /\ summaries' = summaries \cup made
    /\ Execute(RunOf(c, t, d), Evidence(c, t, d, made))
    /\ UNCHANGED articles

\* A call cut short anywhere: its run may be FAILED, or RUNNING for good.
CallFails(c, t, d) ==
  \E batch \in Batches(c, t, d) : \E made \in SummariesOf(batch, d) :
    /\ batched' = batched \cup batch
    /\ summaries' = summaries \cup made
    /\ started' \in {started} \cup {started \cup {RunOf(c, t, d)} : s \in Evidence(c, t, d, made)}
    /\ UNCHANGED <<articles, briefs>>

-----------------------------------------------------------------------------
Disturb ==
  /\ disturbances < MaxDisturbances
  /\ disturbances' = disturbances + 1

\* A story breaks and is captured (by a poll or directly): an article row.
Break(a) ==
  /\ a \in News \ articles
  /\ a.day = today /\ a.hour = hour
  /\ Refer(a.topic)
  /\ articles' = articles \cup {a}
  /\ UNCHANGED <<clock, up, jobs, batched, summaries, started, briefs, disturbances, history>>

\* The cron triggers: daily 02:00, Sunday 03:00, the first at 04:00.
HourOf(c) == CASE c = "daily" -> 2 [] c = "weekly" -> 3 [] OTHER -> 4

FiresOn(c, d) ==
  CASE c = "daily"  -> TRUE
    [] c = "weekly" -> d = WeekEnd(d)
    [] OTHER        -> d \in Months

NextHour == CASE hour = 0 -> 2 [] hour = 2 -> 3 [] hour = 3 -> 4 [] OTHER -> 0

\* Time passes; a job starts or is skipped, and a DELETE ends, within the hour.
\* Triggers are lost while the process is down (its job store is in memory)
\* and while the job's last run is at work (max_instances).
Tick ==
  /\ due = {} /\ deleting = {}
  /\ today < LastDay
  /\ hour' = NextHour
  /\ today' = IF hour' = 0 THEN today + 1 ELSE today
  /\ LET fired == {c \in Jobs : HourOf(c) = hour' /\ FiresOn(c, today)}
     IN  /\ due' = {c \in fired : up /\ phase[c] = "off"}
         /\ missed' = \/ missed
                      \/ ~up /\ fired # {}
                      \/ hour' = 0 /\ \E c \in Jobs : phase[c] # "off"
  /\ UNCHANGED <<registry, up, phase, todo, date, content, disturbances, excused>>

Goto(c, label) == phase' = [phase EXCEPT ![c] = label]

\* The job lists the topics; with none it is done.
Fire(c) ==
  /\ c \in due /\ phase[c] = "off"
  /\ due' = due \ {c}
  /\ todo' = [todo EXCEPT ![c] = Present]
  /\ Goto(c, IF Present = {} THEN "off" ELSE "loop")
  /\ UNCHANGED <<registry, clock, up, date, content, disturbances, history>>

\* The loop gets to the job after its grace time, or list_topics, outside the
\* try block, raises.
Skip(c) ==
  /\ c \in due
  /\ due' = due \ {c}
  /\ missed' = TRUE
  /\ Disturb
  /\ UNCHANGED <<registry, clock, up, phase, todo, date, content, excused>>

\* list_topics orders by name.
First(c, t) == t \in todo[c] /\ \A u \in todo[c] : t <= u

\* pipeline.run(date.today(), topic_id=topic.id)
BeginCall(c) ==
  /\ phase[c] = "loop"
  /\ date' = [date EXCEPT ![c] = today]
  /\ Goto(c, "call")
  /\ UNCHANGED <<registry, clock, up, due, todo, content, disturbances, history>>

\* On to the next topic, or the job is done.
Advance(c, t) ==
  LET rest == todo[c] \ {t}
  IN  /\ todo' = [todo EXCEPT ![c] = rest]
      /\ Goto(c, IF rest = {} THEN "off" ELSE "loop")
      /\ date' = [date EXCEPT ![c] = FirstDay]
      /\ UNCHANGED due

EndCall(c) ==
  /\ phase[c] = "call"
  /\ \E t \in Topics : First(c, t) /\ Call(c, t, date[c]) /\ Advance(c, t)
  /\ UNCHANGED <<registry, clock, up, disturbances, history>>

\* Mutant: the exception ends the loop over the topics.
AbandonLoop(c, t) ==
  /\ t \in todo[c]
  /\ todo' = [todo EXCEPT ![c] = {}]
  /\ Goto(c, "off")
  /\ date' = [date EXCEPT ![c] = FirstDay]
  /\ UNCHANGED due

\* except Exception: the failure of one topic is logged and the loop goes on.
Survive(c, t) == Advance(c, t)

CallRaises(c) ==
  /\ phase[c] = "call"
  /\ Disturb
  /\ \E t \in Topics :
       /\ First(c, t)
       /\ CallFails(c, t, date[c])
       /\ excused' = excused \cup {t}
       /\ Survive(c, t)
  /\ UNCHANGED <<registry, clock, up, missed>>

\* POST /pipelines/...: any topic, any date (here none to come).
Trigger(c, t, d) ==
  /\ Disturb
  /\ Call(c, t, d)
  /\ excused' = excused \cup {t}
  /\ UNCHANGED <<registry, clock, up, jobs, missed>>

\* The process ends: run_scheduler shuts the scheduler down and closes the
\* runtime, or it dies.  Jobs are cancelled where they are.
Stop ==
  /\ up /\ Disturb
  /\ up' = FALSE
  /\ due' = {}
  /\ phase' = [c \in Jobs |-> "off"]
  /\ todo' = [c \in Jobs |-> {}]
  /\ date' = [c \in Jobs |-> FirstDay]
  /\ missed' = (missed \/ due # {} \/ \E c \in Jobs : phase[c] # "off")
  /\ \/ UNCHANGED content
     \/ \E c \in Jobs, t \in Topics :
          phase[c] = "call" /\ First(c, t) /\ CallFails(c, t, date[c])
  /\ UNCHANGED <<registry, clock, excused>>

\* run_scheduler: register_schedules and start; the triggers are computed
\* from now on.
Restart ==
  /\ ~up
  /\ up' = TRUE
  /\ UNCHANGED <<registry, clock, jobs, content, disturbances, history>>

-----------------------------------------------------------------------------
Topic(t) == RegistryStep(t) /\ UNCHANGED <<clock, up, jobs, content, disturbances, history>>

JobStep(c) ==
  \/ Fire(c) \/ Skip(c)
  \/ BeginCall(c) \/ EndCall(c) \/ CallRaises(c)

Next ==
  \/ Tick
  \/ \E t \in Topics : Topic(t)
  \/ \E a \in News : Break(a)
  \/ \E c \in Jobs : JobStep(c)
  \/ \E c \in Jobs, t \in Topics, d \in FirstDay..today : Trigger(c, t, d)
  \/ Stop \/ Restart

Spec == Init /\ [][Next]_vars

-----------------------------------------------------------------------------
\* Runs and summaries (and batches and narratives) name their topic without a
\* foreign key, yet their topic always exists: they come from articles, whose
\* foreign key restricts delete_topic even after its check.
HistoryHasTopic ==
  /\ \A r \in started : r.topic \in Present
  /\ \A s \in summaries : \A a \in s.news : a.topic \in Present
  /\ \A b \in briefs : b.run.topic \in Present

CitedBy(c) == {s \in summaries : \E b \in briefs : b.run.cadence = c /\ s \in b.cites}

\* The day a cadence's job asks for the window of d.
JobDay(c, d) == IF c = "weekly" THEN WeekEnd(d) ELSE MonthStart(d)

ReadyFor(s, c, d) ==
  \/ s.date < JobDay(c, d)
  \/ s.date = JobDay(c, d) /\ s.hour < HourOf(c)

\* What is summarised when a window's job starts is in a brief of its cadence
\* once the day is over, and what a daily call summarises of its own date at
\* once, whatever happens to other topics ("one topic's failure cannot starve
\* the rest of the cadence", architecture.md:55).  Nothing is promised to what
\* comes later: of a day, after 02:00, of a month, after the first.
ReadyNewsIsBriefed ==
  ~missed => \A s \in summaries : TopicOf(s) \notin excused =>
    /\ s.date \in Dates(s) => s \in CitedBy("daily")
    /\ \A c \in {"weekly", "monthly"}, d \in Dates(s) :
         JobDay(c, d) < today /\ ReadyFor(s, c, d) => s \in CitedBy(c)

\* "A month with weekly activity across at least two weeks produces one
\* durable Monthly Brief" (2026-07-15-weekly-monthly-brief-design.md:331): two
\* weeks of it have weekly briefs, and it and the day after are over.  The job
\* asks on the first of a month for the month that begins, and never again.
ActiveMonthIsBriefed ==
  ~missed => \A a, b \in briefs :
    /\ a.run.cadence = "weekly" /\ b.run.cadence = "weekly"
    /\ a.run.topic = b.run.topic /\ a.run.topic \notin excused
    /\ a.run.start # b.run.start /\ MonthStart(a.run.start) = MonthStart(b.run.start)
    /\ MonthEnd(a.run.start) + 1 < today
    => \E m \in briefs : m.run = RunOf("monthly", a.run.topic, a.run.start)
=============================================================================

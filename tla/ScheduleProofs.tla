---------------------------- MODULE ScheduleProofs ----------------------------
(***************************************************************************)
(* Proofs about Schedule and TopicRegistry for any topics, stories, months *)
(* and number of days.                                                     *)
(***************************************************************************)
EXTENDS Schedule, TLAPS

\* The loop of a job has topics left.
LoopsSound == \A c \in Jobs : phase[c] # "off" => todo[c] # {}

LEMMA StartInt == ASSUME NEW c \in Jobs, NEW d \in Days PROVE Start(c, d) \in Int
<1>1. d \in Int
  BY ScheduleAssumption DEF Days
<1>2. CASE c = "daily"
  BY <1>1, <1>2 DEF Start
<1>3. CASE c = "weekly"
  BY <1>1, <1>3, ScheduleAssumption DEF Start, WeekStart
<1>4. CASE c = "monthly"
  BY <1>4, ScheduleAssumption DEF Start, MonthStart
<1>q. QED
  BY <1>2, <1>3, <1>4 DEF Jobs

LEMMA RunTyped ==
  ASSUME NEW c \in Jobs, NEW t \in Topics, NEW d \in Days
  PROVE  RunOf(c, t, d) \in Run
BY StartInt DEF RunOf, Run

ContentTyped ==
  /\ articles \in SUBSET News /\ batched \in SUBSET News
  /\ summaries \in SUBSET Summary
  /\ started \in SUBSET Run
  /\ briefs \in SUBSET [run : Run, cites : SUBSET Summary]

\* What a call makes of articles and summaries.
LEMMA MadeTyped ==
  ASSUME ContentTyped, hour \in Hours,
         NEW c \in Jobs, NEW t \in Topics, NEW d \in Days,
         NEW batch \in Batches(c, t, d), NEW made \in SummariesOf(batch, d)
  PROVE  /\ batch \subseteq articles
         /\ \A a \in batch : a.topic = t
         /\ made \subseteq Summary
         /\ \A s \in made : s.news = batch /\ s.date = d /\ s.hour = hour
         /\ Evidence(c, t, d, made) \subseteq Summary
<1>1. batch \subseteq articles /\ \A a \in batch : a.topic = t
  BY DEF Batches, Eligible
<1>2. made \subseteq Summary /\ \A s \in made : s.news = batch /\ s.date = d /\ s.hour = hour
  <2>1. CASE made = {}
    BY <2>1
  <2>2. ASSUME NEW a \in batch, made = {[news |-> batch, date |-> d, hour |-> hour]}
        PROVE  made \subseteq Summary /\ \A s \in made : s.news = batch /\ s.date = d /\ s.hour = hour
    <3>0. batch # {}
      BY <2>2
    <3>1. batch \in (SUBSET News) \ {{}}
      BY <1>1, <3>0 DEF ContentTyped
    <3>q. QED
      BY <2>2, <3>1 DEF Summary
  <2>q. QED
    BY <2>1, <2>2 DEF SummariesOf
<1>3. Evidence(c, t, d, made) \subseteq Summary
  BY <1>2 DEF Evidence, ContentTyped
<1>q. QED
  BY <1>1, <1>2, <1>3

LEMMA CallTyped ==
  ASSUME ContentTyped, hour \in Hours,
         NEW c \in Jobs, NEW t \in Topics, NEW d \in Days,
         Call(c, t, d) \/ CallFails(c, t, d)
  PROVE  ContentTyped'
<1>1. RunOf(c, t, d) \in Run
  BY RunTyped
<1>2. CASE Call(c, t, d)
  <2>0. PICK batch \in Batches(c, t, d) :
          \E made \in SummariesOf(batch, d) :
            /\ batched' = batched \cup batch
            /\ summaries' = summaries \cup made
            /\ Execute(RunOf(c, t, d), Evidence(c, t, d, made))
            /\ UNCHANGED articles
    BY <1>2 DEF Call
  <2>1. PICK made \in SummariesOf(batch, d) :
          /\ batched' = batched \cup batch
          /\ summaries' = summaries \cup made
          /\ Execute(RunOf(c, t, d), Evidence(c, t, d, made))
          /\ UNCHANGED articles
    BY <2>0
  <2>2. /\ batch \subseteq articles
        /\ made \subseteq Summary
        /\ Evidence(c, t, d, made) \subseteq Summary
    BY MadeTyped
  <2>q. QED
    BY <1>1, <2>1, <2>2 DEF Execute, ContentTyped
<1>3. CASE CallFails(c, t, d)
  <2>0. PICK batch \in Batches(c, t, d) :
          \E made \in SummariesOf(batch, d) :
            /\ batched' = batched \cup batch
            /\ summaries' = summaries \cup made
            /\ started' \in {started} \cup
                 {started \cup {RunOf(c, t, d)} : s \in Evidence(c, t, d, made)}
            /\ UNCHANGED <<articles, briefs>>
    BY <1>3 DEF CallFails
  <2>1. PICK made \in SummariesOf(batch, d) :
          /\ batched' = batched \cup batch
          /\ summaries' = summaries \cup made
          /\ started' \in {started} \cup
               {started \cup {RunOf(c, t, d)} : s \in Evidence(c, t, d, made)}
          /\ UNCHANGED <<articles, briefs>>
    BY <2>0
  <2>2. batch \subseteq articles /\ made \subseteq Summary
    BY MadeTyped
  <2>q. QED
    BY <1>1, <2>1, <2>2 DEF ContentTyped
<1>q. QED
  BY <1>2, <1>3

TypeInv == TypeOK /\ LoopsSound

\* TypeOK is inductive once a loop is known to have topics left.
LEMMA TypeInvariant == Spec => []TypeInv
<1>1. Init => TypeInv
  <2>. SUFFICES ASSUME Init PROVE TypeInv
    OBVIOUS
  <2>1. RegistryTypeOK
    BY DEF Init, RegistryInit, RegistryTypeOK
  <2>2. today \in Days /\ hour \in Hours /\ date \in [Jobs -> Days]
    BY ScheduleAssumption DEF Init, Days
  <2>3. LoopsSound
    BY DEF Init, LoopsSound
  <2>q. QED
    BY <2>1, <2>2, <2>3 DEF Init, TypeInv, TypeOK
<1>2. TypeInv /\ [Next]_vars => TypeInv'
  <2>. SUFFICES ASSUME TypeInv, [Next]_vars PROVE TypeInv'
    OBVIOUS
  <2>0. /\ FirstDay \in Nat /\ LastDay \in Nat
        /\ News \subseteq [topic : Topics, day : Days, hour : Hours]
    BY ScheduleAssumption
  <2>a. ContentTyped /\ hour \in Hours
    BY DEF TypeInv, TypeOK, ContentTyped
  <2>. USE DEF TypeInv, TypeOK, RegistryTypeOK, LoopsSound, Goto
  <2>1. CASE Tick
    <3>1. hour' \in Hours /\ today' \in Days
      BY <2>0, <2>1 DEF Tick, NextHour, Hours, Days
    <3>2. due' \in SUBSET Jobs /\ missed' \in BOOLEAN
      BY <2>1 DEF Tick
    <3>q. QED
      BY <2>1, <3>1, <3>2 DEF Tick, registry, content, Present
  <2>2. ASSUME NEW t \in Topics, Topic(t) PROVE TypeInv'
    BY <2>2 DEF Topic, RegistryStep, CreateTopic, CheckDelete, Delete, Restricted, Present,
            clock, jobs, content, history
  <2>3. ASSUME NEW a \in News, Break(a) PROVE TypeInv'
    BY <2>0, <2>3 DEF Break, Refer, Present, clock, jobs, history
  <2>4. ASSUME NEW c \in Jobs, Fire(c) PROVE TypeInv'
    BY <2>4 DEF Fire, Present, registry, clock, content, history
  <2>5. ASSUME NEW c \in Jobs, Skip(c) PROVE TypeInv'
    BY <2>5 DEF Skip, Disturb, registry, clock, content
  <2>6. ASSUME NEW c \in Jobs, BeginCall(c) PROVE TypeInv'
    BY <2>6 DEF BeginCall, registry, clock, content, history
  <2>7. ASSUME NEW c \in Jobs, NEW t \in Topics, First(c, t), Advance(c, t)
        PROVE  /\ due' \in SUBSET Jobs
               /\ phase' \in [Jobs -> {"off", "loop", "call"}]
               /\ todo' \in [Jobs -> SUBSET Topics]
               /\ date' \in [Jobs -> Days]
               /\ LoopsSound'
    BY <2>0, <2>7 DEF Advance, First, Days
  <2>8. ASSUME NEW c \in Jobs, EndCall(c) PROVE TypeInv'
    <3>1. PICK t \in Topics : First(c, t) /\ Call(c, t, date[c]) /\ Advance(c, t)
      BY <2>8 DEF EndCall
    <3>2. ContentTyped'
      BY <2>a, <3>1, CallTyped
    <3>q. QED
      BY <2>7, <2>8, <3>1, <3>2 DEF EndCall, ContentTyped, registry, clock, history
  <2>9. ASSUME NEW c \in Jobs, CallRaises(c) PROVE TypeInv'
    <3>1. PICK t \in Topics : /\ First(c, t) /\ CallFails(c, t, date[c])
                              /\ excused' = excused \cup {t} /\ Survive(c, t)
      BY <2>9 DEF CallRaises
    <3>2. ContentTyped'
      BY <2>a, <3>1, CallTyped
    <3>q. QED
      BY <2>7, <2>9, <3>1, <3>2 DEF CallRaises, Survive, Disturb, ContentTyped, registry, clock
  <2>10. ASSUME NEW c \in Jobs, NEW t \in Topics, NEW d \in FirstDay..today, Trigger(c, t, d)
         PROVE TypeInv'
    <3>1. d \in Days
      BY <2>0 DEF Days
    <3>2. ContentTyped'
      BY <2>a, <2>10, <3>1, CallTyped DEF Trigger
    <3>q. QED
      BY <2>10, <3>2 DEF Trigger, Disturb, ContentTyped, registry, clock, jobs
  <2>11. CASE Stop
    <3>1. ContentTyped'
      <4>1. CASE UNCHANGED content
        BY <2>a, <4>1 DEF content, ContentTyped
      <4>2. CASE \E c \in Jobs, t \in Topics : CallFails(c, t, date[c])
        BY <2>a, <4>2, CallTyped
      <4>q. QED
        BY <2>11, <4>1, <4>2 DEF Stop
    <3>2. date' \in [Jobs -> Days]
      BY <2>11, ScheduleAssumption DEF Stop, Days
    <3>3. missed' \in BOOLEAN /\ up' \in BOOLEAN
      BY <2>11 DEF Stop
    <3>4. LoopsSound' /\ phase' \in [Jobs -> {"off", "loop", "call"}] /\ todo' \in [Jobs -> SUBSET Topics]
      BY <2>11 DEF Stop
    <3>q. QED
      BY <2>11, <3>1, <3>2, <3>3, <3>4 DEF Stop, Disturb, ContentTyped, registry, clock
  <2>12. CASE Restart
    BY <2>12 DEF Restart, registry, clock, jobs, content, history
  <2>13. CASE UNCHANGED vars
    BY <2>13 DEF vars, registry, clock, jobs, content, history
  <2>q. QED
    BY <2>1, <2>2, <2>3, <2>4, <2>5, <2>6, <2>8, <2>9, <2>10, <2>11, <2>12, <2>13
    DEF Next, JobStep
<1>q. QED
  BY <1>1, <1>2, PTL DEF Spec

\* TypeOK
THEOREM TypeCorrect == Spec => []TypeOK
<1>1. TypeInv => TypeOK
  BY DEF TypeInv
<1>q. QED
  BY <1>1, TypeInvariant, PTL

-----------------------------------------------------------------------------
\* Everything that names a topic comes from articles, and articles keep their
\* topic alive.
HistoryRefers ==
  /\ \A a \in articles : a.topic \in dependents
  /\ \A s \in summaries : s.news \subseteq articles
  /\ \A r \in started : r.topic \in dependents
  /\ \A b \in briefs : b.run.topic \in dependents

ReferInv == dependents \subseteq Present /\ HistoryRefers

LEMMA TopicOfNews ==
  ASSUME ContentTyped, HistoryRefers, NEW s \in summaries
  PROVE  TopicOf(s) \in dependents
<1>1. s.news # {} /\ s.news \subseteq articles
  BY DEF ContentTyped, Summary, HistoryRefers
<1>2. (CHOOSE a \in s.news : TRUE) \in s.news
  BY <1>1
<1>q. QED
  BY <1>1, <1>2 DEF TopicOf, HistoryRefers

LEMMA EvidenceRefers ==
  ASSUME ContentTyped, HistoryRefers, hour \in Hours,
         NEW c \in Jobs, NEW t \in Topics, NEW d \in Days,
         NEW batch \in Batches(c, t, d), NEW made \in SummariesOf(batch, d),
         Evidence(c, t, d, made) # {}
  PROVE  t \in dependents
<1>1. PICK s \in Evidence(c, t, d, made) : TRUE
  OBVIOUS
<1>2. CASE c = "daily"
  <2>1. s \in made
    BY <1>1, <1>2 DEF Evidence
  <2>2. PICK a \in batch : TRUE
    BY <2>1 DEF SummariesOf
  <2>q. QED
    BY <2>2, MadeTyped DEF HistoryRefers
<1>3. CASE c # "daily"
  BY <1>1, <1>3, TopicOfNews DEF Evidence
<1>q. QED
  BY <1>2, <1>3

LEMMA CallRefers ==
  ASSUME ContentTyped, HistoryRefers, hour \in Hours, dependents' = dependents,
         NEW c \in Jobs, NEW t \in Topics, NEW d \in Days,
         Call(c, t, d) \/ CallFails(c, t, d)
  PROVE  HistoryRefers'
<1>0. RunOf(c, t, d).topic = t
  BY DEF RunOf
<1>1. CASE Call(c, t, d)
  <2>0. PICK batch \in Batches(c, t, d) :
          \E made \in SummariesOf(batch, d) :
            /\ batched' = batched \cup batch
            /\ summaries' = summaries \cup made
            /\ Execute(RunOf(c, t, d), Evidence(c, t, d, made))
            /\ UNCHANGED articles
    BY <1>1 DEF Call
  <2>1. PICK made \in SummariesOf(batch, d) :
          /\ summaries' = summaries \cup made
          /\ Execute(RunOf(c, t, d), Evidence(c, t, d, made))
          /\ UNCHANGED articles
    BY <2>0
  <2>2. \A s \in made : s.news \subseteq articles
    BY MadeTyped
  <2>3. CASE Evidence(c, t, d, made) = {}
    BY <2>1, <2>2, <2>3 DEF Execute, HistoryRefers
  <2>4. CASE Evidence(c, t, d, made) # {}
    <3>1. t \in dependents
      BY <2>4, EvidenceRefers
    <3>q. QED
      BY <1>0, <2>1, <2>2, <3>1 DEF Execute, HistoryRefers
  <2>q. QED
    BY <2>3, <2>4
<1>2. CASE CallFails(c, t, d)
  <2>0. PICK batch \in Batches(c, t, d) :
          \E made \in SummariesOf(batch, d) :
            /\ batched' = batched \cup batch
            /\ summaries' = summaries \cup made
            /\ started' \in {started} \cup
                 {started \cup {RunOf(c, t, d)} : s \in Evidence(c, t, d, made)}
            /\ UNCHANGED <<articles, briefs>>
    BY <1>2 DEF CallFails
  <2>1. PICK made \in SummariesOf(batch, d) :
          /\ summaries' = summaries \cup made
          /\ started' \in {started} \cup
               {started \cup {RunOf(c, t, d)} : s \in Evidence(c, t, d, made)}
          /\ UNCHANGED <<articles, briefs>>
    BY <2>0
  <2>2. \A s \in made : s.news \subseteq articles
    BY MadeTyped
  <2>3. \A r \in started' : r.topic \in dependents
    <3>1. CASE started' = started
      BY <3>1 DEF HistoryRefers
    <3>2. CASE started' = started \cup {RunOf(c, t, d)} /\ Evidence(c, t, d, made) # {}
      BY <1>0, <3>2, EvidenceRefers DEF HistoryRefers
    <3>q. QED
      BY <2>1, <3>1, <3>2
  <2>q. QED
    BY <2>1, <2>2, <2>3 DEF HistoryRefers
<1>q. QED
  BY <1>1, <1>2

\* ReferInv is inductive: only Break adds a dependent, of a topic that is
\* there; only Delete takes a topic away, and none with a dependent.
LEMMA ReferInvariant == Spec => []ReferInv
<1>1. Init => ReferInv
  BY DEF Init, RegistryInit, ReferInv, HistoryRefers
<1>2. TypeInv /\ ReferInv /\ [Next]_vars => ReferInv'
  <2>. SUFFICES ASSUME TypeInv, ReferInv, [Next]_vars PROVE ReferInv'
    OBVIOUS
  <2>0. /\ News \subseteq [topic : Topics, day : Days, hour : Hours]
        /\ FirstDay \in Nat
    BY ScheduleAssumption
  <2>a. /\ ContentTyped /\ hour \in Hours /\ today \in Days
        /\ date \in [Jobs -> Days]
        /\ topic \in [Topics -> {"unborn", "present", "deleted"}]
    BY DEF TypeInv, TypeOK, RegistryTypeOK, ContentTyped
  <2>b. HistoryRefers /\ dependents \subseteq Present
    BY DEF ReferInv
  <2>c. ASSUME UNCHANGED registry, HistoryRefers' PROVE ReferInv'
    BY <2>b, <2>c DEF registry, ReferInv, Present
  <2>d. ASSUME UNCHANGED registry, UNCHANGED content PROVE ReferInv'
    <3>1. HistoryRefers'
      BY <2>b, <2>d DEF registry, content, HistoryRefers
    <3>q. QED
      BY <2>c, <2>d, <3>1
  <2>e. ASSUME UNCHANGED registry, NEW c \in Jobs, NEW t \in Topics, NEW d \in Days,
               Call(c, t, d) \/ CallFails(c, t, d)
        PROVE  ReferInv'
    <3>1. HistoryRefers'
      BY <2>a, <2>b, <2>e, CallRefers DEF registry
    <3>q. QED
      BY <2>c, <2>e, <3>1
  <2>1. CASE Tick
    BY <2>1, <2>d DEF Tick
  <2>2. ASSUME NEW t \in Topics, Topic(t) PROVE ReferInv'
    <3>1. HistoryRefers'
      BY <2>b, <2>2 DEF Topic, RegistryStep, CreateTopic, CheckDelete, Delete, content, HistoryRefers
    <3>2. dependents' \subseteq Present'
      BY <2>a, <2>b, <2>2 DEF Topic, RegistryStep, CreateTopic, CheckDelete, Delete, Restricted, Present
    <3>q. QED
      BY <3>1, <3>2 DEF ReferInv
  <2>3. ASSUME NEW a \in News, Break(a) PROVE ReferInv'
    BY <2>0, <2>b, <2>3 DEF Break, Refer, Present, ReferInv, HistoryRefers
  <2>4. ASSUME NEW c \in Jobs, Fire(c) \/ Skip(c) \/ BeginCall(c) PROVE ReferInv'
    BY <2>4, <2>d DEF Fire, Skip, BeginCall
  <2>5. ASSUME NEW c \in Jobs, EndCall(c) \/ CallRaises(c) PROVE ReferInv'
    BY <2>5, <2>a, <2>e DEF EndCall, CallRaises
  <2>6. ASSUME NEW c \in Jobs, NEW t \in Topics, NEW d \in FirstDay..today, Trigger(c, t, d)
        PROVE  ReferInv'
    <3>1. d \in Days
      BY <2>0, <2>a, ScheduleAssumption DEF Days
    <3>q. QED
      BY <2>6, <2>e, <3>1 DEF Trigger
  <2>7. CASE Stop
    BY <2>7, <2>a, <2>d, <2>e DEF Stop
  <2>8. CASE Restart
    BY <2>8, <2>d DEF Restart
  <2>9. CASE UNCHANGED vars
    BY <2>9, <2>d DEF vars
  <2>q. QED
    BY <2>1, <2>2, <2>3, <2>4, <2>5, <2>6, <2>7, <2>8, <2>9 DEF Next, JobStep
<1>q. QED
  BY <1>1, <1>2, TypeInvariant, PTL DEF Spec

\* Runs, summaries and briefs name topics that exist.
THEOREM HistoryKeepsTopics == Spec => []HistoryHasTopic
<1>1. ReferInv => HistoryHasTopic
  BY DEF ReferInv, HistoryRefers, HistoryHasTopic
<1>q. QED
  BY <1>1, ReferInvariant, PTL

-----------------------------------------------------------------------------
(***************************************************************************)
(* Windows: a job fires on one day of its window, and on that day asks for *)
(* the window of every day it is the job day of.                           *)
(***************************************************************************)
Periodic == {"weekly", "monthly"}

LEMMA WeekFacts ==
  ASSUME NEW d \in Days
  PROVE  /\ WeekStart(d) \in Int /\ WeekEnd(d) \in Int
         /\ WeekStart(d) <= d /\ d <= WeekEnd(d)
         /\ WeekStart(WeekEnd(d)) = WeekStart(d)
<1>1. d \in Int /\ WeekLength \in Nat \ {0}
  BY ScheduleAssumption DEF Days
<1>2. d % WeekLength \in 0..(WeekLength - 1) /\ d = WeekLength * (d \div WeekLength) + (d % WeekLength)
  BY <1>1
<1>3. WeekStart(WeekEnd(d)) = WeekStart(d)
  BY <1>1 DEF WeekStart, WeekEnd
<1>q. QED
  BY <1>1, <1>2, <1>3 DEF WeekStart, WeekEnd

LEMMA MonthFacts ==
  ASSUME NEW d \in Days
  PROVE  /\ MonthStart(d) \in Months /\ MonthStart(d) \in Int
         /\ MonthStart(d) <= d
         /\ \A g \in Months : g <= d => g <= MonthStart(d)
<1>1. \E f \in Months : f <= d /\ \A g \in Months : g <= d => g <= f
  BY ScheduleAssumption
<1>2. /\ MonthStart(d) \in Months
      /\ MonthStart(d) <= d /\ \A g \in Months : g <= d => g <= MonthStart(d)
  BY <1>1 DEF MonthStart
<1>3. Months \subseteq Int
  BY ScheduleAssumption
<1>q. QED
  BY <1>2, <1>3

LEMMA MonthEndFacts ==
  ASSUME NEW d \in Days
  PROVE  /\ MonthEnd(d) \in Int
         /\ \E f \in Months : f > d /\ MonthEnd(d) = f - 1
<1>1. PICK f \in Months : f > d /\ \A g \in Months : g > d => f <= g
  BY ScheduleAssumption
<1>. DEFINE next == CHOOSE h \in Months : h > d /\ \A g \in Months : g > d => h <= g
<1>2. next \in Months /\ next > d
  BY <1>1
<1>3. MonthEnd(d) = next - 1
  BY DEF MonthEnd
<1>4. Months \subseteq Int
  BY ScheduleAssumption
<1>. HIDE DEF next
<1>q. QED
  BY <1>2, <1>3, <1>4

LEMMA JobDayFacts ==
  ASSUME NEW c \in Periodic, NEW d \in Days
  PROVE  JobDay(c, d) \in Int /\ FiresOn(c, JobDay(c, d))
<1>1. CASE c = "weekly"
  BY <1>1, WeekFacts DEF JobDay, FiresOn, WeekEnd
<1>2. CASE c = "monthly"
  BY <1>2, MonthFacts DEF JobDay, FiresOn
<1>q. QED
  BY <1>1, <1>2 DEF Periodic

LEMMA FiresOnce ==
  ASSUME NEW c \in Jobs, NEW e \in Days, NEW f \in Days,
         FiresOn(c, e), FiresOn(c, f), Start(c, e) = Start(c, f)
  PROVE  e = f
<1>0. e \in Int /\ f \in Int
  BY ScheduleAssumption DEF Days
<1>1. CASE c = "daily"
  BY <1>1 DEF Start
<1>2. CASE c = "weekly"
  BY <1>2 DEF Start, FiresOn, WeekEnd
<1>3. CASE c = "monthly"
  <2>1. MonthStart(e) = e /\ MonthStart(f) = f
    BY <1>0, <1>3, MonthFacts DEF FiresOn
  <2>q. QED
    BY <1>3, <2>1 DEF Start
<1>q. QED
  BY <1>1, <1>2, <1>3 DEF Jobs

LEMMA JobDayTouches ==
  ASSUME NEW c \in Periodic, NEW s, NEW d \in Dates(s), d \in Days, JobDay(c, d) \in Days
  PROVE  Touches(s, c, JobDay(c, d))
<1>. DEFINE j == JobDay(c, d)
<1>0. d \in Int /\ j \in Int /\ j \in Days
  BY ScheduleAssumption DEF Days
<1>1. CASE c = "weekly"
  <2>1. j = WeekEnd(d)
    BY <1>1 DEF JobDay
  <2>2. WeekStart(j) <= d /\ d <= WeekEnd(j)
    BY <1>0, <2>1, WeekFacts DEF WeekEnd
  <2>q. QED
    BY <1>1, <2>2 DEF Touches, Start, End
<1>2. CASE c = "monthly"
  <2>1. j = MonthStart(d)
    BY <1>2 DEF JobDay
  <2>2. MonthStart(j) <= d
    BY <1>0, <2>1, MonthFacts
  <2>3. PICK f \in Months : f > j /\ MonthEnd(j) = f - 1
    BY <1>0, MonthEndFacts
  <2>4. f \in Int /\ ~(f <= d)
    BY <1>0, <2>1, <2>3, MonthFacts, ScheduleAssumption
  <2>q. QED
    BY <1>0, <1>2, <2>2, <2>3, <2>4 DEF Touches, Start, End
<1>q. QED
  BY <1>1, <1>2 DEF Periodic

-----------------------------------------------------------------------------
(***************************************************************************)
(* What a call adds, and what it must cite.                                *)
(***************************************************************************)
LEMMA CallOutcome ==
  ASSUME ContentTyped, hour \in Hours,
         NEW c \in Jobs, NEW t \in Topics, NEW d \in Days, Call(c, t, d)
  PROVE  /\ summaries \subseteq summaries' /\ briefs \subseteq briefs'
         /\ started' \subseteq started \cup {RunOf(c, t, d)}
         /\ \A s \in summaries' \ summaries :
              /\ TopicOf(s) = t /\ s.date = d /\ s.hour = hour
              /\ RunOf(c, t, d) \notin started /\ d \in Dates(s) => s \in CitedBy("daily")'
         /\ RunOf(c, t, d) \notin started /\ c # "daily" =>
              \A s \in summaries : TopicOf(s) = t /\ Touches(s, c, d) => s \in CitedBy(c)'
<1>0. PICK batch \in Batches(c, t, d) :
        \E made \in SummariesOf(batch, d) :
          /\ batched' = batched \cup batch
          /\ summaries' = summaries \cup made
          /\ Execute(RunOf(c, t, d), Evidence(c, t, d, made))
          /\ UNCHANGED articles
  BY DEF Call
<1>1. PICK made \in SummariesOf(batch, d) :
        /\ summaries' = summaries \cup made
        /\ Execute(RunOf(c, t, d), Evidence(c, t, d, made))
  BY <1>0
<1>2. /\ summaries \subseteq summaries' /\ briefs \subseteq briefs'
      /\ started' \subseteq started \cup {RunOf(c, t, d)}
  BY <1>1 DEF Execute
<1>3. ASSUME NEW s \in made PROVE TopicOf(s) = t /\ s.date = d /\ s.hour = hour /\ c = "daily"
  <2>1. s.news = batch /\ s.date = d /\ s.hour = hour /\ (\A a \in batch : a.topic = t)
    BY MadeTyped, <1>3
  <2>2. batch # {}
    BY <1>3 DEF SummariesOf
  <2>3. (CHOOSE a \in batch : TRUE) \in batch
    BY <2>2
  <2>4. TopicOf(s) = t
    BY <2>1, <2>3 DEF TopicOf
  <2>q. QED
    BY <2>1, <2>2, <2>4 DEF Batches
<1>. DEFINE brief == [run |-> RunOf(c, t, d), cites |-> Evidence(c, t, d, made)]
<1>4. RunOf(c, t, d).cadence = c
  BY DEF RunOf
<1>5. ASSUME RunOf(c, t, d) \notin started, NEW s \in Evidence(c, t, d, made)
      PROVE  s \in CitedBy(c)'
  <2>1. brief \in briefs'
    BY <1>1, <1>5 DEF Execute
  <2>2. s \in summaries'
    BY <1>1, <1>5 DEF Evidence
  <2>3. brief.run.cadence = c /\ s \in brief.cites
    BY <1>4, <1>5
  <2>q. QED
    BY <2>1, <2>2, <2>3 DEF CitedBy
<1>6. ASSUME NEW s \in summaries' \ summaries, RunOf(c, t, d) \notin started, d \in Dates(s)
      PROVE  s \in CitedBy("daily")'
  <2>1. s \in made /\ c = "daily"
    BY <1>1, <1>3, <1>6
  <2>2. s \in Evidence(c, t, d, made)
    BY <2>1, <1>6 DEF Evidence
  <2>q. QED
    BY <1>5, <1>6, <2>1, <2>2
<1>7. ASSUME RunOf(c, t, d) \notin started, c # "daily",
             NEW s \in summaries, TopicOf(s) = t, Touches(s, c, d)
      PROVE  s \in CitedBy(c)'
  <2>1. CASE \E b \in briefs : b.run.cadence = c /\ s \in b.cites
    BY <1>2, <2>1 DEF CitedBy
  <2>2. CASE ~ \E b \in briefs : b.run.cadence = c /\ s \in b.cites
    <3>1. s \in Evidence(c, t, d, made)
      BY <1>7, <2>2 DEF Evidence
    <3>q. QED
      BY <1>5, <1>7, <3>1
  <2>q. QED
    BY <2>1, <2>2
<1>q. QED
  BY <1>1, <1>2, <1>3, <1>6, <1>7

LEMMA CallFailsOutcome ==
  ASSUME ContentTyped, hour \in Hours,
         NEW c \in Jobs, NEW t \in Topics, NEW d \in Days, CallFails(c, t, d)
  PROVE  /\ summaries \subseteq summaries' /\ briefs \subseteq briefs'
         /\ started' \subseteq started \cup {RunOf(c, t, d)}
         /\ \A s \in summaries' \ summaries : TopicOf(s) = t
<1>0. PICK batch \in Batches(c, t, d) :
        \E made \in SummariesOf(batch, d) :
          /\ batched' = batched \cup batch
          /\ summaries' = summaries \cup made
          /\ started' \in {started} \cup
               {started \cup {RunOf(c, t, d)} : s \in Evidence(c, t, d, made)}
          /\ UNCHANGED <<articles, briefs>>
  BY DEF CallFails
<1>1. PICK made \in SummariesOf(batch, d) :
        /\ summaries' = summaries \cup made
        /\ started' \in {started} \cup
             {started \cup {RunOf(c, t, d)} : s \in Evidence(c, t, d, made)}
        /\ UNCHANGED <<articles, briefs>>
  BY <1>0
<1>2. ASSUME NEW s \in made PROVE TopicOf(s) = t
  <2>1. s.news = batch /\ (\A a \in batch : a.topic = t)
    BY MadeTyped, <1>2
  <2>2. (CHOOSE a \in batch : TRUE) \in batch
    BY <1>2 DEF SummariesOf
  <2>q. QED
    BY <2>1, <2>2 DEF TopicOf
<1>q. QED
  BY <1>1, <1>2

LEMMA CitedStays ==
  ASSUME NEW c \in Jobs, summaries \subseteq summaries', briefs \subseteq briefs',
         NEW s \in CitedBy(c)
  PROVE  s \in CitedBy(c)'
BY DEF CitedBy

-----------------------------------------------------------------------------
(***************************************************************************)
(* The strengthening of ReadyNewsIsBriefed.                                *)
(***************************************************************************)
\* The job of cadence c that fires on day e is past topic t.
JobDone(c, e, t) ==
  \/ e < today
  \/ e = today /\ HourOf(c) <= hour /\ c \notin due /\ t \notin todo[c]

\* Jobs are due or at work on the day they fire only, and ask for that day.
JobsOnTime ==
  \A c \in Jobs :
    /\ phase[c] # "off" \/ c \in due => FiresOn(c, today) /\ HourOf(c) <= hour
    /\ c \in due => phase[c] = "off"
    /\ phase[c] = "off" => todo[c] = {}
    /\ phase[c] = "call" => date[c] = today

\* A run is started by its job, so that job still finds it absent.
RunByJob(r) ==
  r.topic \notin excused =>
    \E e \in Days :
      /\ FiresOn(r.cadence, e) /\ r.start = Start(r.cadence, e)
      /\ JobDone(r.cadence, e, r.topic)

Timed(s) == TopicOf(s) \notin excused => s.date < today \/ (s.date = today /\ s.hour <= hour)

\* A ready summary is cited once the job of its window is past its topic.
BriefedBy(s, c, d) ==
  ReadyFor(s, c, d) /\ JobDone(c, JobDay(c, d), TopicOf(s)) => s \in CitedBy(c)

Briefed(s) ==
  TopicOf(s) \notin excused =>
    /\ s.date \in Dates(s) => s \in CitedBy("daily")
    /\ \A c \in Periodic, d \in Dates(s) : BriefedBy(s, c, d)

ContentBriefed ==
  /\ \A r \in started : RunByJob(r)
  /\ \A s \in summaries : Timed(s) /\ Briefed(s)

BriefInv == ~missed => JobsOnTime /\ ContentBriefed

LEMMA HourInt == Hours \subseteq Int
BY DEF Hours

\* What is known of the state.
LEMMA Facts ==
  ASSUME TypeInv, ReferInv
  PROVE  /\ ContentTyped /\ today \in Days /\ hour \in Hours /\ hour \in Int
         /\ Days \subseteq Int /\ Topics \subseteq Int
         /\ due \subseteq Jobs /\ Periodic \subseteq Jobs /\ "daily" \in Jobs
         /\ phase \in [Jobs -> {"off", "loop", "call"}]
         /\ todo \in [Jobs -> SUBSET Topics]
         /\ date \in [Jobs -> Days]
         /\ \A c \in Jobs : HourOf(c) \in {2, 3, 4}
         /\ \A s \in summaries : TopicOf(s) \in Present /\ Dates(s) \subseteq Days
         /\ \A s \in summaries : s.date \in Days /\ s.hour \in Hours
<1>1. ContentTyped /\ today \in Days /\ hour \in Hours
  BY DEF TypeInv, TypeOK, ContentTyped
<1>2. /\ due \subseteq Jobs /\ phase \in [Jobs -> {"off", "loop", "call"}]
      /\ todo \in [Jobs -> SUBSET Topics] /\ date \in [Jobs -> Days]
  BY DEF TypeInv, TypeOK
<1>3. /\ Days \subseteq Int /\ Topics \subseteq Int /\ hour \in Int
      /\ News \subseteq [topic : Topics, day : Days, hour : Hours]
  BY <1>1, ScheduleAssumption, RegistryAssumption DEF Days, Hours
<1>4. \A s \in summaries : TopicOf(s) \in Present
  BY <1>1, TopicOfNews DEF ReferInv
<1>5. \A s \in summaries : s.date \in Days /\ s.hour \in Hours /\ s.news \subseteq News
  BY <1>1 DEF ContentTyped, Summary
<1>6. \A s \in summaries : Dates(s) \subseteq Days
  BY <1>3, <1>5 DEF Dates
<1>7. \A c \in Jobs : HourOf(c) \in {2, 3, 4}
  BY DEF Jobs, HourOf
<1>q. QED
  BY <1>1, <1>2, <1>3, <1>4, <1>5, <1>6, <1>7 DEF Periodic, Jobs

\* ContentBriefed is kept by a step that takes no job back, lets a job past a
\* topic only if what is ready is cited, and adds what is as it should be.
LEMMA BriefedKept ==
  ASSUME TypeInv, ReferInv, ContentBriefed,
         today' \in Days, hour' \in Hours,
         today < today' \/ (today = today' /\ hour <= hour'),
         excused \subseteq excused',
         summaries \subseteq summaries', briefs \subseteq briefs',
         \A r \in started' \ started : RunByJob(r)',
         \A s \in summaries' \ summaries : Timed(s)' /\ Briefed(s)',
         \A c \in Jobs, e \in Days, t \in Topics : JobDone(c, e, t) => JobDone(c, e, t)',
         \A s \in summaries, c \in Periodic : \A d \in Dates(s) :
           TopicOf(s) \notin excused' /\ ReadyFor(s, c, d) /\ JobDone(c, JobDay(c, d), TopicOf(s))'
             => JobDone(c, JobDay(c, d), TopicOf(s)) \/ s \in CitedBy(c)'
  PROVE  ContentBriefed'
<1>0. /\ ContentTyped /\ Days \subseteq Int /\ today \in Days /\ hour \in Int
      /\ Periodic \subseteq Jobs /\ "daily" \in Jobs
      /\ \A s \in summaries : s.date \in Days /\ s.hour \in Hours /\ Dates(s) \subseteq Days
  BY Facts
<1>1. ASSUME NEW r \in started PROVE RunByJob(r)'
  <2>1. r.cadence \in Jobs /\ r.topic \in Topics
    BY <1>0 DEF ContentTyped, Run
  <2>q. QED
    BY <1>1, <2>1 DEF ContentBriefed, RunByJob
<1>2. ASSUME NEW s \in summaries PROVE Timed(s)'
  <2>1. TopicOf(s) \notin excused => s.date < today \/ (s.date = today /\ s.hour <= hour)
    BY <1>2 DEF ContentBriefed, Timed
  <2>2. s.date \in Int /\ today \in Int /\ today' \in Int
    BY <1>0, <1>2
  <2>3. s.hour \in Int /\ hour' \in Int
    BY <1>0, <1>2, HourInt
  <2>4. TopicOf(s) \notin excused' => s.date < today' \/ (s.date = today' /\ s.hour <= hour')
    BY <1>0, <2>1, <2>2, <2>3
  <2>q. QED
    BY <2>4 DEF Timed
<1>3. ASSUME NEW s \in summaries PROVE Briefed(s)'
  <2>. SUFFICES ASSUME TopicOf(s) \notin excused'
                PROVE  /\ s.date \in Dates(s) => s \in CitedBy("daily")'
                       /\ \A c \in Periodic, d \in Dates(s) : BriefedBy(s, c, d)'
    BY DEF Briefed
  <2>1. Briefed(s) /\ TopicOf(s) \notin excused
    BY DEF ContentBriefed
  <2>2. s.date \in Dates(s) => s \in CitedBy("daily")'
    BY <1>0, <2>1, CitedStays DEF Briefed
  <2>3. ASSUME NEW c \in Periodic, NEW d \in Dates(s) PROVE BriefedBy(s, c, d)'
    BY <1>0, <2>1, CitedStays DEF Briefed, BriefedBy
  <2>q. QED
    BY <2>2, <2>3
<1>q. QED
  BY <1>1, <1>2, <1>3 DEF ContentBriefed

LEMMA NextHours ==
  /\ hour = 0 => NextHour = 2
  /\ hour = 2 => NextHour = 3
  /\ hour = 3 => NextHour = 4
  /\ hour = 4 => NextHour = 0
<1>1. hour = 0 => NextHour = 2
  BY DEF NextHour
<1>2. hour = 2 => NextHour = 3
  BY DEF NextHour
<1>3. hour = 3 => NextHour = 4
  BY DEF NextHour
<1>4. hour = 4 => NextHour = 0
  BY DEF NextHour
<1>q. QED
  BY <1>1, <1>2, <1>3, <1>4

LEMMA TickBriefed ==
  ASSUME TypeInv, TypeInv', ReferInv, JobsOnTime, ContentBriefed, Tick, ~missed'
  PROVE  JobsOnTime' /\ ContentBriefed'
<1>0. /\ ContentTyped /\ today \in Days /\ hour \in Hours /\ hour \in Int
      /\ Days \subseteq Int /\ due \subseteq Jobs /\ Periodic \subseteq Jobs
      /\ \A c \in Jobs : HourOf(c) \in {2, 3, 4}
      /\ \A s \in summaries : Dates(s) \subseteq Days
  BY Facts
<1>. DEFINE fired == {c \in Jobs : HourOf(c) = hour' /\ FiresOn(c, today)}
<1>1. /\ due = {} /\ hour' = NextHour /\ today' = IF hour' = 0 THEN today + 1 ELSE today
      /\ due' = {c \in fired : up /\ phase[c] = "off"}
      /\ missed' = (missed \/ (~up /\ fired # {}) \/ (hour' = 0 /\ \E c \in Jobs : phase[c] # "off"))
      /\ UNCHANGED <<phase, todo, date, started, summaries, briefs, excused>>
  BY DEF Tick, content
<1>2. \/ hour' = 0 /\ hour = 4 /\ today' = today + 1
      \/ /\ today' = today
         /\ (hour = 0 /\ hour' = 2) \/ (hour = 2 /\ hour' = 3) \/ (hour = 3 /\ hour' = 4)
  <2>1. hour = 0 \/ hour = 2 \/ hour = 3 \/ hour = 4
    BY <1>0 DEF Hours
  <2>2. (hour' = 0 => today' = today + 1) /\ (hour' # 0 => today' = today)
    BY <1>1
  <2>3. hour' = NextHour
    BY <1>1
  <2>q. QED
    BY <2>1, <2>2, <2>3, NextHours
<1>3. today' \in Days /\ hour' \in Hours
  BY DEF TypeInv, TypeOK
<1>4. ~(~up /\ fired # {}) /\ ~(hour' = 0 /\ \E c \in Jobs : phase[c] # "off")
  BY <1>1
<1>. HIDE DEF fired
<1>5. ASSUME NEW c \in Jobs, phase[c] # "off" PROVE FiresOn(c, today) /\ HourOf(c) <= hour /\ today' = today
  BY <1>2, <1>4, <1>5 DEF JobsOnTime
<1>6. ASSUME NEW c \in fired PROVE c \in due' /\ today' = today /\ FiresOn(c, today) /\ HourOf(c) = hour'
  <2>1. c \in Jobs /\ HourOf(c) = hour' /\ FiresOn(c, today)
    BY <1>6 DEF fired
  <2>2. up /\ hour' # 0 /\ today' = today
    BY <1>0, <1>2, <1>4, <1>6, <2>1
  <2>3. phase[c] = "off"
    BY <1>0, <1>2, <1>5, <2>1
  <2>q. QED
    BY <1>1, <1>6, <2>1, <2>2, <2>3
<1>7. JobsOnTime'
  <2>. SUFFICES ASSUME NEW c \in Jobs
                PROVE  /\ phase[c] # "off" \/ c \in due' => FiresOn(c, today') /\ HourOf(c) <= hour'
                       /\ c \in due' => phase[c] = "off"
                       /\ phase[c] = "off" => todo[c] = {}
                       /\ phase[c] = "call" => date[c] = today'
    BY <1>1 DEF JobsOnTime
  <2>1. c \in due' => c \in fired /\ phase[c] = "off"
    BY <1>1
  <2>2. (phase[c] = "off" => todo[c] = {}) /\ (phase[c] = "call" => date[c] = today)
    BY DEF JobsOnTime
  <2>3. phase[c] # "off" => FiresOn(c, today') /\ HourOf(c) <= hour'
    BY <1>0, <1>2, <1>5
  <2>4. c \in due' => FiresOn(c, today') /\ HourOf(c) <= hour'
    BY <1>0, <1>6, <2>1
  <2>5. phase[c] = "call" => date[c] = today'
    BY <1>5, <2>2
  <2>q. QED
    BY <2>1, <2>2, <2>3, <2>4, <2>5
<1>8. ASSUME NEW c \in Jobs, NEW e \in Days, NEW t \in Topics, JobDone(c, e, t)
      PROVE  JobDone(c, e, t)'
  <2>1. CASE e < today \/ today' = today + 1
    BY <1>0, <1>2, <1>8, <2>1 DEF JobDone
  <2>2. CASE e = today /\ today' = today /\ HourOf(c) <= hour /\ t \notin todo[c]
    <3>1. c \notin due'
      BY <1>0, <1>1, <1>2, <2>2 DEF fired
    <3>q. QED
      BY <1>0, <1>1, <1>2, <2>2, <3>1 DEF JobDone
  <2>q. QED
    BY <1>0, <1>2, <1>8, <2>1, <2>2 DEF JobDone
<1>9. ASSUME NEW s \in summaries, NEW c \in Periodic, NEW d \in Dates(s),
             JobDone(c, JobDay(c, d), TopicOf(s))'
      PROVE  JobDone(c, JobDay(c, d), TopicOf(s))
  <2>0. d \in Days /\ c \in Jobs /\ JobDay(c, d) \in Int /\ FiresOn(c, JobDay(c, d))
    BY <1>0, JobDayFacts
  <2>1. CASE today' = today + 1
    <3>1. phase[c] = "off" /\ todo[c] = {} /\ hour = 4 /\ hour' = 0
      BY <1>0, <1>2, <1>4, <2>0, <2>1 DEF JobsOnTime
    <3>2. JobDay(c, d) < today + 1
      BY <1>0, <1>9, <2>0, <2>1, <3>1 DEF JobDone
    <3>q. QED
      BY <1>0, <1>1, <2>0, <3>1, <3>2 DEF JobDone
  <2>2. CASE today' = today
    <3>1. CASE JobDay(c, d) < today
      BY <3>1 DEF JobDone
    <3>2. CASE JobDay(c, d) = today
      <4>1. HourOf(c) <= hour' /\ c \notin due' /\ TopicOf(s) \notin todo[c]
        BY <1>0, <1>1, <1>9, <2>2, <3>2 DEF JobDone
      <4>2. HourOf(c) # hour'
        BY <1>6, <2>0, <3>2, <4>1 DEF fired
      <4>3. HourOf(c) <= hour
        BY <1>0, <1>2, <2>0, <2>2, <4>1, <4>2
      <4>q. QED
        BY <1>1, <3>2, <4>1, <4>3 DEF JobDone
    <3>q. QED
      BY <1>0, <1>9, <2>0, <2>2, <3>1, <3>2 DEF JobDone
  <2>q. QED
    BY <1>2, <2>1, <2>2
<1>10. ContentBriefed'
  BY <1>0, <1>1, <1>2, <1>3, <1>8, <1>9, BriefedKept
<1>q. QED
  BY <1>7, <1>10

\* A step that touches neither clock, jobs nor what is briefed.
LEMMA QuietBriefed ==
  ASSUME ContentBriefed,
         UNCHANGED <<today, hour, due, todo, started, summaries, briefs, excused>>
  PROVE  ContentBriefed'
BY DEF ContentBriefed, RunByJob, JobDone, Timed, Briefed, BriefedBy, CitedBy

LEMMA FireBriefed ==
  ASSUME TypeInv, TypeInv', ReferInv, JobsOnTime, ContentBriefed, NEW f \in Jobs, Fire(f)
  PROVE  JobsOnTime' /\ ContentBriefed'
<1>0. /\ ContentTyped /\ today \in Days /\ hour \in Int /\ Days \subseteq Int
      /\ Periodic \subseteq Jobs
      /\ phase \in [Jobs -> {"off", "loop", "call"}] /\ todo \in [Jobs -> SUBSET Topics]
      /\ \A s \in summaries : TopicOf(s) \in Present
  BY Facts
<1>1. /\ f \in due /\ phase[f] = "off" /\ due' = due \ {f}
      /\ todo' = [todo EXCEPT ![f] = Present]
      /\ phase' = [phase EXCEPT ![f] = IF Present = {} THEN "off" ELSE "loop"]
      /\ UNCHANGED <<today, hour, date, started, summaries, briefs, excused>>
  BY DEF Fire, Goto, clock, content, history
<1>2. JobsOnTime'
  BY <1>0, <1>1 DEF JobsOnTime
<1>3. ASSUME NEW c \in Jobs, NEW e \in Days, NEW t \in Topics, JobDone(c, e, t)
      PROVE  JobDone(c, e, t)'
  BY <1>0, <1>1, <1>3 DEF JobDone
<1>4. ASSUME NEW s \in summaries, NEW c \in Periodic, NEW d \in Dates(s),
             JobDone(c, JobDay(c, d), TopicOf(s))'
      PROVE  JobDone(c, JobDay(c, d), TopicOf(s))
  <2>1. CASE c = f
    BY <1>0, <1>1, <1>4, <2>1 DEF JobDone
  <2>2. CASE c # f
    BY <1>0, <1>1, <1>4, <2>2 DEF JobDone
  <2>q. QED
    BY <2>1, <2>2
<1>q. QED
  BY <1>0, <1>1, <1>2, <1>3, <1>4, BriefedKept DEF TypeInv, TypeOK

\* The job that is at t finds no run for its window.
LEMMA RunAbsent ==
  ASSUME TypeInv, JobsOnTime, ContentBriefed, NEW c \in Jobs, NEW t \in Topics,
         phase[c] = "call", t \in todo[c], t \notin excused
  PROVE  RunOf(c, t, today) \notin started
<1>1. today \in Days /\ today \in Int
  BY ScheduleAssumption DEF TypeInv, TypeOK, Days
<1>2. FiresOn(c, today)
  BY DEF JobsOnTime
<1>. DEFINE r == RunOf(c, t, today)
<1>3. r.cadence = c /\ r.topic = t /\ r.start = Start(c, today)
  BY DEF RunOf
<1>4. SUFFICES ASSUME r \in started PROVE FALSE
  OBVIOUS
<1>5. PICK e \in Days : FiresOn(c, e) /\ Start(c, today) = Start(c, e) /\ JobDone(c, e, t)
  BY <1>3, <1>4 DEF ContentBriefed, RunByJob
<1>6. e = today
  BY <1>1, <1>2, <1>5, FiresOnce
<1>q. QED
  BY <1>1, <1>5, <1>6 DEF JobDone

\* The jobs after a call of job a for topic u.
LEMMA AdvanceOnTime ==
  ASSUME TypeInv, JobsOnTime, NEW a \in Jobs, NEW u \in Topics,
         phase[a] = "call", First(a, u), Advance(a, u), UNCHANGED clock
  PROVE  /\ JobsOnTime'
         /\ JobDone(a, today, u)'
         /\ \A c \in Jobs, e \in Days, t \in Topics : JobDone(c, e, t) => JobDone(c, e, t)'
         /\ \A c \in Jobs, e \in Days, t \in Topics :
              JobDone(c, e, t)' => JobDone(c, e, t) \/ (c = a /\ e = today /\ t = u)
<1>0. /\ phase \in [Jobs -> {"off", "loop", "call"}] /\ todo \in [Jobs -> SUBSET Topics]
      /\ date \in [Jobs -> Days]
  BY DEF TypeInv, TypeOK
<1>1. /\ todo' = [todo EXCEPT ![a] = todo[a] \ {u}] /\ due' = due
      /\ phase' = [phase EXCEPT ![a] = IF todo[a] \ {u} = {} THEN "off" ELSE "loop"]
      /\ date' = [date EXCEPT ![a] = FirstDay]
      /\ today' = today /\ hour' = hour
  BY DEF Advance, Goto, clock
<1>2. FiresOn(a, today) /\ HourOf(a) <= hour /\ a \notin due
  BY DEF JobsOnTime
<1>3. JobsOnTime'
  BY <1>0, <1>1, <1>2 DEF JobsOnTime
<1>4. JobDone(a, today, u)'
  BY <1>0, <1>1, <1>2 DEF JobDone
<1>5. ASSUME NEW c \in Jobs, NEW e \in Days, NEW t \in Topics, JobDone(c, e, t)
      PROVE  JobDone(c, e, t)'
  BY <1>0, <1>1, <1>5 DEF JobDone
<1>6. ASSUME NEW c \in Jobs, NEW e \in Days, NEW t \in Topics, JobDone(c, e, t)'
      PROVE  JobDone(c, e, t) \/ (c = a /\ e = today /\ t = u)
  BY <1>0, <1>1, <1>6 DEF JobDone
<1>q. QED
  BY <1>3, <1>4, <1>5, <1>6

LEMMA EndCallBriefed ==
  ASSUME TypeInv, TypeInv', ReferInv, JobsOnTime, ContentBriefed, NEW a \in Jobs, EndCall(a)
  PROVE  JobsOnTime' /\ ContentBriefed'
<1>0. /\ ContentTyped /\ today \in Days /\ hour \in Hours /\ hour \in Int /\ Days \subseteq Int
      /\ Periodic \subseteq Jobs /\ "daily" \notin Periodic
      /\ \A c \in Jobs : HourOf(c) \in {2, 3, 4}
      /\ \A s \in summaries : TopicOf(s) \in Present /\ Dates(s) \subseteq Days
  BY Facts DEF Periodic
<1>1. phase[a] = "call" /\ date[a] = today
  BY DEF EndCall, JobsOnTime
<1>2. PICK u \in Topics : First(a, u) /\ Call(a, u, today) /\ Advance(a, u)
  BY <1>1 DEF EndCall
<1>3. UNCHANGED clock /\ UNCHANGED <<today, hour, excused>>
  BY DEF EndCall, clock, history
<1>4. /\ JobsOnTime'
      /\ JobDone(a, today, u)'
      /\ \A c \in Jobs, e \in Days, t \in Topics : JobDone(c, e, t) => JobDone(c, e, t)'
      /\ \A c \in Jobs, e \in Days, t \in Topics :
           JobDone(c, e, t)' => JobDone(c, e, t) \/ (c = a /\ e = today /\ t = u)
  BY <1>1, <1>2, <1>3, AdvanceOnTime
<1>r. PICK r : r = RunOf(a, u, today)
  OBVIOUS
<1>5. u \notin excused => r \notin started
  BY <1>1, <1>2, <1>r, RunAbsent DEF First
<1>6. /\ summaries \subseteq summaries' /\ briefs \subseteq briefs'
      /\ started' \subseteq started \cup {r}
      /\ \A s \in summaries' \ summaries :
           /\ TopicOf(s) = u /\ s.date = today /\ s.hour = hour
           /\ r \notin started /\ today \in Dates(s) => s \in CitedBy("daily")'
      /\ r \notin started /\ a # "daily" =>
           \A s \in summaries : TopicOf(s) = u /\ Touches(s, a, today) => s \in CitedBy(a)'
  BY <1>0, <1>2, <1>r, CallOutcome
<1>7. RunByJob(r)'
  <2>1. r.cadence = a /\ r.topic = u /\ r.start = Start(a, today)
    BY <1>r DEF RunOf
  <2>2. FiresOn(a, today)
    BY <1>1 DEF JobsOnTime
  <2>q. QED
    BY <1>0, <1>3, <1>4, <2>1, <2>2 DEF RunByJob
<1>8. ASSUME NEW s \in summaries' \ summaries PROVE Timed(s)' /\ Briefed(s)'
  <2>1. TopicOf(s) = u /\ s.date = today /\ s.hour = hour
    BY <1>6, <1>8
  <2>2. Timed(s)'
    BY <1>0, <1>3, <2>1 DEF Timed
  <2>3. u \notin excused /\ s.date \in Dates(s) => s \in CitedBy("daily")'
    BY <1>5, <1>6, <1>8, <2>1
  <2>4. ASSUME NEW c \in Periodic, NEW d \in Dates(s) PROVE BriefedBy(s, c, d)'
    <3>1. d \in Days
      <4>1. s \in Summary
        BY <1>8 DEF TypeInv, TypeOK
      <4>q. QED
        BY <2>4, <4>1, ScheduleAssumption DEF Summary, Dates
    <3>2. JobDay(c, d) \in Int /\ HourOf(c) \in Int /\ c \in Jobs
      BY <1>0, <3>1, JobDayFacts
    <3>3. ~(ReadyFor(s, c, d) /\ JobDone(c, JobDay(c, d), TopicOf(s))')
      BY <1>0, <1>3, <2>1, <3>2 DEF ReadyFor, JobDone
    <3>q. QED
      BY <3>3 DEF BriefedBy
  <2>q. QED
    BY <1>3, <2>1, <2>2, <2>3, <2>4 DEF Briefed
<1>9. ASSUME NEW s \in summaries, NEW c \in Periodic, NEW d \in Dates(s),
             TopicOf(s) \notin excused', ReadyFor(s, c, d), JobDone(c, JobDay(c, d), TopicOf(s))'
      PROVE  JobDone(c, JobDay(c, d), TopicOf(s)) \/ s \in CitedBy(c)'
  <2>0. /\ d \in Days /\ c \in Jobs /\ JobDay(c, d) \in Int
        /\ s.date \in Days /\ s.date \in Int
    BY <1>0, JobDayFacts DEF ContentTyped, Summary
  <2>1. JobDay(c, d) \in Days
    <3>1. s.date <= JobDay(c, d)
      BY <1>9, <2>0 DEF ReadyFor
    <3>2. JobDay(c, d) <= today
      BY <1>0, <1>3, <1>9, <2>0 DEF JobDone
    <3>q. QED
      BY <1>0, <2>0, <3>1, <3>2, ScheduleAssumption DEF Days
  <2>2. TopicOf(s) \in Topics
    BY <1>0 DEF Present
  <2>3. CASE c = a /\ JobDay(c, d) = today /\ TopicOf(s) = u
    <3>1. Touches(s, c, today)
      BY <2>0, <2>1, <2>3, JobDayTouches
    <3>2. r \notin started
      BY <1>3, <1>5, <1>9, <2>3
    <3>q. QED
      BY <1>0, <1>6, <2>3, <3>1, <3>2
  <2>q. QED
    BY <1>4, <1>9, <2>0, <2>1, <2>2, <2>3
<1>10. \A x \in started' \ started : RunByJob(x)'
  BY <1>6, <1>7
<1>q. QED
  BY <1>0, <1>3, <1>4, <1>6, <1>8, <1>9, <1>10, BriefedKept

\* A call that adds only what belongs to an excused topic.
LEMMA ExcusedBriefed ==
  ASSUME TypeInv, ReferInv, ContentBriefed, NEW u \in Topics, NEW r, r.topic = u,
         UNCHANGED clock, excused' = excused \cup {u},
         summaries \subseteq summaries', briefs \subseteq briefs',
         started' \subseteq started \cup {r},
         \A s \in summaries' \ summaries : TopicOf(s) = u,
         \A c \in Jobs, e \in Days, t \in Topics : JobDone(c, e, t) => JobDone(c, e, t)',
         \A c \in Jobs, e \in Days, t \in Topics :
           JobDone(c, e, t)' => JobDone(c, e, t) \/ t = u
  PROVE  ContentBriefed'
<1>0. /\ ContentTyped /\ today \in Days /\ hour \in Hours /\ hour \in Int /\ Days \subseteq Int
      /\ Periodic \subseteq Jobs
      /\ \A s \in summaries : TopicOf(s) \in Present /\ Dates(s) \subseteq Days
  BY Facts
<1>1. today' = today /\ hour' = hour
  BY DEF clock
<1>2. \A x \in started' \ started : RunByJob(x)'
  BY DEF RunByJob
<1>3. \A s \in summaries' \ summaries : Timed(s)' /\ Briefed(s)'
  BY DEF Timed, Briefed
<1>4. ASSUME NEW s \in summaries, NEW c \in Periodic, NEW d \in Dates(s),
             TopicOf(s) \notin excused', ReadyFor(s, c, d), JobDone(c, JobDay(c, d), TopicOf(s))'
      PROVE  JobDone(c, JobDay(c, d), TopicOf(s))
  <2>0. /\ d \in Days /\ c \in Jobs /\ JobDay(c, d) \in Int
        /\ s.date \in Days /\ s.date \in Int
    BY <1>0, JobDayFacts DEF ContentTyped, Summary
  <2>1. JobDay(c, d) \in Days
    <3>1. s.date <= JobDay(c, d)
      BY <1>4, <2>0 DEF ReadyFor
    <3>2. JobDay(c, d) <= today
      BY <1>0, <1>1, <1>4, <2>0 DEF JobDone
    <3>q. QED
      BY <1>0, <2>0, <3>1, <3>2, ScheduleAssumption DEF Days
  <2>2. TopicOf(s) \in Topics /\ TopicOf(s) # u
    BY <1>0, <1>4 DEF Present
  <2>q. QED
    BY <1>4, <2>0, <2>1, <2>2
<1>q. QED
  BY <1>0, <1>1, <1>2, <1>3, <1>4, BriefedKept

LEMMA CallRaisesBriefed ==
  ASSUME TypeInv, ReferInv, JobsOnTime, ContentBriefed, NEW a \in Jobs, CallRaises(a)
  PROVE  JobsOnTime' /\ ContentBriefed'
<1>1. phase[a] = "call" /\ date[a] = today /\ UNCHANGED clock /\ today \in Days
  BY DEF CallRaises, JobsOnTime, clock, TypeInv, TypeOK
<1>2. PICK u \in Topics : /\ First(a, u) /\ CallFails(a, u, today)
                          /\ excused' = excused \cup {u} /\ Advance(a, u)
  BY <1>1 DEF CallRaises, Survive
<1>3. PICK r : r = RunOf(a, u, today)
  OBVIOUS
<1>4. /\ summaries \subseteq summaries' /\ briefs \subseteq briefs'
      /\ started' \subseteq started \cup {r} /\ r.topic = u
      /\ \A s \in summaries' \ summaries : TopicOf(s) = u
  BY <1>1, <1>2, <1>3, CallFailsOutcome DEF RunOf, TypeInv, TypeOK, ContentTyped
<1>5. /\ JobsOnTime'
      /\ \A c \in Jobs, e \in Days, t \in Topics : JobDone(c, e, t) => JobDone(c, e, t)'
      /\ \A c \in Jobs, e \in Days, t \in Topics :
           JobDone(c, e, t)' => JobDone(c, e, t) \/ t = u
  BY <1>1, <1>2, AdvanceOnTime
<1>q. QED
  BY <1>1, <1>2, <1>4, <1>5, ExcusedBriefed

LEMMA TriggerBriefed ==
  ASSUME TypeInv, ReferInv, JobsOnTime, ContentBriefed,
         NEW a \in Jobs, NEW u \in Topics, NEW d \in FirstDay..today, Trigger(a, u, d)
  PROVE  JobsOnTime' /\ ContentBriefed'
<1>1. d \in Days
  BY ScheduleAssumption DEF TypeInv, TypeOK, Days
<1>2. /\ Call(a, u, d) /\ excused' = excused \cup {u}
      /\ UNCHANGED clock /\ UNCHANGED <<today, hour, due, phase, todo, date>>
  BY DEF Trigger, clock, jobs
<1>3. PICK r : r = RunOf(a, u, d)
  OBVIOUS
<1>4. /\ summaries \subseteq summaries' /\ briefs \subseteq briefs'
      /\ started' \subseteq started \cup {r} /\ r.topic = u
      /\ \A s \in summaries' \ summaries : TopicOf(s) = u
  BY <1>1, <1>2, <1>3, CallOutcome DEF RunOf, TypeInv, TypeOK, ContentTyped
<1>5. JobsOnTime'
  BY <1>2 DEF JobsOnTime
<1>6. \A c \in Jobs, e \in Days, t \in Topics : JobDone(c, e, t)' <=> JobDone(c, e, t)
  BY <1>2 DEF JobDone
<1>q. QED
  BY <1>2, <1>4, <1>5, <1>6, ExcusedBriefed

LEMMA StopBriefed ==
  ASSUME TypeInv, JobsOnTime, ContentBriefed, Stop, ~missed'
  PROVE  JobsOnTime' /\ ContentBriefed'
<1>1. due = {} /\ \A c \in Jobs : phase[c] = "off"
  BY DEF Stop
<1>2. UNCHANGED content
  BY <1>1 DEF Stop
<1>3. \A c \in Jobs : todo[c] = {}
  BY <1>1 DEF JobsOnTime
<1>4. due' = due /\ todo' = todo
  BY <1>1, <1>3 DEF Stop, TypeInv, TypeOK
<1>5. JobsOnTime'
  BY <1>1 DEF Stop, JobsOnTime
<1>6. UNCHANGED <<today, hour, due, todo, started, summaries, briefs, excused>>
  BY <1>2, <1>4 DEF Stop, clock, content
<1>q. QED
  BY <1>5, <1>6, QuietBriefed

\* BriefInv is inductive beside the types and the references.
LEMMA BriefInvariant == Spec => []BriefInv
<1>1. Init => BriefInv
  BY DEF Init, BriefInv, JobsOnTime, ContentBriefed
<1>2. TypeInv /\ TypeInv' /\ ReferInv /\ BriefInv /\ [Next]_vars => BriefInv'
  <2>. SUFFICES ASSUME TypeInv, TypeInv', ReferInv, BriefInv, [Next]_vars, ~missed'
                PROVE  JobsOnTime' /\ ContentBriefed'
    BY DEF BriefInv
  <2>0. ~missed
    BY DEF Next, JobStep, vars, history, Tick, Topic, Break, Fire, Skip, BeginCall, EndCall,
           CallRaises, Trigger, Stop, Restart
  <2>1. JobsOnTime /\ ContentBriefed
    BY <2>0 DEF BriefInv
  <2>2. ASSUME UNCHANGED clock, UNCHANGED jobs, UNCHANGED <<started, summaries, briefs, excused>>
        PROVE  JobsOnTime' /\ ContentBriefed'
    <3>1. UNCHANGED <<today, hour, due, phase, todo, date>>
      BY <2>2 DEF clock, jobs
    <3>2. JobsOnTime'
      BY <2>1, <3>1 DEF JobsOnTime
    <3>q. QED
      BY <2>1, <2>2, <3>1, <3>2, QuietBriefed
  <2>3. CASE Tick
    BY <2>1, <2>3, TickBriefed
  <2>4. ASSUME NEW t \in Topics, Topic(t) PROVE JobsOnTime' /\ ContentBriefed'
    BY <2>2, <2>4 DEF Topic, content, history
  <2>5. ASSUME NEW a \in News, Break(a) PROVE JobsOnTime' /\ ContentBriefed'
    BY <2>2, <2>5 DEF Break, history
  <2>6. ASSUME NEW c \in Jobs, JobStep(c) PROVE JobsOnTime' /\ ContentBriefed'
    <3>1. CASE Fire(c)
      BY <2>1, <3>1, FireBriefed
    <3>2. CASE Skip(c)
      BY <3>2 DEF Skip
    <3>3. CASE BeginCall(c)
      <4>1. /\ phase[c] = "loop" /\ date' = [date EXCEPT ![c] = today]
            /\ phase' = [phase EXCEPT ![c] = "call"]
            /\ UNCHANGED <<today, hour, due, todo, started, summaries, briefs, excused>>
        BY <3>3 DEF BeginCall, Goto, clock, content, history
      <4>2. JobsOnTime'
        BY <2>1, <4>1 DEF JobsOnTime, TypeInv, TypeOK
      <4>q. QED
        BY <2>1, <4>1, <4>2, QuietBriefed
    <3>4. CASE EndCall(c)
      BY <2>1, <3>4, EndCallBriefed
    <3>5. CASE CallRaises(c)
      BY <2>1, <3>5, CallRaisesBriefed
    <3>q. QED
      BY <2>6, <3>1, <3>2, <3>3, <3>4, <3>5 DEF JobStep
  <2>7. ASSUME NEW c \in Jobs, NEW t \in Topics, NEW d \in FirstDay..today, Trigger(c, t, d)
        PROVE JobsOnTime' /\ ContentBriefed'
    BY <2>1, <2>7, TriggerBriefed
  <2>8. CASE Stop
    BY <2>1, <2>8, StopBriefed
  <2>9. CASE Restart
    BY <2>2, <2>9 DEF Restart, content, history
  <2>10. CASE UNCHANGED vars
    BY <2>2, <2>10 DEF vars, content, history
  <2>q. QED
    BY <2>3, <2>4, <2>5, <2>6, <2>7, <2>8, <2>9, <2>10 DEF Next
<1>q. QED
  BY <1>1, <1>2, TypeInvariant, ReferInvariant, PTL DEF Spec

\* News summarised in time is in the brief of its week and month.
THEOREM NewsIsBriefed == Spec => []ReadyNewsIsBriefed
<1>1. BriefInv => ReadyNewsIsBriefed
  BY DEF BriefInv, ContentBriefed, Briefed, BriefedBy, JobDone, ReadyNewsIsBriefed, Periodic
<1>q. QED
  BY <1>1, BriefInvariant, PTL
=============================================================================

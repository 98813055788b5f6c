-------------------------- MODULE PeriodicPipeline --------------------------
(***************************************************************************)
(* pipeline/periodic_brief.py: concurrent calls of PeriodicBriefPipeline   *)
(* .run for one topic and one cadence (the weekly job, POST                *)
(* /pipelines/weekly, retries).  It writes nothing itself: it selects      *)
(* stored summaries and hands them to the run ledger of RunLedger.tla.     *)
(* An anchor date is named by the week (or month) it lies in.              *)
(***************************************************************************)
EXTENDS Naturals

CONSTANTS
  Workers,          \* concurrent calls
  Windows,          \* weeks, or months
  Summaries,        \* batch summaries, numbered by (created_at, id)
  Spans,            \* Spans[s]: windows in which the batch of s has an article
  NoWindow,         \* "no call under way"
  FaultKinds,       \* faults considered: subset of AllFaults
  MaxFaults         \* bound on how many calls are ended by a fault

AllFaults == {"raise", "crash"}

ASSUME PeriodicAssumption ==
  /\ NoWindow \notin Windows
  /\ Summaries \subseteq Nat
  /\ Spans \in [Summaries -> SUBSET Windows]
  /\ FaultKinds \subseteq AllFaults
  /\ MaxFaults \in Nat

VARIABLES
  summaries,        \* batch_summary table
  status,           \* workflow_run table, by window
  published,        \* windows with a committed brief
  cited,            \* cited_batch_summary_ids of the brief of each window
  pc,               \* where each call is
  window,           \* window of each call
  todo,             \* candidates each call has still to check
  chosen,           \* selected summaries of each call
  answer,           \* result of each worker's last call
  seen,             \* history: status of the window when the call began
  faults,           \* calls ended by a fault so far
  overlapped        \* history: a call listed its candidates while another
                    \* was between that and the commit of its brief

tables == <<summaries, status, published, cited>>
locals == <<window, todo, chosen, answer, seen>>
vars   == <<tables, pc, locals, faults, overlapped>>

Runs == INSTANCE RunLedger WITH Keys <- Windows

Selecting == {"check", "report", "run", "execute"}
PC        == {"idle", "list", "finish"} \cup Selecting
Answer    == (Runs!Status \ {"absent", "pending"})
               \cup {"none", "nocontent", "raised", "crashed"}

TypeOK ==
  /\ summaries \in SUBSET Summaries
  /\ Runs!TypeOK
  /\ cited \in [Windows -> SUBSET Summaries]
  /\ pc \in [Workers -> PC]
  /\ window \in [Workers -> Windows \cup {NoWindow}]
  /\ todo \in [Workers -> SUBSET Summaries]
  /\ chosen \in [Workers -> SUBSET Summaries]
  /\ answer \in [Workers -> Answer]
  /\ seen \in [Workers -> Runs!Status]
  /\ faults \in Nat
  /\ overlapped \in BOOLEAN

Init ==
  /\ summaries = {}
  /\ Runs!Init
  /\ cited = [v \in Windows |-> {}]
  /\ pc = [w \in Workers |-> "idle"]
  /\ window = [w \in Workers |-> NoWindow]
  /\ todo = [w \in Workers |-> {}]
  /\ chosen = [w \in Workers |-> {}]
  /\ answer = [w \in Workers |-> "none"]
  /\ seen = [w \in Workers |-> "absent"]
  /\ faults = 0
  /\ overlapped = FALSE

-----------------------------------------------------------------------------
Goto(w, label) == pc' = [pc EXCEPT ![w] = label]
Assign(f, w, value) == [f EXCEPT ![w] = value]

\* The call ends: its locals go with it.
Leave(w, result) ==
  /\ Goto(w, "idle")
  /\ answer' = Assign(answer, w, result)
  /\ todo' = Assign(todo, w, {})
  /\ chosen' = Assign(chosen, w, {})
  /\ window' = Assign(window, w, NoWindow)
  /\ seen' = Assign(seen, w, "absent")

\* The daily pipeline stores a summary.
Summarise(s) ==
  /\ s \in Summaries \ summaries
  /\ summaries' = summaries \cup {s}
  /\ UNCHANGED <<status, published, cited, pc, locals, faults, overlapped>>

Call(w, v) ==
  /\ pc[w] = "idle"
  /\ Goto(w, "list")
  /\ window' = Assign(window, w, v)
  /\ seen' = Assign(seen, w, status[v])
  /\ answer' = Assign(answer, w, "none")
  /\ UNCHANGED <<tables, todo, chosen, faults, overlapped>>

\* Mutants: every stored summary is a candidate; all articles have to be in
\* the window.
CandidatesAll(v)    == summaries
CandidatesWithin(v) == {s \in summaries : Spans[s] = {v}}

\* list_eligible_batch_summaries_for_window: one article in the window is enough.
Candidates(v) == {s \in summaries : v \in Spans[s]}

List(w) ==
  /\ pc[w] = "list"
  /\ todo' = Assign(todo, w, Candidates(window[w]))
  /\ Goto(w, IF Candidates(window[w]) = {} THEN "report" ELSE "check")
  /\ overlapped' = (overlapped \/ \E v \in Workers \ {w} : pc[v] \in Selecting)
  /\ UNCHANGED <<tables, window, chosen, answer, seen, faults>>

\* Mutant: a brief of another window does not count.
CitedNowhere(s, v) == {}

\* Briefs of the cadence that cite s, without the one of window v.
CitedElsewhere(s, v) == {u \in Windows \ {v} : s \in cited[u]}

\* scalar_one_or_none finds a second brief and raises MultipleResultsFound.
Ambiguous(s, v) == \E t, u \in CitedElsewhere(s, v) : t # u

\* One turn of the selection loop, in the order of the candidates.
Check(w) ==
  /\ pc[w] = "check"
  /\ \E s \in todo[w] :
       /\ \A t \in todo[w] : s <= t
       /\ ~Ambiguous(s, window[w])
       /\ LET rest == todo[w] \ {s}
              kept == chosen[w] \cup {t \in {s} : CitedElsewhere(t, window[w]) = {}}
          IN  /\ todo' = Assign(todo, w, rest)
              /\ chosen' = Assign(chosen, w, kept)
              /\ Goto(w, CASE rest # {} -> "check"
                           [] rest = {} /\ kept # {} -> "run"
                           [] OTHER -> "report")
  /\ UNCHANGED <<tables, window, answer, seen, faults, overlapped>>

\* The exception leaves run, and no run records it.
CheckRaises(w) ==
  /\ pc[w] = "check"
  /\ \E s \in todo[w] :
       /\ \A t \in todo[w] : s <= t
       /\ Ambiguous(s, window[w])
  /\ Leave(w, "raised")
  /\ UNCHANGED <<tables, faults, overlapped>>

\* Mutants: a retry with nothing new has no content; nothing selected is no
\* reason to stop.
ReportNothing(w) ==
  /\ pc[w] = "report"
  /\ Leave(w, "nocontent")
  /\ UNCHANGED <<tables, faults, overlapped>>

ReportRun(w) ==
  /\ pc[w] = "report"
  /\ Goto(w, "run")
  /\ UNCHANGED <<tables, locals, faults, overlapped>>

\* Nothing selected: no content, unless the window's run has ended already.
Report(w) ==
  /\ pc[w] = "report"
  /\ \/ /\ status[window[w]] \in {"succeeded", "failed"}
        /\ Goto(w, "run")
        /\ UNCHANGED locals
     \/ /\ status[window[w]] \notin {"succeeded", "failed"}
        /\ Leave(w, "nocontent")
  /\ UNCHANGED <<tables, faults, overlapped>>

-----------------------------------------------------------------------------
(***************************************************************************)
(* runner.run_weekly or run_monthly on the run ledger.                     *)
(***************************************************************************)
\* Mutant: the row is returned before it is claimed.
RunUnclaimed(w) ==
  /\ pc[w] = "run"
  /\ \/ Runs!Create(window[w]) /\ UNCHANGED <<pc, locals>>
     \/ /\ status[window[w]] # "absent"
        /\ Leave(w, status[window[w]])
        /\ UNCHANGED <<status, published>>
  /\ UNCHANGED <<summaries, cited, faults, overlapped>>

\* The row is created, claimed, or returned as it is.
Run(w) ==
  /\ pc[w] = "run"
  /\ \/ Runs!Create(window[w]) /\ UNCHANGED <<pc, locals>>
     \/ Runs!Begin(window[w]) /\ Goto(w, "execute") /\ UNCHANGED locals
     \/ /\ status[window[w]] \notin {"absent", "pending"}
        /\ Leave(w, status[window[w]])
        /\ UNCHANGED <<status, published>>
  /\ UNCHANGED <<summaries, cited, faults, overlapped>>

Publish(w) ==
  /\ pc[w] = "execute"
  /\ Runs!Publish(window[w])
  /\ cited' = [cited EXCEPT ![window[w]] = chosen[w]]
  /\ Goto(w, "finish")
  /\ UNCHANGED <<summaries, locals, faults, overlapped>>

Succeed(w) ==
  /\ pc[w] = "finish"
  /\ Runs!Succeed(window[w])
  /\ Leave(w, "succeeded")
  /\ UNCHANGED <<summaries, cited, faults, overlapped>>

-----------------------------------------------------------------------------
Fault(kind) ==
  /\ kind \in FaultKinds
  /\ faults < MaxFaults
  /\ faults' = faults + 1

\* A database error before the run is owned ...
Raise(w) ==
  /\ pc[w] \in {"list", "check", "report", "run"}
  /\ Fault("raise")
  /\ Leave(w, "raised")
  /\ UNCHANGED <<tables, overlapped>>

\* ... and any error after that, which the runner records.
RunFails(w) ==
  /\ pc[w] \in {"execute", "finish"}
  /\ Fault("raise")
  /\ Runs!Abort(window[w])
  /\ Leave(w, "raised")
  /\ UNCHANGED <<summaries, cited, overlapped>>

\* The process dies or the task is cancelled.
Crash(w) ==
  /\ pc[w] # "idle"
  /\ Fault("crash")
  /\ Leave(w, "crashed")
  /\ UNCHANGED <<tables, overlapped>>

Step(w) ==
  \/ List(w) \/ Check(w) \/ CheckRaises(w) \/ Report(w)
  \/ Run(w) \/ Publish(w) \/ Succeed(w)

Disturb(w) == Raise(w) \/ RunFails(w) \/ Crash(w)

Next ==
  \/ \E s \in Summaries : Summarise(s)
  \/ \E w \in Workers :
       \/ \E v \in Windows : Call(w, v)
       \/ Step(w)
       \/ Disturb(w)

Spec == Init /\ [][Next]_vars

\* The event loop runs every call that can proceed, and every window keeps
\* being asked for.
RetrySpec ==
  /\ Spec
  /\ \A w \in Workers : WF_vars(Step(w))
  /\ \A v \in Windows : SF_vars(\E w \in Workers : Call(w, v))

-----------------------------------------------------------------------------
(***************************************************************************)
(* Properties.                                                             *)
(***************************************************************************)
Evidence(v) == {s \in summaries : v \in Spans[s]}

\* A brief cites stored summaries with news of its window, and no run is even
\* created for a window without any.
EvidenceOfWindow ==
  \A v \in Windows :
    /\ cited[v] \subseteq Evidence(v)
    /\ status[v] # "absent" => Evidence(v) # {}
    /\ v \in published => cited[v] # {}

\* No summary is in two briefs of the cadence, through faults and retries, as
\* long as no call lists its candidates between the list and the commit of
\* another (is_batch_summary_cited reads before the brief is written).
CitedOnceUnlessOverlapped ==
  ~overlapped => \A u, v \in Windows : u # v => cited[u] \cap cited[v] = {}

\* "Rerunning the same week/month ... returns the existing terminal workflow
\* result": a retry is answered with the status of the run that had ended,
\* unless a fault ends it, or calls have overlapped and cited a summary twice.
RetryReportsRun ==
  [][\A w \in Workers :
       pc[w] # "idle" /\ pc'[w] = "idle" /\ seen[w] \in {"succeeded", "failed"} =>
         \/ answer'[w] = seen[w]
         \/ answer'[w] \in {"raised", "crashed"} /\ (faults # faults' \/ overlapped)]_vars

\* Evidence for window v that is in no brief yet.
Waiting(v) == \E s \in Evidence(v) : \A u \in Windows : s \notin cited[u]

Stuck(v) == \E s \in Evidence(v) : Ambiguous(s, v)

\* A window with fresh evidence gets a run, unless that evidence goes into the
\* brief of another window, or a candidate has two briefs already.
EvidenceStartsRun ==
  \A v \in Windows : Waiting(v) ~> ~Waiting(v) \/ status[v] # "absent" \/ Stuck(v)

\* The strengthening under which the safety properties are inductive.
CallsSound ==
  \A w \in Workers :
    /\ pc[w] # "idle" => window[w] \in Windows /\ answer[w] = "none"
    /\ pc[w] = "check" => todo[w] # {} /\ todo[w] \subseteq Evidence(window[w])
    /\ pc[w] \in {"idle", "list"} => chosen[w] = {}
    /\ pc[w] # "idle" => chosen[w] \subseteq Evidence(window[w])
    /\ pc[w] = "run" /\ chosen[w] = {} => status[window[w]] \in {"succeeded", "failed"}
    /\ pc[w] = "execute" => chosen[w] # {}
    /\ pc[w] # "idle" /\ seen[w] \in {"succeeded", "failed"} => status[window[w]] = seen[w]

PeriodicInv == CallsSound /\ EvidenceOfWindow

\* What is chosen stays uncited until this call's own commit.
ChosenFresh ==
  ~overlapped =>
    \A w \in Workers : pc[w] \in Selecting =>
      /\ \A v \in Workers : pc[v] \in Selecting => v = w
      /\ \A s \in chosen[w] : CitedElsewhere(s, window[w]) = {}
=============================================================================

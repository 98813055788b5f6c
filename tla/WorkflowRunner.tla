--------------------------- MODULE WorkflowRunner ---------------------------
(***************************************************************************)
(* workflows/runner.py over persistence/repositories.py: concurrent        *)
(* executions (scheduler jobs, manual triggers, retries) of cadence runs.  *)
(* A worker is one call of WorkflowRunner._execute; every database         *)
(* transaction, the model call and the durable tail of the graph are one   *)
(* action each, so that executions interleave where the code awaits.       *)
(*                                                                         *)
(* A run row is named by its idempotency key and a narrative version by    *)
(* the key whose run created it.  The prior briefs and the text of the     *)
(* prompt feed only the model call and are left out.                       *)
(***************************************************************************)
EXTENDS Naturals

CONSTANTS
  Workers,          \* concurrent executions
  Keys,             \* idempotency keys cadence:topic:start:end
  Topic,            \* Topic[k]: the topic of key k
  Start,            \* Start[k]: first day covered
  End,              \* End[k]: last day covered
  NoKey,            \* "no narrative yet" / "no call yet"
  FaultKinds,       \* infrastructure faults considered: subset of AllFaults
  MaxFaults         \* bound on how many of them happen

AllFaults == {"tx", "ack", "crash"}

ASSUME KeysAssumption ==
  /\ NoKey \notin Keys
  /\ Start \in [Keys -> Nat]
  /\ End \in [Keys -> Nat]
  /\ \A k \in Keys : Start[k] <= End[k]

ASSUME FaultsAssumption ==
  /\ FaultKinds \subseteq AllFaults
  /\ MaxFaults \in Nat

VARIABLES
  status,           \* workflow_run table: status of the row of each key
  briefs,           \* brief table joined with narrative_state_version
  clock,            \* datetime.now(UTC), as the order brief drafts are made in
  pc,               \* where each execution is
  key,              \* the key each execution works on
  narrative,        \* narrative version each execution loaded as its context
  stamp,            \* created_at of each execution's draft brief
  answer,           \* what each execution last returned to its caller
  faults,           \* infrastructure faults so far
  before,           \* history: keys already briefed when each key was claimed
  calls             \* history: calls of gateway.generate for each key

vars == <<status, briefs, clock, pc, key, narrative, stamp, answer, faults, before, calls>>

Status   == {"absent", "pending", "running", "succeeded", "failed", "resumable"}
Terminal == {"succeeded", "failed", "resumable"}
Answer   == Status \cup {"none", "raised", "crashed"}

BriefRow == [key : Keys, parent : Keys \cup {NoKey}, created : Nat]

\* The statements inside the try block of _execute, and the handler's update.
TryBlock == {"context", "generate", "draft", "commit", "finish"}
Owning   == TryBlock \cup {"fail"}
PC       == {"idle", "lookup", "insert", "reread", "claim", "lost"} \cup Owning

\* _WORKFLOW_TRANSITIONS
Transitions ==
  [s \in Status |-> CASE s = "pending" -> {"running", "failed"}
                      [] s = "running" -> {"succeeded", "failed"}
                      [] OTHER         -> {}]

TypeOK ==
  /\ status \in [Keys -> Status]
  /\ briefs \in SUBSET BriefRow
  /\ clock \in Nat
  /\ pc \in [Workers -> PC]
  /\ key \in [Workers -> Keys \cup {NoKey}]
  /\ narrative \in [Workers -> Keys \cup {NoKey}]
  /\ stamp \in [Workers -> Nat]
  /\ answer \in [Workers -> Answer]
  /\ faults \in Nat
  /\ before \in [Keys -> SUBSET Keys]
  /\ calls \in [Keys -> Nat]

Init ==
  /\ status = [k \in Keys |-> "absent"]
  /\ briefs = {}
  /\ clock = 0
  /\ pc = [w \in Workers |-> "idle"]
  /\ key = [w \in Workers |-> NoKey]
  /\ narrative = [w \in Workers |-> NoKey]
  /\ stamp = [w \in Workers |-> 0]
  /\ answer = [w \in Workers |-> "none"]
  /\ faults = 0
  /\ before = [k \in Keys |-> {}]
  /\ calls = [k \in Keys |-> 0]

-----------------------------------------------------------------------------
Goto(w, label) == pc' = [pc EXCEPT ![w] = label]

\* Leave _execute, by a return value, an exception or the end of the task;
\* the locals of the call go with it.
Leave(w, result) ==
  /\ Goto(w, "idle")
  /\ answer' = [answer EXCEPT ![w] = result]
  /\ narrative' = [narrative EXCEPT ![w] = NoKey]
  /\ stamp' = [stamp EXCEPT ![w] = 0]
  /\ UNCHANGED key

Continue(w, label) ==
  /\ Goto(w, label)
  /\ UNCHANGED <<key, answer>>

Fault(kind) ==
  /\ kind \in FaultKinds
  /\ faults < MaxFaults
  /\ faults' = faults + 1

\* Mutant: the handler writes a status of its own making.
SetStatusUnchecked(k, s) ==
  status' = [status EXCEPT ![k] = IF s = "failed" THEN "error" ELSE s]

SetStatus(k, s) == status' = [status EXCEPT ![k] = s]

\* run_daily, run_weekly, run_monthly: a caller asks for an interval.
Call(w, k) ==
  /\ pc[w] = "idle"
  /\ Goto(w, "lookup")
  /\ key' = [key EXCEPT ![w] = k]
  /\ answer' = [answer EXCEPT ![w] = "none"]
  /\ UNCHANGED <<status, briefs, clock, narrative, stamp, faults, before, calls>>

\* Mutant: run the graph on a pending row without claiming it.
DispatchUnclaimed(w, s) ==
  IF s = "pending"
    THEN Continue(w, "context") /\ UNCHANGED <<narrative, stamp>>
    ELSE Leave(w, s)

\* Mutant: report every existing row, also a pending one.
DispatchReport(w, s) == Leave(w, s)

\* _execute on the row _ensure_run returns: only a pending row is claimed.
Dispatch(w, s) ==
  IF s = "pending"
    THEN Continue(w, "claim") /\ UNCHANGED <<narrative, stamp>>
    ELSE Leave(w, s)

\* First SELECT of _ensure_run.
Lookup(w) ==
  /\ pc[w] = "lookup"
  /\ \/ /\ status[key[w]] = "absent"
        /\ Continue(w, "insert")
        /\ UNCHANGED <<narrative, stamp>>
     \/ /\ status[key[w]] # "absent"
        /\ Dispatch(w, status[key[w]])
  /\ UNCHANGED <<status, briefs, clock, faults, before, calls>>

\* Mutant: the session is closed without a commit.
InsertUncommitted(w) ==
  /\ pc[w] = "insert"
  /\ Continue(w, "claim")
  /\ UNCHANGED <<status, briefs, clock, narrative, stamp, faults, before, calls>>

\* create_workflow_run and its commit.  The unique key makes a concurrent
\* inserter wait for the winner and then fail with IntegrityError.
Insert(w) ==
  /\ pc[w] = "insert"
  /\ \/ /\ status[key[w]] = "absent"
        /\ SetStatus(key[w], "pending")
        /\ Continue(w, "claim")
     \/ /\ status[key[w]] # "absent"
        /\ Continue(w, "reread")
        /\ UNCHANGED status
  /\ UNCHANGED <<briefs, clock, narrative, stamp, faults, before, calls>>

\* The winner's row, read in a new transaction.  Were it absent the code
\* would raise; RereadFindsRun says it never is.
Reread(w) ==
  /\ pc[w] = "reread"
  /\ status[key[w]] # "absent"
  /\ Dispatch(w, status[key[w]])
  /\ UNCHANGED <<status, briefs, clock, faults, before, calls>>

Briefed == {b.key : b \in briefs}

\* Mutants: claim whatever is not finished; claim failed runs again.
ClaimableUnfinished(k) == status[k] \in {"pending", "running"}
ClaimableFailed(k)     == status[k] \in {"pending", "failed"}

\* claim_pending_workflow_run: the WHERE clause of the UPDATE.
Claimable(k) == status[k] = "pending"

\* The claiming UPDATE, with the history of what was briefed by then.
TakeClaim(w) ==
  /\ Claimable(key[w])
  /\ SetStatus(key[w], "running")
  /\ before' = [before EXCEPT ![key[w]] = Briefed]

Claim(w) ==
  /\ pc[w] = "claim"
  /\ \/ TakeClaim(w) /\ Continue(w, "context")
     \/ /\ ~Claimable(key[w])
        /\ Continue(w, "lost")
        /\ UNCHANGED <<status, before>>
  /\ UNCHANGED <<briefs, clock, narrative, stamp, faults, calls>>

\* Mutants: return the row read before the claim; wait for the winner's end.
ReturnSnapshot(w) ==
  /\ pc[w] = "lost"
  /\ Leave(w, "pending")
  /\ UNCHANGED <<status, briefs, clock, faults, before, calls>>

WaitForWinner(w) ==
  /\ pc[w] = "lost"
  /\ status[key[w]] \in Terminal
  /\ Leave(w, status[key[w]])
  /\ UNCHANGED <<status, briefs, clock, faults, before, calls>>

\* Another worker won the claim: its row is returned as it is now.
ReadWinner(w) ==
  /\ pc[w] = "lost"
  /\ status[key[w]] # "absent"
  /\ Leave(w, status[key[w]])
  /\ UNCHANGED <<status, briefs, clock, faults, before, calls>>

-----------------------------------------------------------------------------
\* ORDER BY covered_end DESC, created_at DESC
Newer(a, b) ==
  \/ End[a.key] > End[b.key]
  \/ End[a.key] = End[b.key] /\ a.created > b.created

\* WHERE topic_id = the run's topic AND covered_end < the run's start
Precedes(j, k) == Topic[j] = Topic[k] /\ End[j] < Start[k]

\* Mutants: oldest row first; overlapping intervals admitted.
NarrativeOldest(k) ==
  LET rows == {b \in briefs : Precedes(b.key, k)}
  IN  IF rows = {} THEN {NoKey}
      ELSE {b.key : b \in {b \in rows : \A c \in rows : ~Newer(b, c)}}

NarrativeOverlapping(k) ==
  LET rows == {b \in briefs : Topic[b.key] = Topic[k] /\ End[b.key] <= Start[k]}
  IN  IF rows = {} THEN {NoKey}
      ELSE {b.key : b \in {b \in rows : \A c \in rows : ~Newer(c, b)}}

\* get_narrative_version_as_of: the first row, or none.
NarrativeAsOf(k) ==
  LET rows == {b \in briefs : Precedes(b.key, k)}
  IN  IF rows = {} THEN {NoKey}
      ELSE {b.key : b \in {b \in rows : \A c \in rows : ~Newer(c, b)}}

LoadContext(w) ==
  /\ pc[w] = "context"
  /\ \E n \in NarrativeAsOf(key[w]) : narrative' = [narrative EXCEPT ![w] = n]
  /\ Continue(w, "generate")
  /\ UNCHANGED <<status, briefs, clock, stamp, faults, before, calls>>

\* _frontier_synthesis calls gateway.generate.  The call counts whatever
\* becomes of it: at "draft" it may still be answered, raise, answer with
\* malformed text (TryFails) or die with the process (Crash).
Generate(w) ==
  /\ pc[w] = "generate"
  /\ calls' = [calls EXCEPT ![key[w]] = @ + 1]
  /\ Continue(w, "draft")
  /\ UNCHANGED <<status, briefs, clock, narrative, stamp, faults, before>>

\* The model has answered and the rows are drafted.
DraftRows(w) ==
  /\ pc[w] = "draft"
  /\ clock' = clock + 1
  /\ stamp' = [stamp EXCEPT ![w] = clock + 1]
  /\ Continue(w, "commit")
  /\ UNCHANGED <<status, briefs, narrative, faults, before, calls>>

Draft(w) == [key |-> key[w], parent |-> narrative[w], created |-> stamp[w]]

\* The synthesis transaction: narrative, expectations and brief at once,
\* refused by ix_brief_topic_cadence_interval if the interval has a brief.
\* The embedding sits behind a SAVEPOINT and cannot change the outcome.
WriteBrief(w) ==
  /\ pc[w] = "commit"
  /\ key[w] \notin Briefed
  /\ briefs' = briefs \cup {Draft(w)}

Commit(w) ==
  /\ WriteBrief(w)
  /\ Continue(w, "finish")
  /\ UNCHANGED <<status, clock, narrative, stamp, faults, before, calls>>

\* update_workflow_run, under the row lock.
PermittedAlways(k, s) == s \in Status    \* mutant: no transition check

Permitted(k, s) == s = status[k] \/ s \in Transitions[status[k]]

UpdateRun(k, s) == Permitted(k, s) /\ SetStatus(k, s)

Finish(w) ==
  /\ pc[w] = "finish"
  /\ UpdateRun(key[w], "succeeded")
  /\ Leave(w, "succeeded")
  /\ UNCHANGED <<briefs, clock, faults, before, calls>>

\* Mutant: the handler does not catch the exception.
TryEscapes(w) ==
  /\ pc[w] \in TryBlock
  /\ Leave(w, "raised")
  /\ UNCHANGED <<status, briefs, clock, faults, before, calls>>

\* Any exception of the try block: model error, malformed output, failed
\* transaction, refused brief, checkpointer failure before or after the graph.
TryFails(w) ==
  /\ pc[w] \in TryBlock
  /\ Continue(w, "fail")
  /\ UNCHANGED <<status, briefs, clock, narrative, stamp, faults, before, calls>>

\* The handler: record FAILED if the row admits it, and raise either way.
MarkFailed(w) ==
  /\ pc[w] = "fail"
  /\ \/ UpdateRun(key[w], "failed")
     \/ ~Permitted(key[w], "failed") /\ UNCHANGED status
  /\ Leave(w, "raised")
  /\ UNCHANGED <<briefs, clock, faults, before, calls>>

-----------------------------------------------------------------------------
(***************************************************************************)
(* Infrastructure faults.  "tx": a transaction outside the try block (or   *)
(* the handler's, whose error is suppressed) fails with no effect.         *)
(* "ack": a commit takes effect but its caller sees an exception.          *)
(* "crash": the process dies or the task is cancelled; CancelledError is   *)
(* not an Exception, so no handler runs.                                   *)
(***************************************************************************)
TxFails(w) ==
  /\ pc[w] \in {"lookup", "insert", "reread", "claim", "lost", "fail"}
  /\ Fault("tx")
  /\ Leave(w, "raised")
  /\ UNCHANGED <<status, briefs, clock, before, calls>>

InsertAckLost(w) ==
  /\ pc[w] = "insert"
  /\ status[key[w]] = "absent"
  /\ SetStatus(key[w], "pending")
  /\ Fault("ack")
  /\ Leave(w, "raised")
  /\ UNCHANGED <<briefs, clock, before, calls>>

\* _claim_run is outside the try block: nothing records the failure.
ClaimAckLost(w) ==
  /\ pc[w] = "claim"
  /\ TakeClaim(w)
  /\ Fault("ack")
  /\ Leave(w, "raised")
  /\ UNCHANGED <<briefs, clock, calls>>

CommitAckLost(w) ==
  /\ WriteBrief(w)
  /\ Fault("ack")
  /\ Continue(w, "fail")
  /\ UNCHANGED <<status, clock, narrative, stamp, before, calls>>

FinishAckLost(w) ==
  /\ pc[w] = "finish"
  /\ UpdateRun(key[w], "succeeded")
  /\ Fault("ack")
  /\ Continue(w, "fail")
  /\ UNCHANGED <<briefs, clock, narrative, stamp, before, calls>>

Crash(w) ==
  /\ pc[w] # "idle"
  /\ Fault("crash")
  /\ Leave(w, "crashed")
  /\ UNCHANGED <<status, briefs, clock, before, calls>>

-----------------------------------------------------------------------------
\* One uninterrupted step of an execution under way.
Step(w) ==
  \/ Lookup(w) \/ Insert(w) \/ Reread(w)
  \/ Claim(w) \/ ReadWinner(w)
  \/ LoadContext(w) \/ Generate(w) \/ DraftRows(w)
  \/ Commit(w) \/ Finish(w) \/ TryFails(w) \/ MarkFailed(w)

Disturb(w) ==
  \/ TxFails(w) \/ InsertAckLost(w) \/ ClaimAckLost(w)
  \/ CommitAckLost(w) \/ FinishAckLost(w) \/ Crash(w)

Next == \E w \in Workers :
          \/ \E k \in Keys : Call(w, k)
          \/ Step(w)
          \/ Disturb(w)

Spec == Init /\ [][Next]_vars

\* The event loop keeps running every task that can proceed.
FairSpec == Spec /\ \A w \in Workers : WF_vars(Step(w))

\* Moreover somebody keeps asking for every interval.
RetrySpec == FairSpec /\ \A w \in Workers, k \in Keys : SF_vars(Call(w, k))

-----------------------------------------------------------------------------
(***************************************************************************)
(* Properties.                                                             *)
(***************************************************************************)
Owns(w, k) == pc[w] \in Owning /\ key[w] = k

\* A run is executed by at most one worker at a time, and by one only while
\* its row says running (or already succeeded, when the acknowledgement of
\* the last update was lost): duplicate triggers never run a graph twice at
\* once (runner.py _claim_run, claim_pending_workflow_run).
SingleOwner ==
  /\ \A v, w \in Workers :
        pc[v] \in Owning /\ pc[w] \in Owning /\ key[v] = key[w] => v = w
  /\ \A w \in Workers :
        /\ pc[w] \in TryBlock => status[key[w]] = "running"
        /\ pc[w] = "fail" => status[key[w]] \in {"running", "succeeded"}

\* However often an interval is triggered, and whatever fails, it gets one
\* brief at most; brief and narrative exist only once the run was claimed.
OneBriefPerRun ==
  /\ \A a, b \in briefs : a.key = b.key => a = b
  /\ \A b \in briefs : status[b.key] \in {"running", "succeeded", "failed"}

\* "A workflow cannot become succeeded unless its graph invocation
\* completes": a succeeded run has its brief in the database.
SucceededHasBrief ==
  \A k \in Keys : status[k] = "succeeded" => k \in Briefed

\* A caller is told only durable facts: never that a run is absent or still
\* pending, and a terminal status it was told is the one the row keeps.
AnswersDurable ==
  \A w \in Workers :
    /\ answer[w] \notin {"absent", "pending"}
    /\ answer[w] \in Terminal => status[key[w]] = answer[w]

\* The RuntimeError branches of _ensure_run and _execute are unreachable: a
\* worker that lost the insert or the claim finds the winner's row.
RereadFindsRun ==
  \A w \in Workers : pc[w] \in {"reread", "claim", "lost"} => status[key[w]] # "absent"

\* Narrative versions form a forest inside each topic: a version's parent
\* was committed by a brief of the same topic that ends before this one
\* starts and was drafted before it.
LineageSound ==
  \A b \in briefs : b.parent # NoKey =>
    \E p \in briefs : /\ p.key = b.parent
                      /\ Precedes(p.key, b.key)
                      /\ p.created < b.created

\* A brief builds on news at least as recent as any brief of its topic and
\* past that was committed before its run was claimed; only a brief that
\* commits while the run executes may be missed.
NarrativeCurrent ==
  \A b \in briefs : \A c \in briefs :
    c.key \in before[b.key] /\ Precedes(c.key, b.key) =>
      \E p \in briefs : p.key = b.parent /\ ~Newer(c, p)

\* Without infrastructure faults every running run has a worker: a run is
\* left running for ever only by a crash or a lost transaction.
RunningIsOwned ==
  faults = 0 => \A k \in Keys : status[k] = "running" => \E w \in Workers : Owns(w, k)

\* Once a run is terminal no worker, late or duplicate, changes its status
\* or adds a brief for it.
TerminalIsFinal ==
  [][\A k \in Keys : status[k] \in Terminal =>
       /\ status'[k] = status[k]
       /\ k \in Briefed' => k \in Briefed]_vars

\* The runner calls the frontier model at most once for an interval, and only
\* for a run that was claimed: a call that failed or died, was malformed, or
\* whose brief was lost is not made again by a duplicate trigger, a retry or a
\* restart.  Calls of gateway.generate are counted, at their start; what the
\* adapters' client resends inside one call (max_retries, dashscope.py,
\* openrouter.py) is not.
ModelCalledOnce ==
  \A k \in Keys :
    /\ calls[k] <= 1
    /\ calls[k] = 1 => status[k] \notin {"absent", "pending"}

\* The strengthening under which the safety properties are inductive: what a
\* worker may rely on about the tables at each place of the try block.
ProgressAgrees ==
  \A w \in Workers :
    /\ pc[w] # "idle" => key[w] \in Keys /\ answer[w] = "none"
    /\ key[w] = NoKey => answer[w] = "none"
    /\ pc[w] \in {"context", "generate", "draft", "commit"} => key[w] \notin Briefed
    /\ pc[w] = "finish" => key[w] \in Briefed
    /\ pc[w] = "lost" => status[key[w]] # "pending"

RunInv ==
  /\ ProgressAgrees
  /\ SingleOwner
  /\ RereadFindsRun
  /\ OneBriefPerRun
  /\ SucceededHasBrief
  /\ AnswersDurable

\* The runner implements the ledger its readers rely on.
Ledger == INSTANCE RunLedger WITH published <- Briefed
ImplementsLedger == Ledger!Spec

\* Every call is answered (with a value, an exception or the caller's end).
CallsAnswered == \A w \in Workers : pc[w] # "idle" ~> pc[w] = "idle"

\* Whatever the try block raises, a claimed run reaches a terminal status; only
\* an infrastructure fault can keep it from that.
RunningTerminates ==
  \A k \in Keys : status[k] = "running" ~> status[k] \in Terminal \/ faults > 0

\* A run left pending by a lost worker starts once the interval is asked for
\* again.
PendingStarts == \A k \in Keys : status[k] = "pending" ~> status[k] # "pending"

\* "A failed or interrupted graph can resume from its persisted state"
\* (2026-07-10-harness-design.md, section on workflow orchestration): a run
\* interrupted while running ends, if the interval keeps being asked for.
InterruptedRunResumes == \A k \in Keys : status[k] = "running" ~> status[k] # "running"
=============================================================================

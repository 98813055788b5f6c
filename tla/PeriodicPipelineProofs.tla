----------------------- MODULE PeriodicPipelineProofs -----------------------
(***************************************************************************)
(* Proofs about PeriodicPipeline for any number of calls, windows,         *)
(* summaries and faults.                                                   *)
(***************************************************************************)
EXTENDS PeriodicPipeline, LeastElements, TLAPS

\* A call under way has a window.
Placed == \A w \in Workers : pc[w] # "idle" => window[w] \in Windows

TypeInv == TypeOK /\ Placed

\* TypeOK, with the window of every call under way, is inductive.
LEMMA TypeInvariant == Spec => []TypeInv
<1>1. Init => TypeInv
  <2>. SUFFICES ASSUME Init PROVE TypeInv
    OBVIOUS
  <2>1. overlapped \in BOOLEAN
    BY DEF Init
  <2>2. Runs!TypeOK
    BY DEF Init, Runs!Init, Runs!TypeOK, Runs!Status
  <2>3. TypeOK
    BY <2>1, <2>2 DEF Init, TypeOK, PC, Answer, Runs!Status
  <2>4. Placed
    BY DEF Init, Placed
  <2>q. QED
    BY <2>3, <2>4 DEF TypeInv
<1>2. TypeInv /\ [Next]_vars => TypeInv'
  <2>. SUFFICES ASSUME TypeInv, [Next]_vars PROVE TypeInv'
    OBVIOUS
  <2>. USE DEF TypeInv, TypeOK, Placed, PC, Selecting, Answer, Goto, Assign, Leave, Fault,
           tables, locals, Runs!TypeOK, Runs!Status
  <2>1. ASSUME NEW s \in Summaries, Summarise(s) PROVE TypeInv'
    BY <2>1 DEF Summarise
  <2>2. ASSUME NEW w \in Workers, NEW v \in Windows, Call(w, v) PROVE TypeInv'
    BY <2>2 DEF Call
  <2>3. ASSUME NEW w \in Workers, List(w) PROVE TypeInv'
    BY <2>3 DEF List, Candidates
  <2>4. ASSUME NEW w \in Workers, Check(w) PROVE TypeInv'
    BY <2>4 DEF Check
  <2>5. ASSUME NEW w \in Workers, CheckRaises(w) PROVE TypeInv'
    BY <2>5 DEF CheckRaises
  <2>6. ASSUME NEW w \in Workers, Report(w) PROVE TypeInv'
    BY <2>6 DEF Report
  <2>7. ASSUME NEW w \in Workers, Run(w) PROVE TypeInv'
    BY <2>7 DEF Run, Runs!Create, Runs!Begin, Runs!Move
  <2>8. ASSUME NEW w \in Workers, Publish(w) PROVE TypeInv'
    BY <2>8 DEF Publish, Runs!Publish
  <2>9. ASSUME NEW w \in Workers, Succeed(w) PROVE TypeInv'
    BY <2>9 DEF Succeed, Runs!Succeed, Runs!Move
  <2>10. ASSUME NEW w \in Workers, Raise(w) PROVE TypeInv'
    BY <2>10 DEF Raise
  <2>11. ASSUME NEW w \in Workers, RunFails(w) PROVE TypeInv'
    BY <2>11 DEF RunFails, Runs!Abort, Runs!Move
  <2>12. ASSUME NEW w \in Workers, Crash(w) PROVE TypeInv'
    BY <2>12 DEF Crash
  <2>13. CASE UNCHANGED vars
    BY <2>13 DEF vars
  <2>q. QED
    BY <2>1, <2>2, <2>3, <2>4, <2>5, <2>6, <2>7, <2>8, <2>9, <2>10, <2>11, <2>12, <2>13 DEF Next, Step, Disturb
<1>q. QED
  BY <1>1, <1>2, PTL DEF Spec

\* The type invariant: no call is ever told of an absent or a pending run.
THEOREM TypeCorrect == Spec => []TypeOK
BY TypeInvariant, PTL DEF TypeInv

\* The strengthened invariant holds, by one step per action.
LEMMA Invariant == Spec => []PeriodicInv
<1>1. Init => PeriodicInv
  BY DEF Init, PeriodicInv, CallsSound, EvidenceOfWindow, Evidence, Runs!Init
<1>2. TypeInv /\ PeriodicInv /\ [Next]_vars => PeriodicInv'
  <2>. SUFFICES ASSUME TypeInv, PeriodicInv, [Next]_vars PROVE PeriodicInv'
    OBVIOUS
  <2>. USE DEF TypeInv, TypeOK, Placed, PC, Selecting, Answer, Goto, Assign, Leave, Fault,
           tables, locals, Runs!TypeOK, Runs!Status, PeriodicInv, CallsSound,
           EvidenceOfWindow, Evidence
  <2>1. ASSUME NEW s \in Summaries, Summarise(s) PROVE PeriodicInv'
    <3>1. CallsSound'
      BY <2>1 DEF Summarise
    <3>2. EvidenceOfWindow'
      BY <2>1 DEF Summarise
    <3>q. QED
      BY <3>1, <3>2 DEF PeriodicInv
  <2>2. ASSUME NEW w \in Workers, NEW v \in Windows, Call(w, v) PROVE PeriodicInv'
    <3>1. CallsSound'
      BY <2>2 DEF Call
    <3>2. EvidenceOfWindow'
      BY <2>2 DEF Call
    <3>q. QED
      BY <3>1, <3>2 DEF PeriodicInv
  <2>3. ASSUME NEW w \in Workers, List(w) PROVE PeriodicInv'
    <3>1. CallsSound'
      BY <2>3 DEF List, Candidates
    <3>2. EvidenceOfWindow'
      BY <2>3 DEF List, Candidates
    <3>q. QED
      BY <3>1, <3>2 DEF PeriodicInv
  <2>4. ASSUME NEW w \in Workers, Check(w) PROVE PeriodicInv'
    <3>1. CallsSound'
      BY <2>4 DEF Check
    <3>2. EvidenceOfWindow'
      BY <2>4 DEF Check
    <3>q. QED
      BY <3>1, <3>2 DEF PeriodicInv
  <2>5. ASSUME NEW w \in Workers, CheckRaises(w) PROVE PeriodicInv'
    <3>1. CallsSound'
      BY <2>5 DEF CheckRaises
    <3>2. EvidenceOfWindow'
      BY <2>5 DEF CheckRaises
    <3>q. QED
      BY <3>1, <3>2 DEF PeriodicInv
  <2>6. ASSUME NEW w \in Workers, Report(w) PROVE PeriodicInv'
    <3>1. CallsSound'
      BY <2>6 DEF Report
    <3>2. EvidenceOfWindow'
      BY <2>6 DEF Report
    <3>q. QED
      BY <3>1, <3>2 DEF PeriodicInv
  <2>7. ASSUME NEW w \in Workers, Run(w) PROVE PeriodicInv'
    <3>1. CallsSound'
      BY <2>7 DEF Run, Runs!Create, Runs!Begin, Runs!Move
    <3>2. EvidenceOfWindow'
      BY <2>7 DEF Run, Runs!Create, Runs!Begin, Runs!Move
    <3>q. QED
      BY <3>1, <3>2 DEF PeriodicInv
  <2>8. ASSUME NEW w \in Workers, Publish(w) PROVE PeriodicInv'
    <3>1. CallsSound'
      BY <2>8 DEF Publish, Runs!Publish
    <3>2. EvidenceOfWindow'
      BY <2>8 DEF Publish, Runs!Publish
    <3>q. QED
      BY <3>1, <3>2 DEF PeriodicInv
  <2>9. ASSUME NEW w \in Workers, Succeed(w) PROVE PeriodicInv'
    <3>1. CallsSound'
      BY <2>9 DEF Succeed, Runs!Succeed, Runs!Move
    <3>2. EvidenceOfWindow'
      BY <2>9 DEF Succeed, Runs!Succeed, Runs!Move
    <3>q. QED
      BY <3>1, <3>2 DEF PeriodicInv
  <2>10. ASSUME NEW w \in Workers, Raise(w) PROVE PeriodicInv'
    <3>1. CallsSound'
      BY <2>10 DEF Raise
    <3>2. EvidenceOfWindow'
      BY <2>10 DEF Raise
    <3>q. QED
      BY <3>1, <3>2 DEF PeriodicInv
  <2>11. ASSUME NEW w \in Workers, RunFails(w) PROVE PeriodicInv'
    <3>1. CallsSound'
      BY <2>11 DEF RunFails, Runs!Abort, Runs!Move
    <3>2. EvidenceOfWindow'
      BY <2>11 DEF RunFails, Runs!Abort, Runs!Move
    <3>q. QED
      BY <3>1, <3>2 DEF PeriodicInv
  <2>12. ASSUME NEW w \in Workers, Crash(w) PROVE PeriodicInv'
    <3>1. CallsSound'
      BY <2>12 DEF Crash
    <3>2. EvidenceOfWindow'
      BY <2>12 DEF Crash
    <3>q. QED
      BY <3>1, <3>2 DEF PeriodicInv
  <2>13. CASE UNCHANGED vars
    BY <2>13 DEF vars
  <2>q. QED
    BY <2>1, <2>2, <2>3, <2>4, <2>5, <2>6, <2>7, <2>8, <2>9, <2>10, <2>11, <2>12, <2>13 DEF Next, Step, Disturb
<1>q. QED
  BY <1>1, <1>2, TypeInvariant, PTL DEF Spec

\* No brief cites a summary without news of its window, and no run is created
\* without evidence, for any interleaving of any calls.
THEOREM EvidenceOfWindowHolds == Spec => []EvidenceOfWindow
BY Invariant, PTL DEF PeriodicInv

\* The two facts that are inductive together.
CitedOnceInv == CitedOnceUnlessOverlapped /\ ChosenFresh

\* Without an overlap what a call has chosen stays uncited until its commit.
LEMMA CitedOnceInvariant == Spec => []CitedOnceInv
<1>1. Init => CitedOnceInv
  BY DEF Init, CitedOnceInv, CitedOnceUnlessOverlapped, ChosenFresh, Selecting
<1>2. TypeInv /\ PeriodicInv /\ CitedOnceInv /\ [Next]_vars => CitedOnceInv'
  <2>. SUFFICES ASSUME TypeInv, PeriodicInv, CitedOnceInv, [Next]_vars PROVE CitedOnceInv'
    OBVIOUS
  <2>. USE DEF TypeInv, TypeOK, Placed, PC, Selecting, Goto, Assign, Leave, Fault,
           tables, locals, CitedOnceInv, CitedOnceUnlessOverlapped, ChosenFresh, CitedElsewhere
  <2>1. ASSUME NEW s \in Summaries, Summarise(s) PROVE CitedOnceInv'
    <3>1. CitedOnceUnlessOverlapped'
      BY <2>1 DEF Summarise
    <3>2. ChosenFresh'
      BY <2>1 DEF Summarise
    <3>q. QED
      BY <3>1, <3>2 DEF CitedOnceInv
  <2>2. ASSUME NEW w \in Workers, NEW v \in Windows, Call(w, v) PROVE CitedOnceInv'
    <3>1. CitedOnceUnlessOverlapped'
      BY <2>2 DEF Call
    <3>2. ChosenFresh'
      BY <2>2 DEF Call
    <3>q. QED
      BY <3>1, <3>2 DEF CitedOnceInv
  <2>3. ASSUME NEW w \in Workers, List(w) PROVE CitedOnceInv'
    <3>1. CitedOnceUnlessOverlapped'
      BY <2>3 DEF List, Candidates
    <3>2. ASSUME ~overlapped', NEW u \in Workers, pc'[u] \in Selecting
          PROVE  u = w
      BY <2>3, <3>2 DEF List
    <3>3. chosen' = chosen /\ chosen[w] = {}
      BY <2>3 DEF List, PeriodicInv, CallsSound
    <3>4. ChosenFresh'
      BY <3>2, <3>3
    <3>q. QED
      BY <3>1, <3>4 DEF CitedOnceInv
  <2>4. ASSUME NEW w \in Workers, Check(w) PROVE CitedOnceInv'
    <3>1. CitedOnceUnlessOverlapped'
      BY <2>4 DEF Check
    <3>2. ChosenFresh'
      BY <2>4 DEF Check
    <3>q. QED
      BY <3>1, <3>2 DEF CitedOnceInv
  <2>5. ASSUME NEW w \in Workers, CheckRaises(w) PROVE CitedOnceInv'
    <3>1. CitedOnceUnlessOverlapped'
      BY <2>5 DEF CheckRaises
    <3>2. ChosenFresh'
      BY <2>5 DEF CheckRaises
    <3>q. QED
      BY <3>1, <3>2 DEF CitedOnceInv
  <2>6. ASSUME NEW w \in Workers, Report(w) PROVE CitedOnceInv'
    <3>1. CitedOnceUnlessOverlapped'
      BY <2>6 DEF Report
    <3>2. ChosenFresh'
      BY <2>6 DEF Report
    <3>q. QED
      BY <3>1, <3>2 DEF CitedOnceInv
  <2>7. ASSUME NEW w \in Workers, Run(w) PROVE CitedOnceInv'
    <3>1. CitedOnceUnlessOverlapped'
      BY <2>7 DEF Run, Runs!Create, Runs!Begin, Runs!Move
    <3>2. ChosenFresh'
      BY <2>7 DEF Run, Runs!Create, Runs!Begin, Runs!Move
    <3>q. QED
      BY <3>1, <3>2 DEF CitedOnceInv
  <2>8. ASSUME NEW w \in Workers, Publish(w) PROVE CitedOnceInv'
    <3>1. CitedOnceUnlessOverlapped'
      BY <2>8 DEF Publish, Runs!Publish
    <3>2. ChosenFresh'
      BY <2>8 DEF Publish, Runs!Publish
    <3>q. QED
      BY <3>1, <3>2 DEF CitedOnceInv
  <2>9. ASSUME NEW w \in Workers, Succeed(w) PROVE CitedOnceInv'
    <3>1. CitedOnceUnlessOverlapped'
      BY <2>9 DEF Succeed, Runs!Succeed, Runs!Move
    <3>2. ChosenFresh'
      BY <2>9 DEF Succeed, Runs!Succeed, Runs!Move
    <3>q. QED
      BY <3>1, <3>2 DEF CitedOnceInv
  <2>10. ASSUME NEW w \in Workers, Raise(w) PROVE CitedOnceInv'
    <3>1. CitedOnceUnlessOverlapped'
      BY <2>10 DEF Raise
    <3>2. ChosenFresh'
      BY <2>10 DEF Raise
    <3>q. QED
      BY <3>1, <3>2 DEF CitedOnceInv
  <2>11. ASSUME NEW w \in Workers, RunFails(w) PROVE CitedOnceInv'
    <3>1. CitedOnceUnlessOverlapped'
      BY <2>11 DEF RunFails, Runs!Abort, Runs!Move
    <3>2. ChosenFresh'
      BY <2>11 DEF RunFails, Runs!Abort, Runs!Move
    <3>q. QED
      BY <3>1, <3>2 DEF CitedOnceInv
  <2>12. ASSUME NEW w \in Workers, Crash(w) PROVE CitedOnceInv'
    <3>1. CitedOnceUnlessOverlapped'
      BY <2>12 DEF Crash
    <3>2. ChosenFresh'
      BY <2>12 DEF Crash
    <3>q. QED
      BY <3>1, <3>2 DEF CitedOnceInv
  <2>13. CASE UNCHANGED vars
    BY <2>13 DEF vars
  <2>q. QED
    BY <2>1, <2>2, <2>3, <2>4, <2>5, <2>6, <2>7, <2>8, <2>9, <2>10, <2>11, <2>12, <2>13 DEF Next, Step, Disturb
<1>q. QED
  BY <1>1, <1>2, TypeInvariant, Invariant, PTL DEF Spec

\* No summary is in two briefs of a cadence until a call lists its candidates
\* between another's list and commit, whatever fails and is retried.
THEOREM CitedOnceUnlessOverlappedHolds == Spec => []CitedOnceUnlessOverlapped
BY CitedOnceInvariant, PTL DEF CitedOnceInv

\* The action of RetryReportsRun.
RetryReported ==
  \A w \in Workers :
    pc[w] # "idle" /\ pc'[w] = "idle" /\ seen[w] \in {"succeeded", "failed"} =>
      \/ answer'[w] = seen[w]
      \/ answer'[w] \in {"raised", "crashed"} /\ (faults # faults' \/ overlapped)

\* A retry of a window whose run has ended is answered with that run's status,
\* unless a fault or the trace of an overlap ends it.
THEOREM RetryReportsRunHolds == Spec => RetryReportsRun
<1>1. TypeInv /\ PeriodicInv /\ CitedOnceInv /\ [Next]_vars => [RetryReported]_vars
  <2>. SUFFICES ASSUME TypeInv, PeriodicInv, CitedOnceInv, [Next]_vars PROVE RetryReported
    OBVIOUS
  <2>. USE DEF TypeInv, TypeOK, Placed, PC, Selecting, Answer, Goto, Assign, Leave, Fault,
           tables, locals, Runs!TypeOK, Runs!Status, PeriodicInv, CallsSound, RetryReported
  <2>1. ASSUME NEW s \in Summaries, Summarise(s) PROVE RetryReported
    BY <2>1 DEF Summarise
  <2>2. ASSUME NEW w \in Workers, NEW v \in Windows, Call(w, v) PROVE RetryReported
    BY <2>2 DEF Call
  <2>3. ASSUME NEW w \in Workers, List(w) PROVE RetryReported
    BY <2>3 DEF List, Candidates
  <2>4. ASSUME NEW w \in Workers, Check(w) PROVE RetryReported
    BY <2>4 DEF Check
  <2>5. ASSUME NEW w \in Workers, CheckRaises(w) PROVE RetryReported
    <3>1. PICK s \in todo[w] : Ambiguous(s, window[w])
      BY <2>5 DEF CheckRaises
    <3>2. overlapped
      BY <3>1 DEF Ambiguous, CitedElsewhere, CitedOnceInv, CitedOnceUnlessOverlapped
    <3>q. QED
      BY <2>5, <3>2 DEF CheckRaises
  <2>6. ASSUME NEW w \in Workers, Report(w) PROVE RetryReported
    BY <2>6 DEF Report
  <2>7. ASSUME NEW w \in Workers, Run(w) PROVE RetryReported
    BY <2>7 DEF Run, Runs!Create, Runs!Begin, Runs!Move
  <2>8. ASSUME NEW w \in Workers, Publish(w) PROVE RetryReported
    BY <2>8 DEF Publish, Runs!Publish
  <2>9. ASSUME NEW w \in Workers, Succeed(w) PROVE RetryReported
    BY <2>9 DEF Succeed, Runs!Succeed, Runs!Move
  <2>10. ASSUME NEW w \in Workers, Raise(w) PROVE RetryReported
    BY <2>10 DEF Raise
  <2>11. ASSUME NEW w \in Workers, RunFails(w) PROVE RetryReported
    BY <2>11 DEF RunFails, Runs!Abort, Runs!Move
  <2>12. ASSUME NEW w \in Workers, Crash(w) PROVE RetryReported
    BY <2>12 DEF Crash
  <2>13. CASE UNCHANGED vars
    BY <2>13 DEF vars
  <2>q. QED
    BY <2>1, <2>2, <2>3, <2>4, <2>5, <2>6, <2>7, <2>8, <2>9, <2>10, <2>11, <2>12, <2>13 DEF Next, Step, Disturb
<1>q. QED
  BY <1>1, TypeInvariant, Invariant, CitedOnceInvariant, PTL DEF Spec, RetryReportsRun, RetryReported

-----------------------------------------------------------------------------
LEMMA StepKeepsLedger ==
  ASSUME TypeInv, [Next]_vars
  PROVE  Runs!Next \/ UNCHANGED <<status, published>>
<1>. USE DEF tables
<1>1. ASSUME NEW s \in Summaries, Summarise(s) PROVE UNCHANGED <<status, published>>
  BY <1>1 DEF Summarise
<1>2. ASSUME NEW w \in Workers, NEW v \in Windows, Call(w, v)
      PROVE  UNCHANGED <<status, published>>
  BY <1>2 DEF Call
<1>3. ASSUME NEW w \in Workers,
             \/ List(w) \/ Check(w) \/ CheckRaises(w) \/ Report(w) \/ Raise(w) \/ Crash(w)
      PROVE  UNCHANGED <<status, published>>
  BY <1>3 DEF List, Check, CheckRaises, Report, Raise, Crash
<1>4. ASSUME NEW w \in Workers, Run(w) \/ Publish(w) \/ Succeed(w) \/ RunFails(w)
      PROVE  Runs!Next \/ UNCHANGED <<status, published>>
  <2>1. window[w] \in Windows
    BY <1>4 DEF TypeInv, Placed, Run, Publish, Succeed, RunFails
  <2>2. \/ UNCHANGED <<status, published>>
        \/ Runs!Create(window[w]) \/ Runs!Begin(window[w]) \/ Runs!Publish(window[w])
        \/ Runs!Succeed(window[w]) \/ Runs!Abort(window[w])
    BY <1>4 DEF Run, Publish, Succeed, RunFails
  <2>q. QED
    BY <2>1, <2>2 DEF Runs!Next
<1>5. CASE UNCHANGED vars
  BY <1>5 DEF vars
<1>q. QED
  BY <1>1, <1>2, <1>3, <1>4, <1>5 DEF Next, Step, Disturb

\* The pipeline does to workflow_run and brief only what RunLedger allows, so
\* what WorkflowRunner implements is what the pipeline runs on.
THEOREM PipelineKeepsLedger == Spec => Runs!Spec
<1>1. Init => Runs!Init
  BY DEF Init
<1>2. TypeInv /\ [Next]_vars => [Runs!Next]_(Runs!vars)
  BY StepKeepsLedger DEF Runs!vars
<1>q. QED
  BY <1>1, <1>2, TypeInvariant, PTL DEF Spec, Runs!Spec

-----------------------------------------------------------------------------
(***************************************************************************)
(* No call waits for another or goes on for ever.                          *)
(***************************************************************************)
Owning == {"execute", "finish"}

\* The call that claimed a window's run has it to itself until it is ended.
OwnsRun ==
  /\ \A v \in published : status[v] \notin {"absent", "pending"}
  /\ \A w \in Workers : pc[w] \in Owning =>
       /\ status[window[w]] = "running"
       /\ window[w] \in published <=> pc[w] = "finish"
       /\ \A v \in Workers : pc[v] \in Owning /\ window[v] = window[w] => v = w

LEMMA RunOwned == Spec => []OwnsRun
<1>1. Init => OwnsRun
  BY DEF Init, OwnsRun, Owning, Runs!Init
<1>2. TypeInv /\ OwnsRun /\ [Next]_vars => OwnsRun'
  <2>. SUFFICES ASSUME TypeInv, OwnsRun, [Next]_vars PROVE OwnsRun'
    OBVIOUS
  <2>. USE DEF TypeInv, TypeOK, Placed, PC, Selecting, OwnsRun, Owning, Goto, Assign, Leave,
           Fault, tables, locals, Runs!TypeOK, Runs!Status
  <2>1. ASSUME NEW s \in Summaries, Summarise(s) PROVE OwnsRun'
    BY <2>1 DEF Summarise
  <2>2. ASSUME NEW w \in Workers, NEW v \in Windows, Call(w, v) PROVE OwnsRun'
    BY <2>2 DEF Call
  <2>3. ASSUME NEW w \in Workers, List(w) PROVE OwnsRun'
    BY <2>3 DEF List, Candidates
  <2>4. ASSUME NEW w \in Workers, Check(w) PROVE OwnsRun'
    BY <2>4 DEF Check
  <2>5. ASSUME NEW w \in Workers, CheckRaises(w) PROVE OwnsRun'
    BY <2>5 DEF CheckRaises
  <2>6. ASSUME NEW w \in Workers, Report(w) PROVE OwnsRun'
    BY <2>6 DEF Report
  <2>7. ASSUME NEW w \in Workers, Run(w) PROVE OwnsRun'
    BY <2>7 DEF Run, Runs!Create, Runs!Begin, Runs!Move
  <2>8. ASSUME NEW w \in Workers, Publish(w) PROVE OwnsRun'
    BY <2>8 DEF Publish, Runs!Publish
  <2>9. ASSUME NEW w \in Workers, Succeed(w) PROVE OwnsRun'
    BY <2>9 DEF Succeed, Runs!Succeed, Runs!Move
  <2>10. ASSUME NEW w \in Workers, Raise(w) PROVE OwnsRun'
    BY <2>10 DEF Raise
  <2>11. ASSUME NEW w \in Workers, RunFails(w) PROVE OwnsRun'
    BY <2>11 DEF RunFails, Runs!Abort, Runs!Move
  <2>12. ASSUME NEW w \in Workers, Crash(w) PROVE OwnsRun'
    BY <2>12 DEF Crash
  <2>13. CASE UNCHANGED vars
    BY <2>13 DEF vars
  <2>q. QED
    BY <2>1, <2>2, <2>3, <2>4, <2>5, <2>6, <2>7, <2>8, <2>9, <2>10, <2>11, <2>12, <2>13 DEF Next, Step, Disturb
<1>q. QED
  BY <1>1, <1>2, TypeInvariant, PTL DEF Spec

\* Nothing a call meets on its way can hold it up: the loop has its next
\* candidate, and the transactions of the run it owns find the row and the
\* brief as they expect them, whatever other calls have done.
Unblocked(w) ==
  /\ pc[w] = "check" => \E s \in todo[w] : \A t \in todo[w] : s <= t
  /\ pc[w] = "execute" => status[window[w]] = "running" /\ window[w] \notin published
  /\ pc[w] = "finish" => status[window[w]] = "running" /\ window[w] \in published

THEOREM CallsUnblocked == Spec => [](\A w \in Workers : Unblocked(w))
<1>1. TypeOK /\ PeriodicInv /\ OwnsRun => \A w \in Workers : Unblocked(w)
  <2>. SUFFICES ASSUME TypeOK, PeriodicInv, OwnsRun, NEW w \in Workers PROVE Unblocked(w)
    OBVIOUS
  <2>1. todo[w] \subseteq Nat
    BY PeriodicAssumption DEF TypeOK
  <2>2. pc[w] = "check" => todo[w] # {}
    BY DEF PeriodicInv, CallsSound
  <2>3. pc[w] = "check" => \E s \in todo[w] : \A t \in todo[w] : s <= t
    BY <2>1, <2>2, LeastExists
  <2>q. QED
    BY <2>3 DEF Unblocked, OwnsRun, Owning
<1>q. QED
  BY <1>1, TypeCorrect, Invariant, RunOwned, PTL

\* The parts of run, numbered from its end.
Phase ==
  [l \in PC |-> CASE l = "list" -> 6
                  [] l = "check" -> 5
                  [] l = "report" -> 4
                  [] l = "run" -> 3
                  [] l = "execute" -> 2
                  [] l = "finish" -> 1
                  [] OTHER -> 0]

\* A later part of run, fewer candidates left, or the window's row created.
Advances(w) ==
  \/ Phase[pc'[w]] < Phase[pc[w]]
  \/ /\ pc[w] = "check" /\ pc'[w] = "check"
     /\ todo'[w] \subseteq todo[w] /\ todo'[w] # todo[w]
  \/ /\ pc[w] = "run" /\ pc'[w] = "run"
     /\ todo'[w] = todo[w] /\ window'[w] = window[w]
     /\ status[window[w]] = "absent" /\ status'[window[w]] # "absent"

\* What Advances counts is left alone by the steps of other calls.
Stays(w) ==
  /\ pc'[w] = pc[w] /\ todo'[w] = todo[w] /\ window'[w] = window[w]

\* Each step of a call takes it forward, and no step of another call takes it
\* back: no loop goes on for ever.
THEOREM StepsAdvance ==
  Spec => [][/\ \A v \in Windows : status[v] # "absent" => status'[v] # "absent"
             /\ \A w \in Workers :
                  /\ Step(w) \/ Disturb(w) => Advances(w)
                  /\ \/ Stays(w)
                     \/ pc[w] = "idle" /\ pc'[w] = "list"
                     \/ Advances(w)]_vars
<1>1. ASSUME TypeInv, NEW w \in Workers, Step(w) \/ Disturb(w) PROVE Advances(w)
  <2>. USE <1>1 DEF TypeInv, TypeOK, Placed, PC, Selecting, Goto, Assign, Leave, locals
  <2>0. /\ Phase["list"] = 6 /\ Phase["check"] = 5 /\ Phase["report"] = 4
        /\ Phase["run"] = 3 /\ Phase["execute"] = 2 /\ Phase["finish"] = 1
        /\ Phase["idle"] = 0
    BY DEF Phase
  <2>a. ASSUME pc[w] # "idle", pc'[w] = "idle" PROVE Advances(w)
    BY <2>0, <2>a DEF Advances
  <2>1. CASE List(w) \/ CheckRaises(w) \/ Report(w)
    BY <2>0, <2>1, <2>a DEF List, CheckRaises, Report, Advances
  <2>2. CASE Check(w)
    <3>1. PICK s \in todo[w] :
            /\ todo'[w] = todo[w] \ {s}
            /\ pc'[w] \in {"check", "run", "report"}
      BY <2>2 DEF Check
    <3>2. pc[w] = "check"
      BY <2>2 DEF Check
    <3>q. QED
      BY <2>0, <3>1, <3>2 DEF Advances
  <2>3. CASE Run(w)
    <3>1. CASE Runs!Create(window[w]) /\ UNCHANGED <<pc, locals>>
      <4>1. status[window[w]] = "absent" /\ status'[window[w]] = "pending"
        BY <2>3, <3>1 DEF Run, Runs!Create, Runs!Move, Runs!TypeOK
      <4>q. QED
        BY <2>3, <3>1, <4>1 DEF Run, Advances
    <3>2. CASE Goto(w, "execute") \/ Goto(w, "idle")
      BY <2>0, <2>3, <3>2 DEF Run, Advances
    <3>q. QED
      BY <2>3, <3>1, <3>2 DEF Run
  <2>4. CASE Publish(w) \/ Succeed(w)
    BY <2>0, <2>4, <2>a DEF Publish, Succeed, Advances
  <2>5. CASE Disturb(w)
    BY <2>5, <2>a DEF Disturb, Raise, RunFails, Crash
  <2>q. QED
    BY <1>1, <2>1, <2>2, <2>3, <2>4, <2>5 DEF Step
<1>2. ASSUME TypeInv, NEW v \in Workers, Step(v) \/ Disturb(v), NEW w \in Workers, w # v
      PROVE  Stays(w)
  BY <1>2 DEF TypeInv, TypeOK, Stays, Goto, Assign, Leave, locals, Step, Disturb, List, Check,
              CheckRaises, Report, Run, Publish, Succeed, Raise, RunFails, Crash
<1>3. ASSUME TypeInv, [Next]_vars, NEW w \in Workers
      PROVE  Stays(w) \/ (pc[w] = "idle" /\ pc'[w] = "list") \/ Advances(w)
  <2>1. ASSUME NEW v \in Workers, Step(v) \/ Disturb(v)
        PROVE  Stays(w) \/ Advances(w)
    BY <1>1, <1>2, <1>3, <2>1
  <2>2. ASSUME NEW v \in Workers, NEW u \in Windows, Call(v, u)
        PROVE  Stays(w) \/ (pc[w] = "idle" /\ pc'[w] = "list")
    BY <1>3, <2>2 DEF Call, Goto, Assign, Stays, TypeInv, TypeOK
  <2>3. CASE UNCHANGED vars \/ \E s \in Summaries : Summarise(s)
    BY <2>3 DEF vars, locals, Stays, Summarise
  <2>q. QED
    BY <1>3, <2>1, <2>2, <2>3 DEF Next
<1>4. ASSUME TypeInv, [Next]_vars, NEW v \in Windows, status[v] # "absent"
      PROVE  status'[v] # "absent"
  <2>1. Runs!Next \/ UNCHANGED <<status, published>>
    BY <1>4, StepKeepsLedger
  <2>q. QED
    BY <1>4, <2>1 DEF TypeInv, TypeOK, Runs!TypeOK, Runs!Next, Runs!Create, Runs!Begin,
                      Runs!Publish, Runs!Succeed, Runs!Abort, Runs!Move
<1>5. TypeInv /\ [Next]_vars =>
        [/\ \A v \in Windows : status[v] # "absent" => status'[v] # "absent"
         /\ \A w \in Workers :
              /\ Step(w) \/ Disturb(w) => Advances(w)
              /\ \/ Stays(w)
                 \/ pc[w] = "idle" /\ pc'[w] = "list"
                 \/ Advances(w)]_vars
  BY <1>1, <1>3, <1>4
<1>q. QED
  BY <1>5, TypeInvariant, PTL DEF Spec
=============================================================================

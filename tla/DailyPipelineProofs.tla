------------------------- MODULE DailyPipelineProofs -------------------------
(***************************************************************************)
(* Proofs about DailyPipeline for any number of calls, dates, articles and *)
(* faults, and for any grouping that keeps the batcher's contract.         *)
(***************************************************************************)
EXTENDS DailyPipeline, LeastElements, TLAPS

\* A call under way has a date and works on stored batches.
Placed ==
  \A w \in Workers :
    /\ pc[w] # "idle" => day[w] \in Days
    /\ pc[w] \in {"lookup", "store"} => todo[w] \subseteq batches

TypeInv == TypeOK /\ Placed

\* What a call lists: the batches are disjoint and made of unbatched articles.
LEMMA ListedBatches ==
  ASSUME TypeOK, NEW d
  PROVE  LET listed == Batching[Oldest(Unbatched(d), MaxArticles)]
         IN  /\ listed \in SUBSET SUBSET Articles
             /\ \A g \in listed : \A b \in batches : g \cap b = {}
             /\ \A g, h \in listed : g # h => g \cap h = {}
             /\ \A g \in listed : g # {}
<1>. DEFINE S == Oldest(Unbatched(d), MaxArticles)
<1>1. S \subseteq Unbatched(d)
  BY DEF Oldest
<1>2. S \in SUBSET Articles
  BY <1>1 DEF Unbatched, TypeOK
<1>3. /\ Batching[S] \in SUBSET SUBSET Articles
      /\ \A g \in Batching[S] : /\ g # {} /\ g \subseteq S
                                /\ \A h \in Batching[S] : g # h => g \cap h = {}
  BY <1>2, BatchingAssumption
<1>4. \A g \in Batching[S] : \A b \in batches : g \cap b = {}
  BY <1>1, <1>3 DEF Unbatched
<1>q. QED
  BY <1>3, <1>4

\* TypeOK, with the date and the stored batches of every call, is inductive.
LEMMA TypeInvariant == Spec => []TypeInv
<1>1. Init => TypeInv
  <2>. SUFFICES ASSUME Init PROVE TypeInv
    OBVIOUS
  <2>1. overlapped \in BOOLEAN
    BY DEF Init
  <2>2. Runs!TypeOK
    BY DEF Init, Runs!Init, Runs!TypeOK, Runs!Status
  <2>3. TypeOK
    BY <2>1, <2>2, PipelineAssumption DEF Init, TypeOK, Answer, Runs!Status
  <2>4. Placed
    BY DEF Init, Placed
  <2>q. QED
    BY <2>3, <2>4 DEF TypeInv
<1>2. TypeInv /\ [Next]_vars => TypeInv'
  <2>. SUFFICES ASSUME TypeInv, [Next]_vars PROVE TypeInv'
    OBVIOUS
  <2>. USE PipelineAssumption DEF TypeInv, TypeOK, Placed, Answer, Preparing, Owning, Goto,
           Assign, Leave, Fault, tables, locals, Runs!TypeOK, Runs!Status
  <2>1. ASSUME NEW a \in Articles, Capture(a) PROVE TypeInv'
    BY <2>1 DEF Capture
  <2>2. ASSUME NEW w \in Workers, NEW d \in Days, Call(w, d) PROVE TypeInv'
    BY <2>2 DEF Call
  <2>3. ASSUME NEW w \in Workers, List(w) PROVE TypeInv'
    BY <2>3, ListedBatches DEF List
  <2>4. ASSUME NEW w \in Workers, SaveBatches(w) PROVE TypeInv'
    BY <2>4 DEF SaveBatches
  <2>5. ASSUME NEW w \in Workers, BatchConflict(w) PROVE TypeInv'
    BY <2>5 DEF BatchConflict
  <2>6. ASSUME NEW w \in Workers, Lookup(w) PROVE TypeInv'
    BY <2>6 DEF Lookup, Summarised, Current
  <2>7. ASSUME NEW w \in Workers, Store(w) PROVE TypeInv'
    BY <2>7 DEF Store, Summarised, Current
  <2>8. ASSUME NEW w \in Workers, Skip(w) PROVE TypeInv'
    BY <2>8 DEF Skip, Summarised, Current
  <2>9. ASSUME NEW w \in Workers, Select(w) PROVE TypeInv'
    BY <2>9 DEF Select, Current
  <2>10. ASSUME NEW w \in Workers, Report(w) PROVE TypeInv'
    BY <2>10 DEF Report
  <2>11. ASSUME NEW w \in Workers, EnsureRun(w) PROVE TypeInv'
    <3>1. day[w] \in Days /\ status[day[w]] \in Runs!Status
      BY <2>11 DEF EnsureRun
    <3>2. CASE Runs!Create(day[w]) /\ UNCHANGED locals
      BY <2>11, <3>1, <3>2 DEF EnsureRun, Runs!Create, Runs!Move
    <3>3. CASE ~Runs!Create(day[w])
      BY <2>11, <3>1, <3>3 DEF EnsureRun
    <3>q. QED
      BY <2>11, <3>2, <3>3 DEF EnsureRun, Runs!Create, Runs!Move
  <2>12. ASSUME NEW w \in Workers, Claim(w) PROVE TypeInv'
    <3>1. day[w] \in Days /\ status[day[w]] \in Runs!Status
      BY <2>12 DEF Claim
    <3>2. CASE Runs!Begin(day[w]) /\ UNCHANGED locals
      BY <2>12, <3>1, <3>2 DEF Claim, Runs!Begin, Runs!Move
    <3>3. CASE ~Runs!Begin(day[w])
      BY <2>12, <3>1, <3>3 DEF Claim
    <3>q. QED
      BY <2>12, <3>2, <3>3 DEF Claim, Runs!Begin, Runs!Move
  <2>13. ASSUME NEW w \in Workers, Publish(w) PROVE TypeInv'
    BY <2>13 DEF Publish, Runs!Publish
  <2>14. ASSUME NEW w \in Workers, Succeed(w) PROVE TypeInv'
    BY <2>14 DEF Succeed, Runs!Succeed, Runs!Move
  <2>15. ASSUME NEW w \in Workers, Raise(w) PROVE TypeInv'
    BY <2>15 DEF Raise
  <2>16. ASSUME NEW w \in Workers, RunFails(w) PROVE TypeInv'
    BY <2>16 DEF RunFails, Runs!Abort, Runs!Move
  <2>17. ASSUME NEW w \in Workers, Crash(w) PROVE TypeInv'
    BY <2>17 DEF Crash
  <2>18. CASE UNCHANGED vars
    BY <2>18 DEF vars
  <2>q. QED
    BY <2>1, <2>2, <2>3, <2>4, <2>5, <2>6, <2>7, <2>8, <2>9, <2>10, <2>11, <2>12, <2>13, <2>14, <2>15, <2>16, <2>17, <2>18 DEF Next, Step, Disturb
<1>q. QED
  BY <1>1, <1>2, PTL DEF Spec

\* The type invariant holds of every behaviour of DailyBriefPipeline.run.
THEOREM TypeCorrect == Spec => []TypeOK
BY TypeInvariant, PTL DEF TypeInv

\* The strengthened invariant holds, by one step per action of the pipeline.
LEMMA Invariant == Spec => []PipelineInv
<1>1. Init => PipelineInv
  BY DEF Init, PipelineInv, CallsSound, EvidenceOfDay, RunsHaveEvidence, RetryReportsRun,
     Runs!Init
<1>2. TypeInv /\ PipelineInv /\ [Next]_vars => PipelineInv'
  <2>. SUFFICES ASSUME TypeInv, PipelineInv, [Next]_vars PROVE PipelineInv'
    OBVIOUS
  <2>. USE DEF TypeInv, TypeOK, Placed, Answer, Preparing, Owning, Goto, Assign, Leave,
           Fault, tables, locals, Runs!TypeOK, Runs!Status, PipelineInv, CallsSound,
           EvidenceOfDay, RunsHaveEvidence, RetryReportsRun
  <2>1. ASSUME NEW a \in Articles, Capture(a) PROVE PipelineInv'
    <3>1. CallsSound'
      BY <2>1 DEF Capture
    <3>2. EvidenceOfDay'
      BY <2>1 DEF Capture
    <3>3. RunsHaveEvidence'
      BY <2>1 DEF Capture
    <3>4. RetryReportsRun'
      BY <2>1 DEF Capture
    <3>q. QED
      BY <3>1, <3>2, <3>3, <3>4 DEF PipelineInv
  <2>2. ASSUME NEW w \in Workers, NEW d \in Days, Call(w, d) PROVE PipelineInv'
    <3>1. CallsSound'
      BY <2>2 DEF Call
    <3>2. EvidenceOfDay'
      BY <2>2 DEF Call
    <3>3. RunsHaveEvidence'
      BY <2>2 DEF Call
    <3>4. RetryReportsRun'
      BY <2>2 DEF Call
    <3>q. QED
      BY <3>1, <3>2, <3>3, <3>4 DEF PipelineInv
  <2>3. ASSUME NEW w \in Workers, List(w) PROVE PipelineInv'
    <3>1. CallsSound'
      BY <2>3 DEF List
    <3>2. EvidenceOfDay'
      BY <2>3 DEF List
    <3>3. RunsHaveEvidence'
      BY <2>3 DEF List
    <3>4. RetryReportsRun'
      BY <2>3 DEF List
    <3>q. QED
      BY <3>1, <3>2, <3>3, <3>4 DEF PipelineInv
  <2>4. ASSUME NEW w \in Workers, SaveBatches(w) PROVE PipelineInv'
    <3>1. CallsSound'
      BY <2>4 DEF SaveBatches
    <3>2. EvidenceOfDay'
      BY <2>4 DEF SaveBatches
    <3>3. RunsHaveEvidence'
      BY <2>4 DEF SaveBatches
    <3>4. RetryReportsRun'
      BY <2>4 DEF SaveBatches
    <3>q. QED
      BY <3>1, <3>2, <3>3, <3>4 DEF PipelineInv
  <2>5. ASSUME NEW w \in Workers, BatchConflict(w) PROVE PipelineInv'
    <3>1. CallsSound'
      BY <2>5 DEF BatchConflict
    <3>2. EvidenceOfDay'
      BY <2>5 DEF BatchConflict
    <3>3. RunsHaveEvidence'
      BY <2>5 DEF BatchConflict
    <3>4. RetryReportsRun'
      BY <2>5 DEF BatchConflict
    <3>q. QED
      BY <3>1, <3>2, <3>3, <3>4 DEF PipelineInv
  <2>6. ASSUME NEW w \in Workers, Lookup(w) PROVE PipelineInv'
    <3>1. CallsSound'
      BY <2>6 DEF Lookup, Summarised, Current
    <3>2. EvidenceOfDay'
      BY <2>6 DEF Lookup, Summarised, Current
    <3>3. RunsHaveEvidence'
      BY <2>6 DEF Lookup, Summarised, Current
    <3>4. RetryReportsRun'
      BY <2>6 DEF Lookup, Summarised, Current
    <3>q. QED
      BY <3>1, <3>2, <3>3, <3>4 DEF PipelineInv
  <2>7. ASSUME NEW w \in Workers, Store(w) PROVE PipelineInv'
    <3>1. CallsSound'
      BY <2>7 DEF Store, Summarised, Current
    <3>2. EvidenceOfDay'
      BY <2>7 DEF Store, Summarised, Current
    <3>3. RunsHaveEvidence'
      BY <2>7 DEF Store, Summarised, Current
    <3>4. RetryReportsRun'
      BY <2>7 DEF Store, Summarised, Current
    <3>q. QED
      BY <3>1, <3>2, <3>3, <3>4 DEF PipelineInv
  <2>8. ASSUME NEW w \in Workers, Skip(w) PROVE PipelineInv'
    <3>1. CallsSound'
      BY <2>8 DEF Skip, Summarised, Current
    <3>2. EvidenceOfDay'
      BY <2>8 DEF Skip, Summarised, Current
    <3>3. RunsHaveEvidence'
      BY <2>8 DEF Skip, Summarised, Current
    <3>4. RetryReportsRun'
      BY <2>8 DEF Skip, Summarised, Current
    <3>q. QED
      BY <3>1, <3>2, <3>3, <3>4 DEF PipelineInv
  <2>9. ASSUME NEW w \in Workers, Select(w) PROVE PipelineInv'
    <3>1. CallsSound'
      BY <2>9 DEF Select, Current, Selectable
    <3>2. EvidenceOfDay'
      BY <2>9 DEF Select, Current, Selectable
    <3>3. RunsHaveEvidence'
      BY <2>9 DEF Select, Current, Selectable
    <3>4. RetryReportsRun'
      BY <2>9 DEF Select, Current, Selectable
    <3>q. QED
      BY <3>1, <3>2, <3>3, <3>4 DEF PipelineInv
  <2>10. ASSUME NEW w \in Workers, Report(w) PROVE PipelineInv'
    <3>1. CallsSound'
      BY <2>10 DEF Report
    <3>2. EvidenceOfDay'
      BY <2>10 DEF Report
    <3>3. RunsHaveEvidence'
      BY <2>10 DEF Report
    <3>4. RetryReportsRun'
      BY <2>10 DEF Report
    <3>q. QED
      BY <3>1, <3>2, <3>3, <3>4 DEF PipelineInv
  <2>11. ASSUME NEW w \in Workers, EnsureRun(w) PROVE PipelineInv'
    <3>1. CallsSound'
      BY <2>11 DEF EnsureRun, Runs!Create, Runs!Move, NewsOf
    <3>2. EvidenceOfDay'
      BY <2>11 DEF EnsureRun, Runs!Create, Runs!Move, NewsOf
    <3>3. RunsHaveEvidence'
      BY <2>11 DEF EnsureRun, Runs!Create, Runs!Move, NewsOf
    <3>4. RetryReportsRun'
      BY <2>11 DEF EnsureRun, Runs!Create, Runs!Move, NewsOf
    <3>q. QED
      BY <3>1, <3>2, <3>3, <3>4 DEF PipelineInv
  <2>12. ASSUME NEW w \in Workers, Claim(w) PROVE PipelineInv'
    <3>1. CallsSound'
      BY <2>12 DEF Claim, Runs!Begin, Runs!Move
    <3>2. EvidenceOfDay'
      BY <2>12 DEF Claim, Runs!Begin, Runs!Move
    <3>3. RunsHaveEvidence'
      BY <2>12 DEF Claim, Runs!Begin, Runs!Move
    <3>4. RetryReportsRun'
      BY <2>12 DEF Claim, Runs!Begin, Runs!Move
    <3>q. QED
      BY <3>1, <3>2, <3>3, <3>4 DEF PipelineInv
  <2>13. ASSUME NEW w \in Workers, Publish(w) PROVE PipelineInv'
    <3>1. CallsSound'
      BY <2>13 DEF Publish, Runs!Publish
    <3>2. EvidenceOfDay'
      BY <2>13 DEF Publish, Runs!Publish
    <3>3. RunsHaveEvidence'
      BY <2>13 DEF Publish, Runs!Publish
    <3>4. RetryReportsRun'
      BY <2>13 DEF Publish, Runs!Publish
    <3>q. QED
      BY <3>1, <3>2, <3>3, <3>4 DEF PipelineInv
  <2>14. ASSUME NEW w \in Workers, Succeed(w) PROVE PipelineInv'
    <3>1. CallsSound'
      BY <2>14 DEF Succeed, Runs!Succeed, Runs!Move
    <3>2. EvidenceOfDay'
      BY <2>14 DEF Succeed, Runs!Succeed, Runs!Move
    <3>3. RunsHaveEvidence'
      BY <2>14 DEF Succeed, Runs!Succeed, Runs!Move
    <3>4. RetryReportsRun'
      BY <2>14 DEF Succeed, Runs!Succeed, Runs!Move
    <3>q. QED
      BY <3>1, <3>2, <3>3, <3>4 DEF PipelineInv
  <2>15. ASSUME NEW w \in Workers, Raise(w) PROVE PipelineInv'
    <3>1. CallsSound'
      BY <2>15 DEF Raise
    <3>2. EvidenceOfDay'
      BY <2>15 DEF Raise
    <3>3. RunsHaveEvidence'
      BY <2>15 DEF Raise
    <3>4. RetryReportsRun'
      BY <2>15 DEF Raise
    <3>q. QED
      BY <3>1, <3>2, <3>3, <3>4 DEF PipelineInv
  <2>16. ASSUME NEW w \in Workers, RunFails(w) PROVE PipelineInv'
    <3>1. CallsSound'
      BY <2>16 DEF RunFails, Runs!Abort, Runs!Move
    <3>2. EvidenceOfDay'
      BY <2>16 DEF RunFails, Runs!Abort, Runs!Move
    <3>3. RunsHaveEvidence'
      BY <2>16 DEF RunFails, Runs!Abort, Runs!Move
    <3>4. RetryReportsRun'
      BY <2>16 DEF RunFails, Runs!Abort, Runs!Move
    <3>q. QED
      BY <3>1, <3>2, <3>3, <3>4 DEF PipelineInv
  <2>17. ASSUME NEW w \in Workers, Crash(w) PROVE PipelineInv'
    <3>1. CallsSound'
      BY <2>17 DEF Crash
    <3>2. EvidenceOfDay'
      BY <2>17 DEF Crash
    <3>3. RunsHaveEvidence'
      BY <2>17 DEF Crash
    <3>4. RetryReportsRun'
      BY <2>17 DEF Crash
    <3>q. QED
      BY <3>1, <3>2, <3>3, <3>4 DEF PipelineInv
  <2>18. CASE UNCHANGED vars
    BY <2>18 DEF vars
  <2>q. QED
    BY <2>1, <2>2, <2>3, <2>4, <2>5, <2>6, <2>7, <2>8, <2>9, <2>10, <2>11, <2>12, <2>13, <2>14, <2>15, <2>16, <2>17, <2>18 DEF Next, Step, Disturb
<1>q. QED
  BY <1>1, <1>2, TypeInvariant, PTL DEF Spec

\* No brief cites a summary that is not stored, has no news of the brief's
\* date or has news of a later one, for any interleaving of any calls.
THEOREM EvidenceOfDayHolds == Spec => []EvidenceOfDay
BY Invariant, PTL DEF PipelineInv

\* No run is created and no brief written without evidence.
THEOREM RunsHaveEvidenceHolds == Spec => []RunsHaveEvidence
BY Invariant, PTL DEF PipelineInv

\* A retry of a date whose run has ended is answered with that run's status.
THEOREM RetryReportsRunHolds == Spec => []RetryReportsRun
BY Invariant, PTL DEF PipelineInv

\* No article gets into two batches, however often calls fail, crash and are
\* made again, until a call reads the eligible articles between another's read
\* and save.
THEOREM BatchedOnceUnlessOverlappedHolds == Spec => []BatchedOnceUnlessOverlapped
<1>. DEFINE Inv == BatchedOnceUnlessOverlapped /\ SavesUnbatched
<1>1. Init => Inv
  BY DEF Init, BatchedOnceUnlessOverlapped, ArticlesBatchedOnce, SavesUnbatched
<1>2. TypeInv /\ Inv /\ [Next]_vars => Inv'
  <2>. SUFFICES ASSUME TypeInv, Inv, [Next]_vars PROVE Inv'
    OBVIOUS
  <2>. USE DEF TypeInv, TypeOK, Goto, Assign, Leave, Fault, tables, locals,
           BatchedOnceUnlessOverlapped, ArticlesBatchedOnce, SavesUnbatched,
           Preparing, Owning
  <2>1. ASSUME NEW a \in Articles, Capture(a) PROVE Inv'
    BY <2>1 DEF Capture
  <2>2. ASSUME NEW w \in Workers, NEW d \in Days, Call(w, d) PROVE Inv'
    BY <2>2 DEF Call
  <2>3. ASSUME NEW w \in Workers, List(w) PROVE Inv'
    <3>1. BatchedOnceUnlessOverlapped'
      BY <2>3 DEF List
    <3>2. ASSUME ~overlapped', NEW v \in Workers, pc'[v] = "save"
          PROVE  /\ v = w
                 /\ todo'[v] = Batching[Oldest(Unbatched(day[w]), MaxArticles)]
      BY <2>3, <3>2 DEF List
    <3>3. \A g \in Batching[Oldest(Unbatched(day[w]), MaxArticles)] :
            \A h \in Batching[Oldest(Unbatched(day[w]), MaxArticles)] \cup batches :
              g # h => g \cap h = {}
      BY ListedBatches
    <3>4. batches' = batches
      BY <2>3 DEF List
    <3>5. SavesUnbatched'
      BY <3>2, <3>3, <3>4 DEF SavesUnbatched
    <3>q. QED
      BY <3>1, <3>5
  <2>4. ASSUME NEW w \in Workers, SaveBatches(w) PROVE Inv'
    BY <2>4 DEF SaveBatches
  <2>5. ASSUME NEW w \in Workers, BatchConflict(w) PROVE Inv'
    BY <2>5 DEF BatchConflict
  <2>6. ASSUME NEW w \in Workers, Lookup(w) PROVE Inv'
    BY <2>6 DEF Lookup, Summarised, Current
  <2>7. ASSUME NEW w \in Workers, Store(w) PROVE Inv'
    BY <2>7 DEF Store, Summarised, Current
  <2>8. ASSUME NEW w \in Workers, Skip(w) PROVE Inv'
    BY <2>8 DEF Skip, Summarised, Current
  <2>9. ASSUME NEW w \in Workers, Select(w) PROVE Inv'
    BY <2>9 DEF Select, Current
  <2>10. ASSUME NEW w \in Workers, Report(w) PROVE Inv'
    BY <2>10 DEF Report
  <2>11. ASSUME NEW w \in Workers, EnsureRun(w) PROVE Inv'
    BY <2>11 DEF EnsureRun, Runs!Create, Runs!Move
  <2>12. ASSUME NEW w \in Workers, Claim(w) PROVE Inv'
    BY <2>12 DEF Claim, Runs!Begin, Runs!Move
  <2>13. ASSUME NEW w \in Workers, Publish(w) PROVE Inv'
    BY <2>13 DEF Publish, Runs!Publish
  <2>14. ASSUME NEW w \in Workers, Succeed(w) PROVE Inv'
    BY <2>14 DEF Succeed, Runs!Succeed, Runs!Move
  <2>15. ASSUME NEW w \in Workers, Raise(w) PROVE Inv'
    BY <2>15 DEF Raise
  <2>16. ASSUME NEW w \in Workers, RunFails(w) PROVE Inv'
    BY <2>16 DEF RunFails, Runs!Abort, Runs!Move
  <2>17. ASSUME NEW w \in Workers, Crash(w) PROVE Inv'
    BY <2>17 DEF Crash
  <2>18. CASE UNCHANGED vars
    BY <2>18 DEF vars
  <2>q. QED
    BY <2>1, <2>2, <2>3, <2>4, <2>5, <2>6, <2>7, <2>8, <2>9, <2>10, <2>11, <2>12, <2>13, <2>14, <2>15, <2>16, <2>17, <2>18 DEF Next, Step, Disturb
<1>q. QED
  BY <1>1, <1>2, TypeInvariant, PTL DEF Spec

\* One brief at most cites a summary: it has news of that brief's date and of
\* no later one.  No overlap of calls is excepted, unlike for the periodic
\* pipelines, whose windows share summaries.
THEOREM CitedByOneBrief ==
  Spec => [](\A d, e \in Days : d # e => cited[d] \cap cited[e] = {})
<1>1. EvidenceOfDay => \A d, e \in Days : d # e => cited[d] \cap cited[e] = {}
  <2>. SUFFICES ASSUME EvidenceOfDay, NEW d \in Days, NEW e \in Days,
                       NEW b \in cited[d], b \in cited[e]
                PROVE  d = e
    OBVIOUS
  <2>1. NewsOf(b, d) /\ NewsOf(b, e)
    BY DEF EvidenceOfDay
  <2>2. d <= e /\ e <= d
    BY <2>1 DEF NewsOf
  <2>q. QED
    BY <2>2, PipelineAssumption
<1>q. QED
  BY <1>1, EvidenceOfDayHolds, PTL

-----------------------------------------------------------------------------
\* The pipeline does to workflow_run and brief only what RunLedger allows, so
\* what WorkflowRunner implements is what the pipeline runs on.
THEOREM PipelineKeepsLedger == Spec => Runs!Spec
<1>1. Init => Runs!Init
  BY DEF Init
<1>2. TypeInv /\ [Next]_vars => [Runs!Next]_(Runs!vars)
  <2>. SUFFICES ASSUME TypeInv, [Next]_vars
                PROVE  Runs!Next \/ UNCHANGED <<status, published>>
    BY DEF Runs!vars
  <2>. USE DEF tables
  <2>1. ASSUME NEW a \in Articles, Capture(a) PROVE UNCHANGED <<status, published>>
    BY <2>1 DEF Capture
  <2>2. ASSUME NEW w \in Workers, NEW d \in Days, Call(w, d)
        PROVE  UNCHANGED <<status, published>>
    BY <2>2 DEF Call
  <2>3. ASSUME NEW w \in Workers,
               \/ List(w) \/ SaveBatches(w) \/ BatchConflict(w) \/ Lookup(w)
               \/ Store(w) \/ Skip(w) \/ Select(w) \/ Report(w) \/ Raise(w) \/ Crash(w)
        PROVE  UNCHANGED <<status, published>>
    BY <2>3 DEF List, SaveBatches, BatchConflict, Lookup, Store, Skip, Select, Report,
                Raise, Crash
  <2>4. ASSUME NEW w \in Workers,
               EnsureRun(w) \/ Claim(w) \/ Publish(w) \/ Succeed(w) \/ RunFails(w)
        PROVE  Runs!Next \/ UNCHANGED <<status, published>>
    <3>1. day[w] \in Days
      BY <2>4 DEF TypeInv, Placed, EnsureRun, Claim, Publish, Succeed, RunFails, Owning
    <3>2. \/ UNCHANGED <<status, published>>
          \/ Runs!Create(day[w]) \/ Runs!Begin(day[w]) \/ Runs!Publish(day[w])
          \/ Runs!Succeed(day[w]) \/ Runs!Abort(day[w])
      BY <2>4 DEF EnsureRun, Claim, Publish, Succeed, RunFails
    <3>q. QED
      BY <3>1, <3>2 DEF Runs!Next
  <2>5. CASE UNCHANGED vars
    BY <2>5 DEF vars
  <2>q. QED
    BY <2>1, <2>2, <2>3, <2>4, <2>5 DEF Next, Step, Disturb
<1>q. QED
  BY <1>1, <1>2, TypeInvariant, PTL DEF Spec, Runs!Spec

-----------------------------------------------------------------------------
(***************************************************************************)
(* No call waits for another or goes on for ever: the two halves of the    *)
(* argument for CallsAnswered that need no fairness.                       *)
(***************************************************************************)
\* The call that claimed a date's run has it to itself until it is ended.
OwnsRun ==
  /\ \A d \in published : status[d] \notin {"absent", "pending"}
  /\ \A w \in Workers :
       /\ pc[w] = "claim" => status[day[w]] # "absent"
       /\ pc[w] \in Owning =>
            /\ status[day[w]] = "running"
            /\ day[w] \in published <=> pc[w] = "finish"
            /\ \A v \in Workers : pc[v] \in Owning /\ day[v] = day[w] => v = w

LEMMA RunOwned == Spec => []OwnsRun
<1>1. Init => OwnsRun
  BY DEF Init, OwnsRun, Owning, Runs!Init
<1>2. TypeInv /\ OwnsRun /\ [Next]_vars => OwnsRun'
  <2>. SUFFICES ASSUME TypeInv, OwnsRun, [Next]_vars PROVE OwnsRun'
    OBVIOUS
  <2>. USE DEF TypeInv, TypeOK, Placed, OwnsRun, Goto, Assign, Leave, Fault, tables, locals,
           Preparing, Owning, Runs!TypeOK, Runs!Status
  <2>1. ASSUME NEW a \in Articles, Capture(a) PROVE OwnsRun'
    BY <2>1 DEF Capture
  <2>2. ASSUME NEW w \in Workers, NEW d \in Days, Call(w, d) PROVE OwnsRun'
    BY <2>2 DEF Call
  <2>3. ASSUME NEW w \in Workers, List(w) PROVE OwnsRun'
    BY <2>3 DEF List
  <2>4. ASSUME NEW w \in Workers, SaveBatches(w) PROVE OwnsRun'
    BY <2>4 DEF SaveBatches
  <2>5. ASSUME NEW w \in Workers, BatchConflict(w) PROVE OwnsRun'
    BY <2>5 DEF BatchConflict
  <2>6. ASSUME NEW w \in Workers, Lookup(w) PROVE OwnsRun'
    BY <2>6 DEF Lookup, Summarised, Current
  <2>7. ASSUME NEW w \in Workers, Store(w) PROVE OwnsRun'
    BY <2>7 DEF Store, Summarised, Current
  <2>8. ASSUME NEW w \in Workers, Skip(w) PROVE OwnsRun'
    BY <2>8 DEF Skip, Summarised, Current
  <2>9. ASSUME NEW w \in Workers, Select(w) PROVE OwnsRun'
    BY <2>9 DEF Select, Current
  <2>10. ASSUME NEW w \in Workers, Report(w) PROVE OwnsRun'
    BY <2>10 DEF Report
  <2>11. ASSUME NEW w \in Workers, EnsureRun(w) PROVE OwnsRun'
    BY <2>11 DEF EnsureRun, Runs!Create, Runs!Move
  <2>12. ASSUME NEW w \in Workers, Claim(w) PROVE OwnsRun'
    BY <2>12 DEF Claim, Runs!Begin, Runs!Move
  <2>13. ASSUME NEW w \in Workers, Publish(w) PROVE OwnsRun'
    BY <2>13 DEF Publish, Runs!Publish
  <2>14. ASSUME NEW w \in Workers, Succeed(w) PROVE OwnsRun'
    BY <2>14 DEF Succeed, Runs!Succeed, Runs!Move
  <2>15. ASSUME NEW w \in Workers, Raise(w) PROVE OwnsRun'
    BY <2>15 DEF Raise
  <2>16. ASSUME NEW w \in Workers, RunFails(w) PROVE OwnsRun'
    BY <2>16 DEF RunFails, Runs!Abort, Runs!Move
  <2>17. ASSUME NEW w \in Workers, Crash(w) PROVE OwnsRun'
    BY <2>17 DEF Crash
  <2>18. CASE UNCHANGED vars
    BY <2>18 DEF vars
  <2>q. QED
    BY <2>1, <2>2, <2>3, <2>4, <2>5, <2>6, <2>7, <2>8, <2>9, <2>10, <2>11, <2>12, <2>13, <2>14, <2>15, <2>16, <2>17, <2>18 DEF Next, Step, Disturb
<1>q. QED
  BY <1>1, <1>2, TypeInvariant, PTL DEF Spec

Disjoint(groups) ==
  \A g \in groups : g # {} /\ \A h \in groups : g # h => g \cap h = {}

\* A loop is left when nothing is left to do, and its batches share no article.
LoopsSound ==
  \A w \in Workers :
    /\ pc[w] \in {"idle", "list"} => ready[w] = {}
    /\ pc[w] \in {"lookup", "store", "select"} => todo[w] # {}
    /\ Disjoint(todo[w] \cup ready[w])

\* One turn of the summary loop moves a batch or drops it.
LEMMA TurnKeepsLoops ==
  ASSUME TypeOK, LoopsSound, NEW w \in Workers, pc[w] \in {"lookup", "store"},
         NEW b \in todo[w], NEW have, have \subseteq ready[w] \cup {b},
         Summarised(w, b, have)
  PROVE  LoopsSound'
<1>1. /\ todo'[w] \cup ready'[w] \subseteq todo[w] \cup ready[w]
      /\ pc'[w] \in {"lookup", "select", "report"}
      /\ pc'[w] # "report" => todo'[w] # {}
  BY DEF Summarised, Assign, Goto, TypeOK
<1>2. \A v \in Workers \ {w} :
        pc'[v] = pc[v] /\ todo'[v] = todo[v] /\ ready'[v] = ready[v]
  BY DEF Summarised, Assign, Goto, TypeOK
<1>3. Disjoint(todo'[w] \cup ready'[w])
  BY <1>1 DEF LoopsSound, Disjoint
<1>q. QED
  BY <1>1, <1>2, <1>3 DEF LoopsSound

LEMMA LoopInvariant == Spec => []LoopsSound
<1>1. Init => LoopsSound
  BY DEF Init, LoopsSound, Disjoint
<1>2. TypeInv /\ LoopsSound /\ [Next]_vars => LoopsSound'
  <2>. SUFFICES ASSUME TypeInv, LoopsSound, [Next]_vars PROVE LoopsSound'
    OBVIOUS
  <2>. USE DEF TypeInv, TypeOK, LoopsSound, Disjoint, Goto, Assign, Leave, Fault, tables, locals,
           Preparing, Owning
  <2>1. ASSUME NEW a \in Articles, Capture(a) PROVE LoopsSound'
    BY <2>1 DEF Capture
  <2>2. ASSUME NEW w \in Workers, NEW d \in Days, Call(w, d) PROVE LoopsSound'
    BY <2>2 DEF Call
  <2>3. ASSUME NEW w \in Workers, List(w) PROVE LoopsSound'
    <3>1. Disjoint(Batching[Oldest(Unbatched(day[w]), MaxArticles)])
      BY ListedBatches
    <3>q. QED
      BY <2>3, <3>1 DEF List
  <2>4. ASSUME NEW w \in Workers, SaveBatches(w) PROVE LoopsSound'
    BY <2>4 DEF SaveBatches
  <2>5. ASSUME NEW w \in Workers, BatchConflict(w) PROVE LoopsSound'
    BY <2>5 DEF BatchConflict
  <2>6. ASSUME NEW w \in Workers, Lookup(w) PROVE LoopsSound'
    <3>1. CASE Goto(w, "store") /\ UNCHANGED locals
      BY <2>6, <3>1 DEF Lookup
    <3>2. CASE \E b \in Current(w) : Summarised(w, b, ready[w] \cup {b})
      BY <2>6, <3>2, TurnKeepsLoops DEF Lookup, Current
    <3>q. QED
      BY <2>6, <3>1, <3>2 DEF Lookup
  <2>7. ASSUME NEW w \in Workers, Store(w) PROVE LoopsSound'
    <3>1. CASE Leave(w, "raised")
      BY <2>7, <3>1 DEF Store
    <3>2. CASE \E b \in Current(w) : Summarised(w, b, ready[w] \cup {b})
      BY <2>7, <3>2, TurnKeepsLoops DEF Store, Current
    <3>q. QED
      BY <2>7, <3>1, <3>2 DEF Store
  <2>8. ASSUME NEW w \in Workers, Skip(w) PROVE LoopsSound'
    BY <2>8, TurnKeepsLoops DEF Skip, Current
  <2>9. ASSUME NEW w \in Workers, Select(w) PROVE LoopsSound'
    BY <2>9 DEF Select, Current
  <2>10. ASSUME NEW w \in Workers, Report(w) PROVE LoopsSound'
    BY <2>10 DEF Report
  <2>11. ASSUME NEW w \in Workers, EnsureRun(w) PROVE LoopsSound'
    BY <2>11 DEF EnsureRun, Runs!Create, Runs!Move
  <2>12. ASSUME NEW w \in Workers, Claim(w) PROVE LoopsSound'
    BY <2>12 DEF Claim, Runs!Begin, Runs!Move
  <2>13. ASSUME NEW w \in Workers, Publish(w) PROVE LoopsSound'
    BY <2>13 DEF Publish, Runs!Publish
  <2>14. ASSUME NEW w \in Workers, Succeed(w) PROVE LoopsSound'
    BY <2>14 DEF Succeed, Runs!Succeed, Runs!Move
  <2>15. ASSUME NEW w \in Workers, Raise(w) PROVE LoopsSound'
    BY <2>15 DEF Raise
  <2>16. ASSUME NEW w \in Workers, RunFails(w) PROVE LoopsSound'
    BY <2>16 DEF RunFails, Runs!Abort, Runs!Move
  <2>17. ASSUME NEW w \in Workers, Crash(w) PROVE LoopsSound'
    BY <2>17 DEF Crash
  <2>18. CASE UNCHANGED vars
    BY <2>18 DEF vars
  <2>q. QED
    BY <2>1, <2>2, <2>3, <2>4, <2>5, <2>6, <2>7, <2>8, <2>9, <2>10, <2>11, <2>12, <2>13, <2>14, <2>15, <2>16, <2>17, <2>18 DEF Next, Step, Disturb
<1>q. QED
  BY <1>1, <1>2, TypeInvariant, PTL DEF Spec

\* A loop with batches left is at exactly one of them, the one that comes first.
LEMMA CurrentIsOne ==
  ASSUME TypeOK, LoopsSound, NEW w \in Workers, todo[w] # {}
  PROVE  \E b \in todo[w] : Current(w) = {b}
<1>1. /\ UNION todo[w] \subseteq Nat
      /\ \A b \in todo[w] : b \subseteq Nat
  BY PipelineAssumption DEF TypeOK
<1>2. /\ \A b \in todo[w] : b # {}
      /\ \A b, c \in todo[w] : b # c => b \cap c = {}
  BY DEF LoopsSound, Disjoint
<1>3. \E x \in UNION todo[w] : \A y \in UNION todo[w] : x <= y
  BY <1>1, <1>2, LeastExists
<1>4. PICK x \in UNION todo[w] : \A y \in UNION todo[w] : x <= y
  BY <1>3
<1>5. PICK b \in todo[w] : x \in b
  OBVIOUS
<1>6. ASSUME NEW c \in todo[w] \ {b}, NEW y \in c PROVE x < y
  <2>1. x <= y /\ x # y
    BY <1>2, <1>4, <1>5, <1>6
  <2>q. QED
    BY <1>1, <2>1
<1>7. b \in Current(w)
  BY <1>5, <1>6 DEF Current
<1>8. ASSUME NEW c \in Current(w) PROVE c = b
  <2>. SUFFICES ASSUME c # b PROVE FALSE
    OBVIOUS
  <2>1. c \in todo[w] /\ b \in todo[w] \ {c}
    BY <1>8 DEF Current
  <2>2. PICK y \in c : \A z \in b : y < z
    BY <1>8, <2>1 DEF Current
  <2>3. x < y /\ y < x
    BY <1>5, <1>6, <2>1, <2>2
  <2>q. QED
    BY <1>1, <1>5, <2>1, <2>3
<1>q. QED
  BY <1>5, <1>7, <1>8

\* Nothing a call meets on its way can hold it up: a loop has its next batch,
\* the row it claims exists, and the transactions of the run it owns find the
\* row and the brief as they expect them, whatever other calls have done.
Unblocked(w) ==
  /\ pc[w] \in {"lookup", "store", "select"} => \E b : Current(w) = {b}
  /\ pc[w] = "claim" => status[day[w]] # "absent"
  /\ pc[w] = "execute" => status[day[w]] = "running" /\ day[w] \notin published
  /\ pc[w] = "finish" => status[day[w]] = "running" /\ day[w] \in published

THEOREM CallsUnblocked == Spec => [](\A w \in Workers : Unblocked(w))
<1>1. TypeOK /\ LoopsSound /\ OwnsRun => \A w \in Workers : Unblocked(w)
  <2>. SUFFICES ASSUME TypeOK, LoopsSound, OwnsRun, NEW w \in Workers PROVE Unblocked(w)
    OBVIOUS
  <2>1. pc[w] \in {"lookup", "store", "select"} => \E b : Current(w) = {b}
    BY CurrentIsOne DEF LoopsSound
  <2>q. QED
    BY <2>1 DEF Unblocked, OwnsRun, Owning
<1>q. QED
  BY <1>1, TypeCorrect, LoopInvariant, RunOwned, PTL

\* The parts of run, numbered from its end; the two places of the summary loop
\* are one part.
Phase ==
  [l \in {"idle"} \cup Preparing \cup Owning |->
     CASE l = "list" -> 9
       [] l = "save" -> 8
       [] l \in {"lookup", "store"} -> 7
       [] l = "select" -> 6
       [] l = "report" -> 5
       [] l = "run" -> 4
       [] l = "claim" -> 3
       [] l = "execute" -> 2
       [] l = "finish" -> 1
       [] OTHER -> 0]

\* A later part of run, fewer batches left in the loop, or from the lookup of
\* a batch to its summary.
Advances(w) ==
  \/ Phase[pc'[w]] < Phase[pc[w]]
  \/ /\ Phase[pc'[w]] = Phase[pc[w]]
     /\ todo'[w] \subseteq todo[w] /\ todo'[w] # todo[w]
  \/ pc[w] = "lookup" /\ pc'[w] = "store" /\ todo'[w] = todo[w]

\* Each step of a call takes it forward, and no step of another call takes it
\* back: no loop goes on for ever, however invalid the model's answers are.
THEOREM StepsAdvance ==
  Spec => [][\A w \in Workers :
               /\ Step(w) \/ Disturb(w) => Advances(w)
               /\ \/ pc'[w] = pc[w] /\ todo'[w] = todo[w]
                  \/ pc[w] = "idle" /\ pc'[w] = "list"
                  \/ Advances(w)]_vars
<1>1. ASSUME TypeInv, NEW w \in Workers, Step(w) \/ Disturb(w) PROVE Advances(w)
  <2>. USE <1>1 DEF TypeInv, TypeOK, Goto, Assign, Leave, Preparing, Owning, locals, Current
  <2>0. /\ Phase["list"] = 9 /\ Phase["save"] = 8
        /\ Phase["lookup"] = 7 /\ Phase["store"] = 7
        /\ Phase["select"] = 6 /\ Phase["report"] = 5 /\ Phase["run"] = 4
        /\ Phase["claim"] = 3 /\ Phase["execute"] = 2 /\ Phase["finish"] = 1
        /\ Phase["idle"] = 0
    BY DEF Phase
  <2>a. ASSUME pc[w] # "idle", pc'[w] = "idle" PROVE Advances(w)
    BY <2>0, <2>a DEF Advances
  <2>1. CASE List(w) \/ SaveBatches(w) \/ BatchConflict(w) \/ Report(w)
    BY <2>0, <2>1, <2>a DEF List, SaveBatches, BatchConflict, Report, Advances
  <2>2. ASSUME NEW b \in Current(w), NEW have, pc[w] \in {"lookup", "store"},
               Summarised(w, b, have)
        PROVE  Advances(w)
    <3>1. \/ pc'[w] = "lookup" /\ todo'[w] = todo[w] \ {b}
          \/ pc'[w] \in {"select", "report"}
      BY <2>2 DEF Summarised
    <3>q. QED
      BY <2>0, <2>2, <3>1 DEF Advances
  <2>3. CASE Lookup(w)
    BY <2>2, <2>3 DEF Lookup, Advances
  <2>4. CASE Store(w) \/ Skip(w)
    <3>1. \/ \E b \in Current(w) : \E have : Summarised(w, b, have)
          \/ pc'[w] = "idle"
      BY <2>4 DEF Store, Skip
    <3>2. pc[w] = "store"
      BY <2>4 DEF Store, Skip
    <3>q. QED
      BY <2>2, <2>a, <3>1, <3>2
  <2>5. CASE Select(w)
    <3>1. PICK b \in Current(w) :
            /\ todo'[w] = todo[w] \ {b}
            /\ pc'[w] \in {"select", "run", "report"}
      BY <2>5 DEF Select
    <3>2. pc[w] = "select"
      BY <2>5 DEF Select
    <3>q. QED
      BY <2>0, <3>1, <3>2 DEF Advances
  <2>6. CASE EnsureRun(w) \/ Claim(w) \/ Publish(w) \/ Succeed(w)
    <3>1. \/ pc[w] # "idle" /\ pc'[w] = "idle"
          \/ pc[w] = "run" /\ pc'[w] = "claim"
          \/ pc[w] = "claim" /\ pc'[w] = "execute"
          \/ pc[w] = "execute" /\ pc'[w] = "finish"
      BY <2>6 DEF EnsureRun, Claim, Publish, Succeed
    <3>q. QED
      BY <2>0, <2>a, <3>1 DEF Advances
  <2>7. CASE Disturb(w)
    BY <2>7, <2>a DEF Disturb, Raise, RunFails, Crash
  <2>q. QED
    BY <1>1, <2>1, <2>3, <2>4, <2>5, <2>6, <2>7 DEF Step
<1>2. ASSUME TypeInv, NEW v \in Workers, Step(v) \/ Disturb(v), NEW w \in Workers, w # v
      PROVE  pc'[w] = pc[w] /\ todo'[w] = todo[w]
  BY <1>2 DEF TypeInv, TypeOK, Goto, Assign, Leave, locals, Step, Disturb, List, SaveBatches,
              BatchConflict, Report, Lookup, Store, Skip, Summarised, Select, EnsureRun, Claim,
              Publish, Succeed, Raise, RunFails, Crash
<1>3. ASSUME TypeInv, [Next]_vars, NEW w \in Workers
      PROVE  \/ pc'[w] = pc[w] /\ todo'[w] = todo[w]
             \/ pc[w] = "idle" /\ pc'[w] = "list"
             \/ Advances(w)
  <2>1. ASSUME NEW v \in Workers, Step(v) \/ Disturb(v)
        PROVE  (pc'[w] = pc[w] /\ todo'[w] = todo[w]) \/ Advances(w)
    BY <1>1, <1>2, <1>3, <2>1
  <2>2. ASSUME NEW v \in Workers, NEW d \in Days, Call(v, d)
        PROVE  \/ pc'[w] = pc[w] /\ todo'[w] = todo[w]
               \/ pc[w] = "idle" /\ pc'[w] = "list"
    BY <1>3, <2>2 DEF Call, Goto, TypeInv, TypeOK
  <2>3. CASE UNCHANGED vars \/ \E a \in Articles : Capture(a)
    BY <2>3 DEF vars, locals, Capture
  <2>q. QED
    BY <1>3, <2>1, <2>2, <2>3 DEF Next
<1>4. TypeInv /\ [Next]_vars =>
        [\A w \in Workers :
           /\ Step(w) \/ Disturb(w) => Advances(w)
           /\ \/ pc'[w] = pc[w] /\ todo'[w] = todo[w]
              \/ pc[w] = "idle" /\ pc'[w] = "list"
              \/ Advances(w)]_vars
  BY <1>1, <1>3
<1>q. QED
  BY <1>4, TypeInvariant, PTL DEF Spec
=============================================================================

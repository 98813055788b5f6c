------------------------ MODULE WorkflowRunnerProofs ------------------------
(***************************************************************************)
(* Proofs about WorkflowRunner for any number of workers, keys and faults. *)
(***************************************************************************)
EXTENDS WorkflowRunner, LeastElements, FiniteSetTheorems, TLAPS

\* An execution under way has a key.
Located == \A w \in Workers : pc[w] # "idle" => key[w] \in Keys

TypeInv == TypeOK /\ Located

\* The briefed keys are keys.
LEMMA BriefedType ==
  ASSUME TypeOK
  PROVE  Briefed \in SUBSET Keys
BY DEF TypeOK, BriefRow, Briefed

\* The context query returns a key or nothing.
LEMMA NarrativeAsOfType ==
  ASSUME TypeOK, NEW k
  PROVE  NarrativeAsOf(k) \subseteq Keys \cup {NoKey}
BY DEF TypeOK, BriefRow, NarrativeAsOf

\* TypeOK, with the key of every execution under way, is inductive.
LEMMA TypeInvariant == Spec => []TypeInv
<1>1. Init => TypeInv
  BY KeysAssumption DEF Init, TypeInv, TypeOK, Located, Status, PC, Answer, Owning, TryBlock
<1>2. TypeInv /\ [Next]_vars => TypeInv'
  <2>. SUFFICES ASSUME TypeInv, [Next]_vars PROVE TypeInv'
    OBVIOUS
  <2>. USE KeysAssumption DEF TypeInv, TypeOK, Located, Status, PC, Answer, Owning,
           TryBlock, Goto, Continue, Leave, SetStatus, Fault
  <2>1. ASSUME NEW w \in Workers, NEW k \in Keys, Call(w, k) PROVE TypeInv'
    BY <2>1 DEF Call
  <2>2. ASSUME NEW w \in Workers, Lookup(w) PROVE TypeInv'
    BY <2>2 DEF Lookup, Dispatch
  <2>3. ASSUME NEW w \in Workers, Insert(w) PROVE TypeInv'
    BY <2>3 DEF Insert
  <2>4. ASSUME NEW w \in Workers, Reread(w) PROVE TypeInv'
    BY <2>4 DEF Reread, Dispatch
  <2>5. ASSUME NEW w \in Workers, Claim(w) PROVE TypeInv'
    BY <2>5, BriefedType DEF Claim, TakeClaim
  <2>6. ASSUME NEW w \in Workers, ReadWinner(w) PROVE TypeInv'
    BY <2>6 DEF ReadWinner
  <2>7. ASSUME NEW w \in Workers, LoadContext(w) PROVE TypeInv'
    BY <2>7, NarrativeAsOfType DEF LoadContext
  <2>8. ASSUME NEW w \in Workers, Generate(w) PROVE TypeInv'
    BY <2>8 DEF Generate
  <2>9. ASSUME NEW w \in Workers, DraftRows(w) PROVE TypeInv'
    BY <2>9 DEF DraftRows
  <2>10. ASSUME NEW w \in Workers, Commit(w) PROVE TypeInv'
    BY <2>10 DEF Commit, WriteBrief, Draft, BriefRow
  <2>11. ASSUME NEW w \in Workers, Finish(w) PROVE TypeInv'
    BY <2>11 DEF Finish, UpdateRun
  <2>12. ASSUME NEW w \in Workers, TryFails(w) PROVE TypeInv'
    BY <2>12 DEF TryFails
  <2>13. ASSUME NEW w \in Workers, MarkFailed(w) PROVE TypeInv'
    BY <2>13 DEF MarkFailed, UpdateRun
  <2>14. ASSUME NEW w \in Workers, TxFails(w) PROVE TypeInv'
    BY <2>14 DEF TxFails
  <2>15. ASSUME NEW w \in Workers, InsertAckLost(w) PROVE TypeInv'
    BY <2>15 DEF InsertAckLost
  <2>16. ASSUME NEW w \in Workers, ClaimAckLost(w) PROVE TypeInv'
    BY <2>16, BriefedType DEF ClaimAckLost, TakeClaim
  <2>17. ASSUME NEW w \in Workers, CommitAckLost(w) PROVE TypeInv'
    BY <2>17 DEF CommitAckLost, WriteBrief, Draft, BriefRow
  <2>18. ASSUME NEW w \in Workers, FinishAckLost(w) PROVE TypeInv'
    BY <2>18 DEF FinishAckLost, UpdateRun
  <2>19. ASSUME NEW w \in Workers, Crash(w) PROVE TypeInv'
    BY <2>19 DEF Crash
  <2>20. CASE UNCHANGED vars
    BY <2>20 DEF vars
  <2>q. QED
    BY <2>1, <2>2, <2>3, <2>4, <2>5, <2>6, <2>7, <2>8, <2>10, <2>11, <2>12, <2>13, <2>14, <2>15, <2>16, <2>17, <2>18, <2>19, <2>20, <2>9 DEF Next, Step, Disturb
<1>q. QED
  BY <1>1, <1>2, PTL DEF Spec

\* Every variable of the runner keeps its type: a row's status stays one of
\* WorkflowStatus, whatever fails (runner.py, repositories.py).
THEOREM TypeCorrect == Spec => []TypeOK
BY TypeInvariant, PTL DEF TypeInv

\* What the synthesis transaction adds to the briefed keys.
LEMMA WriteBriefBriefs ==
  ASSUME NEW w \in Workers, WriteBrief(w)
  PROVE  Briefed' = Briefed \cup {key[w]}
<1>1. briefs' = briefs \cup {Draft(w)} /\ Draft(w).key = key[w]
  BY DEF WriteBrief, Draft
<1>q. QED
  BY <1>1 DEF Briefed

\* The strengthened invariant holds: its parts carry each other, by one step
\* per action of the runner.
LEMMA RunInvariant == Spec => []RunInv
<1>1. Init => RunInv
  BY DEF Init, RunInv, ProgressAgrees, SingleOwner, RereadFindsRun, OneBriefPerRun,
         SucceededHasBrief, AnswersDurable, Owning, TryBlock, Briefed, Terminal
<1>2. TypeInv /\ RunInv /\ [Next]_vars => RunInv'
  <2>. SUFFICES ASSUME TypeInv, RunInv, [Next]_vars PROVE RunInv'
    OBVIOUS
  <2>. USE KeysAssumption DEF TypeInv, TypeOK, Located, Status, PC, Answer, Owning,
           TryBlock, Goto, Continue, Leave, SetStatus, Fault, Terminal,
           RunInv, ProgressAgrees, SingleOwner, RereadFindsRun, OneBriefPerRun,
           SucceededHasBrief, AnswersDurable, Briefed
  <2>1. ASSUME NEW w \in Workers, NEW k \in Keys, Call(w, k) PROVE RunInv'
    BY <2>1 DEF Call
  <2>2. ASSUME NEW w \in Workers, Lookup(w) PROVE RunInv'
    BY <2>2 DEF Lookup, Dispatch
  <2>3. ASSUME NEW w \in Workers, Insert(w) PROVE RunInv'
    <3>1. ProgressAgrees'
      BY <2>3 DEF Insert
    <3>2. SingleOwner'
      BY <2>3 DEF Insert
    <3>3. RereadFindsRun'
      BY <2>3 DEF Insert
    <3>4. OneBriefPerRun'
      BY <2>3 DEF Insert, BriefRow
    <3>5. SucceededHasBrief'
      BY <2>3 DEF Insert
    <3>6. AnswersDurable'
      BY <2>3 DEF Insert
    <3>q. QED
      BY <3>1, <3>2, <3>3, <3>4, <3>5, <3>6 DEF RunInv
  <2>4. ASSUME NEW w \in Workers, Reread(w) PROVE RunInv'
    BY <2>4 DEF Reread, Dispatch
  <2>5. ASSUME NEW w \in Workers, Claim(w) PROVE RunInv'
    <3>1. ProgressAgrees'
      BY <2>5 DEF Claim, TakeClaim, Claimable
    <3>2. SingleOwner'
      BY <2>5 DEF Claim, TakeClaim, Claimable
    <3>3. RereadFindsRun'
      BY <2>5 DEF Claim, TakeClaim, Claimable
    <3>4. OneBriefPerRun'
      BY <2>5 DEF Claim, TakeClaim, Claimable, BriefRow
    <3>5. SucceededHasBrief'
      BY <2>5 DEF Claim, TakeClaim, Claimable
    <3>6. AnswersDurable'
      BY <2>5 DEF Claim, TakeClaim, Claimable
    <3>q. QED
      BY <3>1, <3>2, <3>3, <3>4, <3>5, <3>6 DEF RunInv
  <2>6. ASSUME NEW w \in Workers, ReadWinner(w) PROVE RunInv'
    <3>1. ProgressAgrees'
      BY <2>6 DEF ReadWinner
    <3>2. SingleOwner'
      BY <2>6 DEF ReadWinner
    <3>3. RereadFindsRun'
      BY <2>6 DEF ReadWinner
    <3>4. OneBriefPerRun'
      BY <2>6 DEF ReadWinner
    <3>5. SucceededHasBrief'
      BY <2>6 DEF ReadWinner
    <3>6. AnswersDurable'
      BY <2>6 DEF ReadWinner
    <3>q. QED
      BY <3>1, <3>2, <3>3, <3>4, <3>5, <3>6 DEF RunInv
  <2>7. ASSUME NEW w \in Workers, LoadContext(w) PROVE RunInv'
    BY <2>7 DEF LoadContext
  <2>8. ASSUME NEW w \in Workers, Generate(w) PROVE RunInv'
    BY <2>8 DEF Generate
  <2>9. ASSUME NEW w \in Workers, DraftRows(w) PROVE RunInv'
    BY <2>9 DEF DraftRows
  <2>10. ASSUME NEW w \in Workers, Commit(w) PROVE RunInv'
    <3>1. ProgressAgrees'
      <4>1. Briefed' = Briefed \cup {key[w]}
        BY <2>10, WriteBriefBriefs DEF Commit
      <4>2. \A v \in Workers : pc[v] \in TryBlock /\ v # w => key[v] # key[w]
        BY <2>10 DEF Commit, WriteBrief
      <4>q. QED
        BY <2>10, <4>1, <4>2 DEF Commit, WriteBrief
    <3>2. SingleOwner'
      BY <2>10 DEF Commit, WriteBrief, Draft, Briefed
    <3>3. RereadFindsRun'
      BY <2>10 DEF Commit, WriteBrief, Draft, Briefed
    <3>4. OneBriefPerRun'
      BY <2>10 DEF Commit, WriteBrief, Draft, Briefed
    <3>5. SucceededHasBrief'
      BY <2>10 DEF Commit, WriteBrief, Draft, Briefed
    <3>6. AnswersDurable'
      BY <2>10 DEF Commit, WriteBrief, Draft, Briefed
    <3>q. QED
      BY <3>1, <3>2, <3>3, <3>4, <3>5, <3>6 DEF RunInv
  <2>11. ASSUME NEW w \in Workers, Finish(w) PROVE RunInv'
    BY <2>11 DEF Finish, UpdateRun, Briefed
  <2>12. ASSUME NEW w \in Workers, TryFails(w) PROVE RunInv'
    BY <2>12 DEF TryFails
  <2>13. ASSUME NEW w \in Workers, MarkFailed(w) PROVE RunInv'
    <3>1. ProgressAgrees'
      BY <2>13 DEF MarkFailed, UpdateRun, Permitted, Transitions
    <3>2. SingleOwner'
      BY <2>13 DEF MarkFailed, UpdateRun, Permitted, Transitions
    <3>3. RereadFindsRun'
      BY <2>13 DEF MarkFailed, UpdateRun, Permitted, Transitions
    <3>4. OneBriefPerRun'
      BY <2>13 DEF MarkFailed, UpdateRun, Permitted, Transitions, BriefRow
    <3>5. SucceededHasBrief'
      BY <2>13 DEF MarkFailed, UpdateRun, Permitted, Transitions
    <3>6. AnswersDurable'
      BY <2>13 DEF MarkFailed, UpdateRun, Permitted, Transitions
    <3>q. QED
      BY <3>1, <3>2, <3>3, <3>4, <3>5, <3>6 DEF RunInv
  <2>14. ASSUME NEW w \in Workers, TxFails(w) PROVE RunInv'
    BY <2>14 DEF TxFails
  <2>15. ASSUME NEW w \in Workers, InsertAckLost(w) PROVE RunInv'
    BY <2>15 DEF InsertAckLost
  <2>16. ASSUME NEW w \in Workers, ClaimAckLost(w) PROVE RunInv'
    BY <2>16 DEF ClaimAckLost, TakeClaim, Claimable
  <2>17. ASSUME NEW w \in Workers, CommitAckLost(w) PROVE RunInv'
    BY <2>17 DEF CommitAckLost, WriteBrief, Draft, Briefed
  <2>18. ASSUME NEW w \in Workers, FinishAckLost(w) PROVE RunInv'
    BY <2>18 DEF FinishAckLost, UpdateRun, Briefed
  <2>19. ASSUME NEW w \in Workers, Crash(w) PROVE RunInv'
    BY <2>19 DEF Crash
  <2>20. CASE UNCHANGED vars
    BY <2>20 DEF vars
  <2>q. QED
    BY <2>1, <2>2, <2>3, <2>4, <2>5, <2>6, <2>7, <2>8, <2>10, <2>11, <2>12, <2>13, <2>14, <2>15, <2>16, <2>17, <2>18, <2>19, <2>20, <2>9 DEF Next, Step, Disturb
<1>q. QED
  BY <1>1, <1>2, TypeInvariant, PTL DEF Spec

-----------------------------------------------------------------------------
\* Duplicate triggers never have two workers execute one run, whatever the
\* interleaving (claim_pending_workflow_run).
THEOREM SingleOwnerHolds == Spec => []SingleOwner
BY RunInvariant, PTL DEF RunInv

\* An interval has at most one brief, written under a claimed run.
THEOREM OneBriefPerRunHolds == Spec => []OneBriefPerRun
BY RunInvariant, PTL DEF RunInv

\* A succeeded run has its brief.
THEOREM SucceededHasBriefHolds == Spec => []SucceededHasBrief
BY RunInvariant, PTL DEF RunInv

\* Callers are told durable facts only.
THEOREM AnswersDurableHolds == Spec => []AnswersDurable
BY RunInvariant, PTL DEF RunInv

\* Losing the insert or the claim always leaves a row to report.
THEOREM RereadFindsRunHolds == Spec => []RereadFindsRun
BY RunInvariant, PTL DEF RunInv

\* A step of the runner is one step of the ledger, or none.
LEMMA StepImplementsLedger ==
  TypeInv /\ RunInv /\ [Next]_vars => [Ledger!Next]_(Ledger!vars)
<1>. SUFFICES ASSUME TypeInv, RunInv, [Next]_vars
              PROVE  [Ledger!Next]_(Ledger!vars)
  OBVIOUS
<1>. USE DEF TypeInv, TypeOK, Located, Owning, TryBlock, SetStatus,
         RunInv, ProgressAgrees, SingleOwner, RereadFindsRun, SucceededHasBrief,
         Briefed, Ledger!Next, Ledger!vars, Ledger!Move, Ledger!Create,
         Ledger!Begin, Ledger!Abort, Ledger!Succeed
<1>1. ASSUME NEW w \in Workers, NEW k \in Keys, Call(w, k) PROVE [Ledger!Next]_(Ledger!vars)
  BY <1>1 DEF Call
<1>2. ASSUME NEW w \in Workers, Lookup(w) PROVE [Ledger!Next]_(Ledger!vars)
  BY <1>2 DEF Lookup, Dispatch
<1>3. ASSUME NEW w \in Workers, Insert(w) PROVE [Ledger!Next]_(Ledger!vars)
  BY <1>3 DEF Insert
<1>4. ASSUME NEW w \in Workers, Reread(w) PROVE [Ledger!Next]_(Ledger!vars)
  BY <1>4 DEF Reread, Dispatch
<1>5. ASSUME NEW w \in Workers, Claim(w) PROVE [Ledger!Next]_(Ledger!vars)
  BY <1>5 DEF Claim, TakeClaim, Claimable
<1>6. ASSUME NEW w \in Workers, ReadWinner(w) PROVE [Ledger!Next]_(Ledger!vars)
  BY <1>6 DEF ReadWinner
<1>7. ASSUME NEW w \in Workers, LoadContext(w) PROVE [Ledger!Next]_(Ledger!vars)
  BY <1>7 DEF LoadContext
<1>8. ASSUME NEW w \in Workers, Generate(w) PROVE [Ledger!Next]_(Ledger!vars)
  BY <1>8 DEF Generate
<1>9. ASSUME NEW w \in Workers, DraftRows(w) PROVE [Ledger!Next]_(Ledger!vars)
  BY <1>9 DEF DraftRows
<1>10. ASSUME NEW w \in Workers, Commit(w) PROVE [Ledger!Next]_(Ledger!vars)
  BY <1>10, WriteBriefBriefs DEF Commit, WriteBrief, Ledger!Publish
<1>11. ASSUME NEW w \in Workers, Finish(w) PROVE [Ledger!Next]_(Ledger!vars)
  BY <1>11 DEF Finish, UpdateRun
<1>12. ASSUME NEW w \in Workers, TryFails(w) PROVE [Ledger!Next]_(Ledger!vars)
  BY <1>12 DEF TryFails
<1>13. ASSUME NEW w \in Workers, MarkFailed(w) PROVE [Ledger!Next]_(Ledger!vars)
  BY <1>13 DEF MarkFailed, UpdateRun, Permitted, Transitions
<1>14. ASSUME NEW w \in Workers, TxFails(w) PROVE [Ledger!Next]_(Ledger!vars)
  BY <1>14 DEF TxFails
<1>15. ASSUME NEW w \in Workers, InsertAckLost(w) PROVE [Ledger!Next]_(Ledger!vars)
  BY <1>15 DEF InsertAckLost
<1>16. ASSUME NEW w \in Workers, ClaimAckLost(w) PROVE [Ledger!Next]_(Ledger!vars)
  BY <1>16 DEF ClaimAckLost, TakeClaim, Claimable
<1>17. ASSUME NEW w \in Workers, CommitAckLost(w) PROVE [Ledger!Next]_(Ledger!vars)
  BY <1>17, WriteBriefBriefs DEF CommitAckLost, WriteBrief, Ledger!Publish
<1>18. ASSUME NEW w \in Workers, FinishAckLost(w) PROVE [Ledger!Next]_(Ledger!vars)
  BY <1>18 DEF FinishAckLost, UpdateRun
<1>19. ASSUME NEW w \in Workers, Crash(w) PROVE [Ledger!Next]_(Ledger!vars)
  BY <1>19 DEF Crash
<1>20. CASE UNCHANGED vars
  BY <1>20 DEF vars
<1>q. QED
  BY <1>1, <1>2, <1>3, <1>4, <1>5, <1>6, <1>7, <1>8, <1>10, <1>11, <1>12, <1>13, <1>14, <1>15, <1>16, <1>17, <1>18, <1>19, <1>20, <1>9 DEF Next, Step, Disturb

\* Every behaviour of the runner is one of the ledger: concurrent workers,
\* lost acknowledgements and crashes included.
THEOREM RunnerImplementsLedger == Spec => ImplementsLedger
<1>1. Init => Ledger!Init
  BY DEF Init, Ledger!Init, Briefed
<1>q. QED
  BY <1>1, StepImplementsLedger, TypeInvariant, RunInvariant, PTL
     DEF Spec, ImplementsLedger, Ledger!Spec

\* Nothing that runs late, twice or half way changes a terminal run.
THEOREM TerminalIsFinalHolds == Spec => TerminalIsFinal
<1>. DEFINE Keep == \A k \in Keys : status[k] \in Terminal =>
                      /\ status'[k] = status[k]
                      /\ k \in Briefed' => k \in Briefed
<1>1. TypeInv /\ RunInv /\ [Next]_vars => [Keep]_vars
  <2>1. ASSUME TypeInv, [Ledger!Next]_(Ledger!vars) PROVE Keep
    BY <2>1 DEF TypeInv, TypeOK, Terminal, Ledger!Next, Ledger!vars, Ledger!Move,
       Ledger!Create, Ledger!Begin, Ledger!Abort, Ledger!Succeed, Ledger!Publish
  <2>q. QED
    BY <2>1, StepImplementsLedger
<1>q. QED
  BY <1>1, TypeInvariant, RunInvariant, PTL DEF Spec, TerminalIsFinal

-----------------------------------------------------------------------------
(***************************************************************************)
(* Narrative lineage.  A worker's loaded narrative stays what NarrativeAsOf *)
(* found: briefs are only added, and those added after a claim are not in  *)
(* the history taken at the claim.                                         *)
(***************************************************************************)
Drafting(w) == pc[w] \in {"generate", "draft", "commit"}

ContextSound(w) ==
  narrative[w] # NoKey =>
    \E p \in briefs : /\ p.key = narrative[w]
                      /\ Precedes(p.key, key[w])
                      /\ pc[w] = "commit" => p.created < stamp[w]

ContextCurrent(w) ==
  \A c \in briefs : c.key \in before[key[w]] /\ Precedes(c.key, key[w]) =>
    \E p \in briefs : p.key = narrative[w] /\ ~Newer(c, p)

LineageInv ==
  /\ \A b \in briefs : b.created <= clock
  /\ \A k \in Keys : before[k] \subseteq Briefed
  /\ \A w \in Workers : stamp[w] <= clock
  /\ \A w \in Workers : Drafting(w) => ContextSound(w) /\ ContextCurrent(w)
  /\ LineageSound
  /\ NarrativeCurrent

\* Steps that leave the tables and every draft alone.
Quiet ==
  /\ UNCHANGED <<briefs, clock, before>>
  /\ \A w \in Workers : stamp'[w] \in {stamp[w], 0}
  /\ \A w \in Workers : Drafting(w)' =>
       /\ pc'[w] = pc[w]
       /\ key'[w] = key[w]
       /\ narrative'[w] = narrative[w]
       /\ stamp'[w] = stamp[w]

Writing(w) ==
  \/ (Claim(w) \/ ClaimAckLost(w)) /\ TakeClaim(w)
  \/ LoadContext(w) \/ Generate(w) \/ DraftRows(w)
  \/ Commit(w) \/ CommitAckLost(w)

\* A step that neither claims, drafts nor commits leaves alone what the
\* lineage of narratives depends on.
LEMMA QuietSteps ==
  ASSUME TypeInv, [Next]_vars
  PROVE  Quiet \/ \E w \in Workers : Writing(w)
<1>. USE DEF TypeInv, TypeOK, Quiet, Drafting, Goto, Continue, Leave, Briefed
<1>1. ASSUME NEW w \in Workers, NEW k \in Keys, Call(w, k) PROVE Quiet
  BY <1>1 DEF Call
<1>2. ASSUME NEW w \in Workers, Lookup(w) PROVE Quiet
  BY <1>2 DEF Lookup, Dispatch
<1>3. ASSUME NEW w \in Workers, Insert(w) PROVE Quiet
  BY <1>3 DEF Insert
<1>4. ASSUME NEW w \in Workers, Reread(w) PROVE Quiet
  BY <1>4 DEF Reread, Dispatch
<1>5. ASSUME NEW w \in Workers, ReadWinner(w) PROVE Quiet
  BY <1>5 DEF ReadWinner
<1>6. ASSUME NEW w \in Workers, Finish(w) PROVE Quiet
  BY <1>6 DEF Finish
<1>7. ASSUME NEW w \in Workers, TryFails(w) PROVE Quiet
  BY <1>7 DEF TryFails
<1>8. ASSUME NEW w \in Workers, MarkFailed(w) PROVE Quiet
  BY <1>8 DEF MarkFailed
<1>9. ASSUME NEW w \in Workers, TxFails(w) PROVE Quiet
  BY <1>9 DEF TxFails
<1>10. ASSUME NEW w \in Workers, InsertAckLost(w) PROVE Quiet
  BY <1>10 DEF InsertAckLost
<1>11. ASSUME NEW w \in Workers, FinishAckLost(w) PROVE Quiet
  BY <1>11 DEF FinishAckLost
<1>12. ASSUME NEW w \in Workers, Crash(w) PROVE Quiet
  BY <1>12 DEF Crash
<1>13. CASE UNCHANGED vars
  BY <1>13 DEF vars
<1>14. ASSUME NEW w \in Workers, Claim(w), ~TakeClaim(w) PROVE Quiet
  BY <1>14 DEF Claim
<1>q. QED
  BY <1>1, <1>2, <1>3, <1>4, <1>5, <1>6, <1>7, <1>8, <1>9, <1>10, <1>11, <1>12, <1>13,
     <1>14 DEF Next, Step, Disturb, Writing, ClaimAckLost

\* Such a step keeps the lineage invariant.
LEMMA QuietPreserves ==
  ASSUME TypeInv, LineageInv, Quiet
  PROVE  LineageInv'
<1>. USE DEF LineageInv, Quiet, TypeInv, TypeOK
<1>1. /\ (\A b \in briefs : b.created <= clock)'
      /\ (\A k \in Keys : before[k] \subseteq Briefed)'
      /\ (\A w \in Workers : stamp[w] <= clock)'
  BY DEF Briefed
<1>2. ASSUME NEW w \in Workers, Drafting(w)'
      PROVE  (ContextSound(w) /\ ContextCurrent(w))'
  BY <1>2 DEF ContextSound, ContextCurrent, Drafting, Newer, Precedes
<1>3. LineageSound' /\ NarrativeCurrent'
  BY DEF LineageSound, NarrativeCurrent, Newer, Precedes
<1>q. QED
  BY <1>1, <1>2, <1>3

\* What the ORDER BY gives: a row no row of the same topic and past is newer
\* than, when there is one.
LEMMA NarrativeAsOfIsNewest ==
  ASSUME NEW k, NEW n \in NarrativeAsOf(k)
  PROVE  /\ n # NoKey =>
              \E p \in briefs : p.key = n /\ Precedes(p.key, k)
         /\ \A c \in briefs : Precedes(c.key, k) =>
              \E p \in briefs : p.key = n /\ ~Newer(c, p)
BY DEF NarrativeAsOf

\* A claim keeps the lineage invariant: it records what is briefed by then.
LEMMA ClaimPreserves ==
  ASSUME TypeInv, RunInv, LineageInv, NEW w \in Workers,
         Claim(w) \/ ClaimAckLost(w), TakeClaim(w)
  PROVE  LineageInv'
<1>. USE DEF TypeInv, TypeOK, LineageInv
<1>1. /\ TakeClaim(w)
      /\ UNCHANGED <<briefs, clock>>
      /\ before' = [before EXCEPT ![key[w]] = Briefed]
      /\ status[key[w]] = "pending"
      /\ key[w] \in Keys
  BY DEF Claim, ClaimAckLost, TakeClaim, Claimable, RunInv, RereadFindsRun,
         ProgressAgrees, Located
<1>2. \A b \in briefs : b.key # key[w]
  BY <1>1 DEF RunInv, OneBriefPerRun
<1>3. \A v \in Workers \ {w} : pc[v] \in TryBlock => key[v] # key[w]
  BY <1>1 DEF RunInv, SingleOwner
<1>4. /\ ~Drafting(w)'
      /\ key' = key
      /\ \A v \in Workers : stamp'[v] \in {stamp[v], 0}
      /\ \A v \in Workers \ {w} : /\ pc'[v] = pc[v]
                                  /\ narrative'[v] = narrative[v]
                                  /\ stamp'[v] = stamp[v]
  BY DEF Claim, ClaimAckLost, Continue, Leave, Goto, Drafting
<1>5. /\ (\A b \in briefs : b.created <= clock)'
      /\ (\A k \in Keys : before[k] \subseteq Briefed)'
      /\ (\A v \in Workers : stamp[v] <= clock)'
  BY <1>1, <1>4 DEF Briefed
<1>6. ASSUME NEW v \in Workers, Drafting(v)'
      PROVE  (ContextSound(v) /\ ContextCurrent(v))'
  BY <1>1, <1>3, <1>4, <1>6
     DEF ContextSound, ContextCurrent, Drafting, Newer, Precedes, TryBlock
<1>7. LineageSound' /\ NarrativeCurrent'
  BY <1>1, <1>2 DEF LineageSound, NarrativeCurrent, Newer, Precedes
<1>q. QED
  BY <1>5, <1>6, <1>7

\* Loading the context keeps it: the version found is of the topic and past,
\* and as new as any recorded at the claim.
LEMMA LoadContextPreserves ==
  ASSUME TypeInv, LineageInv, NEW w \in Workers, LoadContext(w)
  PROVE  LineageInv'
<1>. USE DEF TypeInv, TypeOK, LineageInv
<1>1. /\ UNCHANGED <<briefs, clock, before, key, stamp>>
      /\ narrative'[w] \in NarrativeAsOf(key[w])
      /\ pc'[w] = "generate"
      /\ \A v \in Workers \ {w} : pc'[v] = pc[v] /\ narrative'[v] = narrative[v]
  BY NarrativeAsOfType DEF LoadContext, Continue, Goto
<1>2. /\ (\A b \in briefs : b.created <= clock)'
      /\ (\A k \in Keys : before[k] \subseteq Briefed)'
      /\ (\A v \in Workers : stamp[v] <= clock)'
  BY <1>1 DEF Briefed
<1>3. (ContextSound(w) /\ ContextCurrent(w))'
  BY <1>1, NarrativeAsOfIsNewest DEF ContextSound, ContextCurrent, Newer, Precedes
<1>4. ASSUME NEW v \in Workers \ {w}, Drafting(v)'
      PROVE  (ContextSound(v) /\ ContextCurrent(v))'
  BY <1>1, <1>4 DEF ContextSound, ContextCurrent, Drafting, Newer, Precedes
<1>5. LineageSound' /\ NarrativeCurrent'
  BY <1>1 DEF LineageSound, NarrativeCurrent, Newer, Precedes
<1>q. QED
  BY <1>2, <1>3, <1>4, <1>5

\* Calling the model keeps it: nothing it speaks of changes.
LEMMA GeneratePreserves ==
  ASSUME TypeInv, LineageInv, NEW w \in Workers, Generate(w)
  PROVE  LineageInv'
<1>. USE DEF TypeInv, TypeOK, LineageInv
<1>1. /\ UNCHANGED <<briefs, clock, before, key, narrative, stamp>>
      /\ Drafting(w) /\ pc'[w] = "draft"
      /\ \A v \in Workers \ {w} : pc'[v] = pc[v]
  BY DEF Generate, Continue, Goto, Drafting
<1>2. /\ (\A b \in briefs : b.created <= clock)'
      /\ (\A k \in Keys : before[k] \subseteq Briefed)'
      /\ (\A v \in Workers : stamp[v] <= clock)'
  BY <1>1 DEF Briefed
<1>3. ASSUME NEW v \in Workers, Drafting(v)'
      PROVE  (ContextSound(v) /\ ContextCurrent(v))'
  BY <1>1, <1>3 DEF ContextSound, ContextCurrent, Drafting, Newer, Precedes
<1>4. LineageSound' /\ NarrativeCurrent'
  BY <1>1 DEF LineageSound, NarrativeCurrent, Newer, Precedes
<1>q. QED
  BY <1>2, <1>3, <1>4

\* Drafting keeps it: the draft is stamped later than any committed brief.
LEMMA DraftRowsPreserves ==
  ASSUME TypeInv, LineageInv, NEW w \in Workers, DraftRows(w)
  PROVE  LineageInv'
<1>. USE DEF TypeInv, TypeOK, LineageInv
<1>1. /\ UNCHANGED <<briefs, before, key, narrative>>
      /\ pc[w] = "draft" /\ pc'[w] = "commit"
      /\ clock' = clock + 1
      /\ stamp'[w] = clock + 1
      /\ \A v \in Workers \ {w} : pc'[v] = pc[v] /\ stamp'[v] = stamp[v]
  BY DEF DraftRows, Continue, Goto
<1>2. \A b \in briefs : b.created \in Nat
  BY DEF BriefRow
<1>3. /\ (\A b \in briefs : b.created <= clock)'
      /\ (\A k \in Keys : before[k] \subseteq Briefed)'
      /\ (\A v \in Workers : stamp[v] <= clock)'
  BY <1>1, <1>2 DEF Briefed
<1>4. (ContextSound(w) /\ ContextCurrent(w))'
  BY <1>1, <1>2 DEF ContextSound, ContextCurrent, Drafting, Newer, Precedes
<1>5. ASSUME NEW v \in Workers \ {w}, Drafting(v)'
      PROVE  (ContextSound(v) /\ ContextCurrent(v))'
  BY <1>1, <1>5 DEF ContextSound, ContextCurrent, Drafting, Newer, Precedes
<1>6. LineageSound' /\ NarrativeCurrent'
  BY <1>1 DEF LineageSound, NarrativeCurrent, Newer, Precedes
<1>q. QED
  BY <1>3, <1>4, <1>5, <1>6

\* Committing keeps it: the draft becomes a brief with the version loaded.
LEMMA CommitPreserves ==
  ASSUME TypeInv, RunInv, LineageInv, NEW w \in Workers, Commit(w) \/ CommitAckLost(w)
  PROVE  LineageInv'
<1>. USE DEF TypeInv, TypeOK, LineageInv
<1>1. /\ WriteBrief(w)
      /\ pc[w] = "commit"
      /\ ~Drafting(w)'
      /\ key[w] \notin Briefed
      /\ UNCHANGED <<clock, before, key, narrative, stamp>>
      /\ \A v \in Workers \ {w} : pc'[v] = pc[v]
  BY DEF Commit, CommitAckLost, WriteBrief, Continue, Goto, Drafting
<1>2. /\ briefs' = briefs \cup {Draft(w)}
      /\ Draft(w).key = key[w]
      /\ Draft(w).parent = narrative[w]
      /\ Draft(w).created = stamp[w]
  BY <1>1 DEF WriteBrief, Draft
<1>3. \A k \in Keys : key[w] \notin before[k]
  BY <1>1
<1>4. key[w] \in Keys /\ ContextSound(w) /\ ContextCurrent(w)
  BY <1>1 DEF Located, Drafting
<1>5. /\ (\A b \in briefs : b.created <= clock)'
      /\ (\A v \in Workers : stamp[v] <= clock)'
  BY <1>1, <1>2
<1>6. (\A k \in Keys : before[k] \subseteq Briefed)'
  BY <1>1, WriteBriefBriefs
<1>7. ASSUME NEW v \in Workers, Drafting(v)'
      PROVE  (ContextSound(v) /\ ContextCurrent(v))'
  <2>1. v # w /\ Drafting(v) /\ pc'[v] = pc[v] /\ key[v] \in Keys
    BY <1>1, <1>7 DEF Drafting, Located
  <2>q. QED
    BY <2>1, <1>1, <1>2, <1>3 DEF ContextSound, ContextCurrent, Newer, Precedes
<1>8. LineageSound'
  BY <1>1, <1>2, <1>4 DEF LineageSound, ContextSound, Precedes
<1>9. NarrativeCurrent'
  <2>. SUFFICES ASSUME NEW b \in briefs', NEW c \in briefs',
                       c.key \in before[b.key], Precedes(c.key, b.key)
                PROVE  \E p \in briefs' : p.key = b.parent /\ ~Newer(c, p)
    BY <1>1 DEF NarrativeCurrent, Newer, Precedes
  <2>1. b.key \in Keys
    BY <1>2, <1>4 DEF BriefRow
  <2>2. c \in briefs
    BY <2>1, <1>2, <1>3
  <2>3. CASE b \in briefs
    BY <2>2, <2>3, <1>2 DEF NarrativeCurrent
  <2>4. CASE b = Draft(w)
    BY <2>2, <2>4, <1>2, <1>4 DEF ContextCurrent
  <2>q. QED
    BY <2>3, <2>4, <1>2
<1>q. QED
  BY <1>5, <1>6, <1>7, <1>8, <1>9

\* The lineage invariant holds, from the six steps above.
LEMMA LineageInvariant == Spec => []LineageInv
<1>1. Init => LineageInv
  BY DEF Init, LineageInv, LineageSound, NarrativeCurrent, Drafting
<1>2. TypeInv /\ RunInv /\ LineageInv /\ [Next]_vars => LineageInv'
  BY QuietSteps, QuietPreserves, ClaimPreserves, LoadContextPreserves,
     GeneratePreserves, DraftRowsPreserves, CommitPreserves DEF Writing
<1>q. QED
  BY <1>1, <1>2, TypeInvariant, RunInvariant, PTL DEF Spec

\* A narrative version descends only from one of its own topic and past, and
\* versions never form a cycle.
THEOREM LineageSoundHolds == Spec => []LineageSound
BY LineageInvariant, PTL DEF LineageInv

\* A brief misses no narrative that was there when its run was claimed.
THEOREM NarrativeCurrentHolds == Spec => []NarrativeCurrent
BY LineageInvariant, PTL DEF LineageInv

-----------------------------------------------------------------------------
(***************************************************************************)
(* Who owns a running row.  An execution leaves the places that own a row   *)
(* only by the update that ends it, unless an infrastructure fault takes it *)
(* away; so the property is inductive once RunInv says what the row of an   *)
(* owner's key is.                                                         *)
(***************************************************************************)
LEMMA OwnershipStep ==
  TypeInv /\ RunInv /\ RunningIsOwned /\ [Next]_vars => RunningIsOwned'
<1>. SUFFICES ASSUME TypeInv, RunInv, RunningIsOwned, [Next]_vars PROVE RunningIsOwned'
  OBVIOUS
<1>. USE DEF TypeInv, TypeOK, Located, Owning, TryBlock, Goto, Continue, Leave,
         SetStatus, Fault, RunInv, ProgressAgrees, SingleOwner, RunningIsOwned, Owns
<1>1. ASSUME NEW w \in Workers, NEW k \in Keys, Call(w, k) PROVE RunningIsOwned'
  BY <1>1 DEF Call
<1>2. ASSUME NEW w \in Workers, Lookup(w) PROVE RunningIsOwned'
  BY <1>2 DEF Lookup, Dispatch
<1>3. ASSUME NEW w \in Workers, Insert(w) PROVE RunningIsOwned'
  BY <1>3 DEF Insert
<1>4. ASSUME NEW w \in Workers, Reread(w) PROVE RunningIsOwned'
  BY <1>4 DEF Reread, Dispatch
<1>5. ASSUME NEW w \in Workers, Claim(w) PROVE RunningIsOwned'
  BY <1>5 DEF Claim, TakeClaim, Claimable
<1>6. ASSUME NEW w \in Workers, ReadWinner(w) PROVE RunningIsOwned'
  BY <1>6 DEF ReadWinner
<1>7. ASSUME NEW w \in Workers, LoadContext(w) PROVE RunningIsOwned'
  BY <1>7 DEF LoadContext
<1>8. ASSUME NEW w \in Workers, Generate(w) PROVE RunningIsOwned'
  BY <1>8 DEF Generate
<1>9. ASSUME NEW w \in Workers, DraftRows(w) PROVE RunningIsOwned'
  BY <1>9 DEF DraftRows
<1>10. ASSUME NEW w \in Workers, Commit(w) PROVE RunningIsOwned'
  BY <1>10 DEF Commit, WriteBrief
<1>11. ASSUME NEW w \in Workers, Finish(w) PROVE RunningIsOwned'
  BY <1>11 DEF Finish, UpdateRun
<1>12. ASSUME NEW w \in Workers, TryFails(w) PROVE RunningIsOwned'
  BY <1>12 DEF TryFails
<1>13. ASSUME NEW w \in Workers, MarkFailed(w) PROVE RunningIsOwned'
  BY <1>13 DEF MarkFailed, UpdateRun, Permitted, Transitions
<1>14. ASSUME NEW w \in Workers, TxFails(w) PROVE RunningIsOwned'
  BY <1>14 DEF TxFails
<1>15. ASSUME NEW w \in Workers, InsertAckLost(w) PROVE RunningIsOwned'
  BY <1>15 DEF InsertAckLost
<1>16. ASSUME NEW w \in Workers, ClaimAckLost(w) PROVE RunningIsOwned'
  BY <1>16 DEF ClaimAckLost, TakeClaim, Claimable
<1>17. ASSUME NEW w \in Workers, CommitAckLost(w) PROVE RunningIsOwned'
  BY <1>17 DEF CommitAckLost, WriteBrief
<1>18. ASSUME NEW w \in Workers, FinishAckLost(w) PROVE RunningIsOwned'
  BY <1>18 DEF FinishAckLost, UpdateRun
<1>19. ASSUME NEW w \in Workers, Crash(w) PROVE RunningIsOwned'
  BY <1>19 DEF Crash
<1>20. CASE UNCHANGED vars
  BY <1>20 DEF vars
<1>q. QED
  BY <1>1, <1>2, <1>3, <1>4, <1>5, <1>6, <1>7, <1>8, <1>10, <1>11,
     <1>12, <1>13, <1>14, <1>15, <1>16, <1>17, <1>18, <1>19, <1>20, <1>9 DEF Next, Step, Disturb

\* Without infrastructure faults no run is left running with nobody at work
\* on it: whatever the try block raises, the handler ends the run.
THEOREM RunningIsOwnedHolds == Spec => []RunningIsOwned
<1>1. Init => RunningIsOwned
  BY DEF Init, RunningIsOwned
<1>q. QED
  BY <1>1, OwnershipStep, TypeInvariant, RunInvariant, PTL DEF Spec

-----------------------------------------------------------------------------
(***************************************************************************)
(* How often the model is called.  A run is claimed once and has one owner, *)
(* so its key has no call until that owner has passed "generate".          *)
(***************************************************************************)
CallsInv ==
  /\ ModelCalledOnce
  /\ \A w \in Workers : pc[w] \in {"context", "generate"} => calls[key[w]] = 0

\* A step that does not call the model neither takes a claim back nor gives
\* a run that has made its call an owner that still has to make it.
CallsKept ==
  /\ calls' = calls
  /\ \A k \in Keys : status'[k] \in {"absent", "pending"} => status[k] \in {"absent", "pending"}
  /\ \A w \in Workers : pc'[w] \in {"context", "generate"} =>
       /\ key'[w] = key[w]
       /\ \/ pc[w] \in {"context", "generate"}
          \/ key[w] \in Keys /\ status[key[w]] = "pending"

LEMMA CallsKeptSteps ==
  ASSUME TypeInv, RunInv, [Next]_vars, \A w \in Workers : ~Generate(w)
  PROVE  CallsKept
<1>. USE DEF TypeInv, TypeOK, Located, Status, Owning, TryBlock, Goto, Continue, Leave,
         SetStatus, Fault, RunInv, ProgressAgrees, SingleOwner, CallsKept
<1>1. ASSUME NEW w \in Workers, NEW k \in Keys, Call(w, k) PROVE CallsKept
  BY <1>1 DEF Call
<1>2. ASSUME NEW w \in Workers, Lookup(w) PROVE CallsKept
  BY <1>2 DEF Lookup, Dispatch
<1>3. ASSUME NEW w \in Workers, Insert(w) PROVE CallsKept
  BY <1>3 DEF Insert
<1>4. ASSUME NEW w \in Workers, Reread(w) PROVE CallsKept
  BY <1>4 DEF Reread, Dispatch
<1>5. ASSUME NEW w \in Workers, Claim(w) PROVE CallsKept
  BY <1>5 DEF Claim, TakeClaim, Claimable
<1>6. ASSUME NEW w \in Workers, ReadWinner(w) PROVE CallsKept
  BY <1>6 DEF ReadWinner
<1>7. ASSUME NEW w \in Workers, LoadContext(w) PROVE CallsKept
  BY <1>7 DEF LoadContext
<1>8. ASSUME NEW w \in Workers, DraftRows(w) PROVE CallsKept
  BY <1>8 DEF DraftRows
<1>9. ASSUME NEW w \in Workers, Commit(w) PROVE CallsKept
  BY <1>9 DEF Commit, WriteBrief
<1>10. ASSUME NEW w \in Workers, Finish(w) PROVE CallsKept
  BY <1>10 DEF Finish, UpdateRun
<1>11. ASSUME NEW w \in Workers, TryFails(w) PROVE CallsKept
  BY <1>11 DEF TryFails
<1>12. ASSUME NEW w \in Workers, MarkFailed(w) PROVE CallsKept
  BY <1>12 DEF MarkFailed, UpdateRun, Permitted, Transitions
<1>13. ASSUME NEW w \in Workers, TxFails(w) PROVE CallsKept
  BY <1>13 DEF TxFails
<1>14. ASSUME NEW w \in Workers, InsertAckLost(w) PROVE CallsKept
  BY <1>14 DEF InsertAckLost
<1>15. ASSUME NEW w \in Workers, ClaimAckLost(w) PROVE CallsKept
  BY <1>15 DEF ClaimAckLost, TakeClaim, Claimable
<1>16. ASSUME NEW w \in Workers, CommitAckLost(w) PROVE CallsKept
  BY <1>16 DEF CommitAckLost, WriteBrief
<1>17. ASSUME NEW w \in Workers, FinishAckLost(w) PROVE CallsKept
  BY <1>17 DEF FinishAckLost, UpdateRun
<1>18. ASSUME NEW w \in Workers, Crash(w) PROVE CallsKept
  BY <1>18 DEF Crash
<1>19. CASE UNCHANGED vars
  BY <1>19 DEF vars
<1>q. QED
  BY <1>1, <1>2, <1>3, <1>4, <1>5, <1>6, <1>7, <1>8, <1>9, <1>10,
     <1>11, <1>12, <1>13, <1>14, <1>15, <1>16, <1>17, <1>18, <1>19 DEF Next, Step, Disturb

\* A call of the model is the first for its key, and the run is claimed.
LEMMA GenerateCalls ==
  ASSUME TypeInv, RunInv, CallsInv, NEW w \in Workers, Generate(w)
  PROVE  CallsInv'
<1>. USE DEF TypeInv, TypeOK, CallsInv
<1>1. /\ status' = status /\ key' = key
      /\ pc[w] = "generate" /\ pc' = [pc EXCEPT ![w] = "draft"]
      /\ calls' = [calls EXCEPT ![key[w]] = calls[key[w]] + 1]
  BY DEF Generate, Continue, Goto
<1>2. key[w] \in Keys /\ status[key[w]] = "running" /\ calls[key[w]] = 0
  BY <1>1 DEF Located, RunInv, SingleOwner, TryBlock
<1>3. \A v \in Workers : pc'[v] \in {"context", "generate"} =>
        v # w /\ pc[v] = pc'[v] /\ key[v] \in Keys /\ key[v] # key[w]
  BY <1>1 DEF Located, RunInv, SingleOwner, Owning, TryBlock
<1>4. ModelCalledOnce'
  BY <1>1, <1>2 DEF ModelCalledOnce
<1>q. QED
  BY <1>1, <1>3, <1>4

\* The runner calls the frontier model at most once for an interval and only
\* under a claim, also when the call or the run fails, is triggered twice,
\* loses an acknowledgement or dies with the process.
THEOREM ModelCalledOnceHolds == Spec => []ModelCalledOnce
<1>1. Init => CallsInv
  BY DEF Init, CallsInv, ModelCalledOnce
<1>2. TypeInv /\ RunInv /\ CallsInv /\ [Next]_vars => CallsInv'
  <2>. SUFFICES ASSUME TypeInv, RunInv, CallsInv, [Next]_vars PROVE CallsInv'
    OBVIOUS
  <2>1. ASSUME NEW w \in Workers, Generate(w) PROVE CallsInv'
    BY <2>1, GenerateCalls
  <2>2. CASE \A w \in Workers : ~Generate(w)
    <3>1. CallsKept
      BY <2>2, CallsKeptSteps
    <3>2. \A k \in Keys : calls[k] \in Nat /\ (status[k] \in {"absent", "pending"} => calls[k] = 0)
      BY DEF CallsInv, ModelCalledOnce, TypeInv, TypeOK
    <3>q. QED
      BY <3>1, <3>2 DEF CallsKept, CallsInv, ModelCalledOnce, TypeInv, TypeOK
  <2>q. QED
    BY <2>1, <2>2
<1>q. QED
  BY <1>1, <1>2, TypeInvariant, RunInvariant, PTL DEF Spec, CallsInv

-----------------------------------------------------------------------------
(***************************************************************************)
(* No execution waits for another or goes on for ever: the two halves of   *)
(* the argument for CallsAnswered that need no fairness.                   *)
(***************************************************************************)
\* Briefs are finitely many and drafted at different times, which no draft
\* under way shares.
StampsApart ==
  /\ IsFiniteSet(briefs)
  /\ \A a, b \in briefs : a.created = b.created => a = b
  /\ \A w \in Workers : pc[w] = "commit" =>
       /\ \A b \in briefs : b.created # stamp[w]
       /\ \A v \in Workers : pc[v] = "commit" /\ stamp[v] = stamp[w] => v = w

LEMMA StampsInvariant == Spec => []StampsApart
<1>1. Init => StampsApart
  BY FS_EmptySet DEF Init, StampsApart
<1>2. TypeInv /\ LineageInv /\ StampsApart /\ [Next]_vars => StampsApart'
  <2>. SUFFICES ASSUME TypeInv, LineageInv, StampsApart, [Next]_vars PROVE StampsApart'
    OBVIOUS
  <2>. USE DEF TypeInv, TypeOK, StampsApart, Goto, Continue
  <2>1. CASE Quiet
    <3>1. briefs' = briefs
      BY <2>1 DEF Quiet
    <3>2. ASSUME NEW w \in Workers, pc'[w] = "commit"
          PROVE  pc[w] = "commit" /\ stamp'[w] = stamp[w]
      BY <2>1, <3>2 DEF Quiet, Drafting
    <3>q. QED
      BY <3>1, <3>2
  <2>2. ASSUME NEW w \in Workers, (Claim(w) \/ ClaimAckLost(w)) /\ TakeClaim(w)
        PROVE  StampsApart'
    BY <2>2 DEF Claim, ClaimAckLost, Leave
  <2>3. ASSUME NEW w \in Workers, LoadContext(w) PROVE StampsApart'
    BY <2>3 DEF LoadContext
  <2>4. ASSUME NEW w \in Workers, Generate(w) PROVE StampsApart'
    BY <2>4 DEF Generate
  <2>5. ASSUME NEW w \in Workers, DraftRows(w) PROVE StampsApart'
    <3>1. \A b \in briefs : b.created <= clock /\ b.created \in Nat
      BY DEF LineageInv, BriefRow
    <3>2. \A v \in Workers : stamp[v] <= clock
      BY DEF LineageInv
    <3>q. QED
      BY <2>5, <3>1, <3>2 DEF DraftRows
  <2>6. ASSUME NEW w \in Workers, Commit(w) \/ CommitAckLost(w) PROVE StampsApart'
    <3>1. /\ pc[w] = "commit" /\ briefs' = briefs \cup {Draft(w)}
          /\ pc'[w] # "commit" /\ stamp' = stamp
          /\ \A v \in Workers \ {w} : pc'[v] = pc[v]
      BY <2>6 DEF Commit, CommitAckLost, WriteBrief
    <3>2. Draft(w).created = stamp[w]
      BY DEF Draft
    <3>3. IsFiniteSet(briefs')
      BY <3>1, FS_AddElement
    <3>q. QED
      BY <3>1, <3>2, <3>3
  <2>q. QED
    BY <2>1, <2>2, <2>3, <2>4, <2>5, <2>6, QuietSteps DEF Writing
<1>q. QED
  BY <1>1, <1>2, TypeInvariant, LineageInvariant, PTL DEF Spec

\* The ORDER BY with its LIMIT 1 leaves one answer, whatever is in the table.
LEMMA NarrativeAsOfIsOne ==
  ASSUME TypeOK, StampsApart, NEW k
  PROVE  \E n : NarrativeAsOf(k) = {n}
<1>. DEFINE rows == {b \in briefs : Precedes(b.key, k)}
<1>1. CASE rows = {}
  BY <1>1 DEF NarrativeAsOf
<1>2. CASE rows # {}
  <2>. DEFINE above == [b \in rows |-> {c \in rows : Newer(c, b)}]
  <2>1. \A b \in rows : b.created \in Nat /\ End[b.key] \in Nat
    BY KeysAssumption DEF TypeOK, BriefRow
  <2>2. IsFiniteSet(rows)
    BY FS_Subset DEF StampsApart
  <2>3. /\ above \in [rows -> SUBSET rows]
        /\ \A b \in rows : b \notin above[b]
        /\ \A b \in rows : \A c \in above[b] : above[c] \subseteq above[b]
    BY <2>1 DEF Newer
  <2>4. \E b \in rows : above[b] = {}
    <3>. HIDE DEF rows, above
    <3>q. QED
      BY <1>2, <2>2, <2>3, TopExists
  <2>5. PICK b \in rows : \A c \in rows : ~Newer(c, b)
    BY <2>4
  <2>6. ASSUME NEW a \in rows, \A c \in rows : ~Newer(c, a) PROVE a = b
    <3>1. ~Newer(a, b) /\ ~Newer(b, a)
      BY <2>5, <2>6
    <3>2. a.created = b.created
      BY <2>1, <3>1 DEF Newer
    <3>q. QED
      BY <3>2 DEF StampsApart
  <2>7. NarrativeAsOf(k) = {c.key : c \in {a \in rows : \A c \in rows : ~Newer(c, a)}}
    BY <1>2 DEF NarrativeAsOf
  <2>8. {a \in rows : \A c \in rows : ~Newer(c, a)} = {b}
    BY <2>5, <2>6
  <2>9. NarrativeAsOf(k) = {b.key}
    BY <2>7, <2>8
  <2>q. QED
    BY <2>9
<1>q. QED
  BY <1>1, <1>2

\* Nothing an execution meets on its way can hold it up or surprise it: the
\* row it reads again exists, there is one narrative to build on, and the
\* transactions of the run it owns find the row and the brief as they expect
\* them, whatever other executions have done.
Unblocked(w) ==
  /\ pc[w] \in {"reread", "claim", "lost"} => status[key[w]] # "absent"
  /\ pc[w] = "context" => \E n : NarrativeAsOf(key[w]) = {n}
  /\ pc[w] = "commit" => key[w] \notin Briefed
  /\ pc[w] = "finish" => Permitted(key[w], "succeeded")

THEOREM CallsUnblocked == Spec => [](\A w \in Workers : Unblocked(w))
<1>1. TypeOK /\ RunInv /\ StampsApart => \A w \in Workers : Unblocked(w)
  <2>. SUFFICES ASSUME TypeOK, RunInv, StampsApart, NEW w \in Workers PROVE Unblocked(w)
    OBVIOUS
  <2>1. pc[w] = "context" => \E n : NarrativeAsOf(key[w]) = {n}
    BY NarrativeAsOfIsOne
  <2>2. pc[w] = "commit" => key[w] \notin Briefed
    BY DEF RunInv, ProgressAgrees
  <2>3. pc[w] = "finish" => status[key[w]] = "running"
    BY DEF RunInv, SingleOwner, TryBlock
  <2>4. "succeeded" \in Transitions["running"]
    BY DEF Transitions, Status
  <2>5. pc[w] \in {"reread", "claim", "lost"} => status[key[w]] # "absent"
    BY DEF RunInv, RereadFindsRun
  <2>q. QED
    BY <2>1, <2>2, <2>3, <2>4, <2>5 DEF Unblocked, Permitted
<1>q. QED
  BY <1>1, TypeCorrect, RunInvariant, StampsInvariant, PTL

\* How many steps an execution has left at most.
Left ==
  [l \in PC |-> CASE l = "lookup" -> 11
                  [] l = "insert" -> 10
                  [] l = "reread" -> 9
                  [] l = "claim" -> 8
                  [] l = "lost" -> 7
                  [] l = "context" -> 6
                  [] l = "generate" -> 5
                  [] l = "draft" -> 4
                  [] l = "commit" -> 3
                  [] l = "finish" -> 2
                  [] l = "fail" -> 1
                  [] OTHER -> 0]

\* Each step of an execution brings it nearer to its answer, and no step of
\* another execution takes it back: eleven steps at most, however many others
\* ask for the same interval and whatever fails.
THEOREM StepsAdvance ==
  Spec => [][\A w \in Workers :
               /\ Step(w) \/ Disturb(w) => Left[pc'[w]] < Left[pc[w]]
               /\ \/ pc'[w] = pc[w]
                  \/ pc[w] = "idle" /\ pc'[w] = "lookup"
                  \/ Left[pc'[w]] < Left[pc[w]]]_vars
<1>1. ASSUME TypeInv, NEW w \in Workers, Step(w) \/ Disturb(w)
      PROVE  Left[pc'[w]] < Left[pc[w]]
  <2>. USE <1>1 DEF TypeInv, TypeOK, Goto, Continue, Leave, PC, Owning, TryBlock
  <2>0. /\ Left["lookup"] = 11 /\ Left["insert"] = 10 /\ Left["reread"] = 9
        /\ Left["claim"] = 8 /\ Left["lost"] = 7 /\ Left["context"] = 6
        /\ Left["generate"] = 5 /\ Left["draft"] = 4 /\ Left["commit"] = 3
        /\ Left["finish"] = 2 /\ Left["fail"] = 1 /\ Left["idle"] = 0
    BY DEF Left
  <2>1. CASE Lookup(w) \/ Insert(w) \/ Reread(w)
    BY <2>0, <2>1 DEF Lookup, Insert, Reread, Dispatch
  <2>2. CASE Claim(w) \/ ReadWinner(w) \/ LoadContext(w) \/ Generate(w) \/ DraftRows(w)
    BY <2>0, <2>2 DEF Claim, ReadWinner, LoadContext, Generate, DraftRows
  <2>3. CASE Commit(w) \/ Finish(w) \/ TryFails(w) \/ MarkFailed(w)
    BY <2>0, <2>3 DEF Commit, WriteBrief, Finish, TryFails, MarkFailed
  <2>4. CASE Disturb(w)
    BY <2>0, <2>4 DEF Disturb, TxFails, InsertAckLost, ClaimAckLost, CommitAckLost,
                      WriteBrief, FinishAckLost, Crash
  <2>q. QED
    BY <1>1, <2>1, <2>2, <2>3, <2>4 DEF Step
<1>2. ASSUME TypeInv, NEW v \in Workers, Step(v) \/ Disturb(v), NEW w \in Workers, w # v
      PROVE  pc'[w] = pc[w]
  BY <1>2 DEF TypeInv, TypeOK, Goto, Continue, Leave, Step, Disturb, Lookup, Insert, Reread,
              Dispatch, Claim, ReadWinner, LoadContext, Generate, DraftRows, Commit, Finish, TryFails,
              MarkFailed, TxFails, InsertAckLost, ClaimAckLost, CommitAckLost, FinishAckLost,
              Crash
<1>3. ASSUME TypeInv, [Next]_vars, NEW w \in Workers
      PROVE  \/ pc'[w] = pc[w]
             \/ pc[w] = "idle" /\ pc'[w] = "lookup"
             \/ Left[pc'[w]] < Left[pc[w]]
  <2>1. ASSUME NEW v \in Workers, Step(v) \/ Disturb(v)
        PROVE  pc'[w] = pc[w] \/ Left[pc'[w]] < Left[pc[w]]
    BY <1>1, <1>2, <1>3, <2>1
  <2>2. ASSUME NEW v \in Workers, NEW k \in Keys, Call(v, k)
        PROVE  pc'[w] = pc[w] \/ (pc[w] = "idle" /\ pc'[w] = "lookup")
    BY <1>3, <2>2 DEF Call, Goto, TypeInv, TypeOK
  <2>q. QED
    BY <1>3, <2>1, <2>2 DEF Next, vars
<1>4. TypeInv /\ [Next]_vars =>
        [\A w \in Workers :
           /\ Step(w) \/ Disturb(w) => Left[pc'[w]] < Left[pc[w]]
           /\ \/ pc'[w] = pc[w]
              \/ pc[w] = "idle" /\ pc'[w] = "lookup"
              \/ Left[pc'[w]] < Left[pc[w]]]_vars
  BY <1>1, <1>3
<1>q. QED
  BY <1>4, TypeInvariant, PTL DEF Spec
=============================================================================

------------------------- MODULE FeedPollingProofs -------------------------
(***************************************************************************)
(* Proofs about FeedPolling for any number of calls, feeds, documents,     *)
(* candidates and faults.                                                  *)
(***************************************************************************)
EXTENDS FeedPolling, LeastElements, FiniteSetTheorems, TLAPS

\* Every feed has a current document.
HasDocument == \A f \in Feeds : revision[f] \in 1..Len(Documents[f])

TypeInv == TypeOK /\ HasDocument /\ CallsSound

\* The current document of a feed is a set of entries.
LEMMA CurrentType ==
  ASSUME HasDocument, NEW f \in Feeds
  PROVE  Current(f) \in SUBSET Entries
BY FeedsAssumption DEF HasDocument, Current

\* What the end of a call leaves behind.
LEMMA LeaveEffect ==
  ASSUME TypeOK, NEW w \in Workers, Leave(w)
  PROVE  /\ pc' \in [Workers -> PC]
         /\ due' \in [Workers -> SUBSET Feeds]
         /\ listed' \in [Workers -> Listing]
         /\ feed' \in [Workers -> Feeds \cup {NoFeed}]
         /\ row' \in [Workers -> Row]
         /\ todo' \in [Workers -> SUBSET Entries]
         /\ pc'[w] = "idle" /\ feed'[w] = NoFeed /\ todo'[w] = {} /\ due'[w] = {}
         /\ \A v \in Workers \ {w} :
              /\ pc'[v] = pc[v] /\ feed'[v] = feed[v] /\ todo'[v] = todo[v]
              /\ due'[v] = due[v] /\ listed'[v] = listed[v] /\ row'[v] = row[v]
<1>1. NoRow \in Row
  BY DEF NoRow, Row
<1>2. NoListing \in Listing
  BY <1>1 DEF NoListing, Listing
<1>q. QED
  BY <1>1, <1>2 DEF Leave, Goto, Assign, TypeOK, PC

\* Where a call stands when only the candidates in rest are left.
LEMMA ProceedEffect ==
  ASSUME TypeOK, NEW w \in Workers, NEW rest \in SUBSET Entries, Proceed(w, rest)
  PROVE  /\ pc' \in [Workers -> PC]
         /\ due' \in [Workers -> SUBSET Feeds]
         /\ listed' \in [Workers -> Listing]
         /\ feed' \in [Workers -> Feeds \cup {NoFeed}]
         /\ row' \in [Workers -> Row]
         /\ todo' \in [Workers -> SUBSET Entries]
         /\ pc'[w] \in {"idle", "fetch", "candidate"}
         /\ pc'[w] = "candidate" => feed'[w] = feed[w]
         /\ pc'[w] # "candidate" => feed'[w] = NoFeed
         /\ rest # {} => pc'[w] = "candidate"
         /\ todo'[w] = rest
         /\ \A f \in due'[w] : f \in due[w] /\ listed'[w] = listed[w]
         /\ \A v \in Workers \ {w} :
              /\ pc'[v] = pc[v] /\ feed'[v] = feed[v] /\ todo'[v] = todo[v]
              /\ due'[v] = due[v] /\ listed'[v] = listed[v] /\ row'[v] = row[v]
<1>1. NoRow \in Row
  BY DEF NoRow, Row
<1>2. CASE rest # {} /\ Goto(w, "candidate") /\ todo' = Assign(todo, w, rest)
           /\ row' = Assign(row, w, NoRow) /\ UNCHANGED <<due, listed, feed>>
  BY <1>1, <1>2 DEF Goto, Assign, TypeOK, PC, Handling
<1>3. CASE rest = {} /\ due[w] # {} /\ Goto(w, "fetch") /\ todo' = Assign(todo, w, {})
           /\ row' = Assign(row, w, NoRow) /\ feed' = Assign(feed, w, NoFeed)
           /\ UNCHANGED <<due, listed>>
  BY <1>1, <1>3 DEF Goto, Assign, TypeOK, PC, Handling
<1>4. CASE rest = {} /\ due[w] = {} /\ Leave(w)
  BY <1>4, LeaveEffect
<1>q. QED
  BY <1>2, <1>3, <1>4 DEF Proceed

\* Every step keeps the types.
LEMMA TypeStep ==
  ASSUME TypeInv, Next \/ UNCHANGED vars PROVE TypeOK' /\ HasDocument'
<1>. USE DEF TypeInv, TypeOK, HasDocument, PC, Goto, Assign
<1>1. ASSUME NEW f \in Feeds, NewDocument(f) PROVE TypeOK' /\ HasDocument'
  BY <1>1, FeedsAssumption DEF NewDocument, tables, locals, history
<1>2. ASSUME NEW f \in Feeds, IntervalPasses(f) PROVE TypeOK' /\ HasDocument'
  BY <1>2 DEF IntervalPasses, locals, history
<1>3. ASSUME NEW r \in Requests, Register(r[1], r[2]) PROVE TypeOK' /\ HasDocument'
  <2>1. r[1] \in Feeds /\ r[2] \in BOOLEAN
    BY FeedsAssumption
  <2>2. before' \in SUBSET (Feeds \X Feeds)
    BY <1>3, <2>1 DEF Register
  <2>q. QED
    BY <1>3, <2>1, <2>2 DEF Register, locals, Row
<1>4. ASSUME NEW w \in Workers, Poll(w) PROVE TypeOK' /\ HasDocument'
  BY <1>4 DEF Poll, tables, history, DueFeeds, Oldest, Listing, Row, NoRow
<1>5. ASSUME NEW w \in Workers, NEW e \in Direct, Submit(w, e) PROVE TypeOK' /\ HasDocument'
  <2>1. {e} \in SUBSET Entries
    BY FeedsAssumption
  <2>q. QED
    BY <1>5, <2>1 DEF Submit, tables, history, Handling
<1>6. ASSUME NEW w \in Workers, Fetch(w) PROVE TypeOK' /\ HasDocument'
  <2>1. PICK f \in due[w] \ Broken :
          /\ feed' = Assign(feed, w, f)
          /\ due' = Assign(due, w, due[w] \ {f})
          /\ listed' = Assign(listed, w, [listed[w] EXCEPT !.rows[f] = NoRow])
          /\ \E a \in Answer(f, listed[w].rows[f]) :
               row' = Assign(row, w, a.row) /\ todo' = Assign(todo, w, a.entries)
    BY <1>6 DEF Fetch
  <2>2. PICK a \in Answer(f, listed[w].rows[f]) :
          row' = Assign(row, w, a.row) /\ todo' = Assign(todo, w, a.entries)
    BY <2>1
  <2>3. f \in Feeds
    OBVIOUS
  <2>4. listed[w].rows[f] \in Row /\ [listed[w] EXCEPT !.rows[f] = NoRow] \in Listing
    <3>1. NoRow \in Row
      BY DEF NoRow, Row
    <3>2. listed[w] \in Listing
      OBVIOUS
    <3>q. QED
      BY <2>3, <3>1, <3>2 DEF Listing
  <2>5. a.row \in Row /\ a.entries \in SUBSET Entries
    <3>. DEFINE old == listed[w].rows[f]
    <3>1. CASE a = [row |-> old, entries |-> {}]
      BY <2>4, <3>1
    <3>2. CASE a = [row |-> [old EXCEPT !.etag = IF f \in Validating THEN revision[f] ELSE old.etag],
                    entries |-> Current(f)]
      <4>1. Current(f) \in SUBSET Entries
        BY <2>3, CurrentType
      <4>2. revision[f] \in Nat
        BY <2>3
      <4>q. QED
        BY <2>4, <3>2, <4>1, <4>2 DEF Row
    <3>q. QED
      BY <2>2, <3>1, <3>2 DEF Answer
  <2>q. QED
    BY <1>6, <2>1, <2>2, <2>3, <2>4, <2>5 DEF Fetch, tables, history
<1>7. ASSUME NEW w \in Workers, FetchRaises(w) PROVE TypeOK' /\ HasDocument'
  BY <1>7, LeaveEffect DEF FetchRaises, tables, history
<1>8. ASSUME NEW w \in Workers, Save(w) PROVE TypeOK' /\ HasDocument'
  <2>1. Proceed(w, todo[w]) /\ todo[w] \in SUBSET Entries /\ feed[w] \in Feeds
    BY <1>8 DEF Save, CallsSound
  <2>2. feeds' \in [Feeds -> Row] /\ before' \in SUBSET (Feeds \X Feeds) /\ recent' \in SUBSET Feeds
    BY <1>8, <2>1 DEF Save
  <2>q. QED
    BY <1>8, <2>1, <2>2, ProceedEffect DEF Save, history
<1>9. ASSUME NEW w \in Workers, Reject(w) PROVE TypeOK' /\ HasDocument'
  BY <1>9, ProceedEffect DEF Reject, Record, Attempt, Status, history
<1>10. ASSUME NEW w \in Workers, CheckDuplicate(w) PROVE TypeOK' /\ HasDocument'
  BY <1>10 DEF CheckDuplicate, tables, locals, history, Handling
<1>11. ASSUME NEW w \in Workers, RecordDuplicate(w) PROVE TypeOK' /\ HasDocument'
  BY <1>11, ProceedEffect DEF RecordDuplicate, Record, Attempt, Status, history
<1>12. ASSUME NEW w \in Workers, ExtractFails(w) PROVE TypeOK' /\ HasDocument'
  BY <1>12, ProceedEffect DEF ExtractFails, Record, Attempt, Status, history
<1>13. ASSUME NEW w \in Workers, Insert(w) PROVE TypeOK' /\ HasDocument'
  <2>1. PICK e \in todo[w] :
          NextUp(w, e) /\ articles' = articles \cup {Url[e]} /\ Record(w, e, "succeeded")
    BY <1>13 DEF Insert
  <2>2. Url[e] \in Urls /\ e \in Entries
    BY <1>13, <2>1 DEF Insert, CallsSound
  <2>q. QED
    BY <1>13, <2>1, <2>2, ProceedEffect DEF Insert, Record, Attempt, Status, history
<1>14. ASSUME NEW w \in Workers, InsertRefused(w) PROVE TypeOK' /\ HasDocument'
  BY <1>14 DEF InsertRefused, tables, locals, history, Handling
<1>15. ASSUME NEW w \in Workers, Reload(w) PROVE TypeOK' /\ HasDocument'
  BY <1>15, ProceedEffect DEF Reload, Record, Attempt, Status, history
<1>16. ASSUME NEW w \in Workers, CandidateFails(w) PROVE TypeOK' /\ HasDocument'
  BY <1>16, ProceedEffect DEF CandidateFails, Fault, tables, history
<1>17. ASSUME NEW w \in Workers, CallDies(w) PROVE TypeOK' /\ HasDocument'
  BY <1>17, LeaveEffect DEF CallDies, Fault, tables, history
<1>18. ASSUME NEW w \in Workers, Drop(w) PROVE TypeOK' /\ HasDocument'
  BY <1>18, ProceedEffect DEF Drop, tables, history
<1>19. CASE UNCHANGED vars
  BY <1>19 DEF vars, tables, locals, history
<1>q. QED
  BY <1>1, <1>2, <1>3, <1>4, <1>5, <1>6, <1>7, <1>8, <1>9, <1>10, <1>11, <1>12, <1>13,
     <1>14, <1>15, <1>16, <1>17, <1>18, <1>19 DEF Next, Step

\* Every step keeps what calls rely on.
LEMMA CallsStep ==
  ASSUME TypeInv, Next \/ UNCHANGED vars PROVE CallsSound'
<1>. USE DEF TypeInv, TypeOK, CallsSound, NextUp, Goto, Assign
<1>1. ASSUME NEW f \in Feeds, NewDocument(f) PROVE CallsSound'
  BY <1>1 DEF NewDocument, tables, locals, history
<1>2. ASSUME NEW f \in Feeds, IntervalPasses(f) PROVE CallsSound'
  BY <1>2 DEF IntervalPasses, locals, history
<1>3. ASSUME NEW r \in Requests, Register(r[1], r[2]) PROVE CallsSound'
  BY <1>3 DEF Register, locals
<1>4. ASSUME NEW w \in Workers, Poll(w) PROVE CallsSound'
  BY <1>4 DEF Poll, tables, history
<1>5. ASSUME NEW w \in Workers, NEW e \in Direct, Submit(w, e) PROVE CallsSound'
  BY <1>5 DEF Submit, tables, history, Handling
<1>6. ASSUME NEW w \in Workers, Fetch(w) PROVE CallsSound'
  BY <1>6 DEF Fetch, tables, history
<1>7. ASSUME NEW w \in Workers, FetchRaises(w) PROVE CallsSound'
  BY <1>7, LeaveEffect DEF FetchRaises, tables, history
<1>8. ASSUME NEW w \in Workers, Save(w) PROVE CallsSound'
  BY <1>8, ProceedEffect DEF Save, history
<1>9. ASSUME NEW w \in Workers, Reject(w) PROVE CallsSound'
  BY <1>9, ProceedEffect DEF Reject, Record, history
<1>10. ASSUME NEW w \in Workers, CheckDuplicate(w) PROVE CallsSound'
  <2>1. PICK e \in todo[w] : NextUp(w, e) /\ Url[e] \in Urls
                              /\ Goto(w, IF Url[e] \in articles THEN "duplicate" ELSE "extract")
    BY <1>10 DEF CheckDuplicate
  <2>2. \A d \in todo[w] : NextUp(w, d) => d = e
    BY <2>1, FeedsAssumption DEF NextUp
  <2>q. QED
    BY <1>10, <2>1, <2>2 DEF CheckDuplicate, tables, locals, history
<1>11. ASSUME NEW w \in Workers, RecordDuplicate(w) PROVE CallsSound'
  BY <1>11, ProceedEffect DEF RecordDuplicate, Record, history
<1>12. ASSUME NEW w \in Workers, ExtractFails(w) PROVE CallsSound'
  BY <1>12, ProceedEffect DEF ExtractFails, Record, history
<1>13. ASSUME NEW w \in Workers, Insert(w) PROVE CallsSound'
  BY <1>13, ProceedEffect DEF Insert, Record, history
<1>14. ASSUME NEW w \in Workers, InsertRefused(w) PROVE CallsSound'
  <2>1. PICK e \in todo[w] : NextUp(w, e) /\ Url[e] \in articles
    BY <1>14 DEF InsertRefused
  <2>2. \A d \in todo[w] : NextUp(w, d) => d = e
    BY <2>1, FeedsAssumption DEF NextUp
  <2>q. QED
    BY <1>14, <2>1, <2>2 DEF InsertRefused, tables, locals, history
<1>15. ASSUME NEW w \in Workers, Reload(w) PROVE CallsSound'
  BY <1>15, ProceedEffect DEF Reload, Record, history
<1>16. ASSUME NEW w \in Workers, CandidateFails(w) PROVE CallsSound'
  BY <1>16, ProceedEffect DEF CandidateFails, Fault, tables, history, Handling
<1>17. ASSUME NEW w \in Workers, CallDies(w) PROVE CallsSound'
  BY <1>17, LeaveEffect DEF CallDies, Fault, tables, history
<1>18. ASSUME NEW w \in Workers, Drop(w) PROVE CallsSound'
  BY <1>18, ProceedEffect DEF Drop, tables, history
<1>19. CASE UNCHANGED vars
  BY <1>19 DEF vars, tables, locals, history
<1>q. QED
  BY <1>1, <1>2, <1>3, <1>4, <1>5, <1>6, <1>7, <1>8, <1>9, <1>10, <1>11, <1>12, <1>13,
     <1>14, <1>15, <1>16, <1>17, <1>18, <1>19 DEF Next, Step

\* TypeOK, what holds at each place of a call, and a current document for every
\* feed, are inductive.
LEMMA TypeInvariant == Spec => []TypeInv
<1>1. Init => TypeInv
  <2>. SUFFICES ASSUME Init PROVE TypeInv
    OBVIOUS
  <2>1. NoRow \in Row /\ NoListing \in Listing
    BY DEF NoRow, Row, NoListing, Listing
  <2>2. \A f \in Feeds : Len(Documents[f]) \in Nat /\ Len(Documents[f]) # 0
    BY FeedsAssumption
  <2>q. QED
    BY <2>1, <2>2 DEF Init, TypeInv, TypeOK, HasDocument, CallsSound, PC, Row
<1>2. TypeInv /\ [Next]_vars => TypeInv'
  BY TypeStep, CallsStep DEF TypeInv
<1>q. QED
  BY <1>1, <1>2, PTL DEF Spec

\* The state is well typed, for any instance.
THEOREM TypeCorrect == Spec => []TypeOK
BY TypeInvariant, PTL DEF TypeInv

\* The rows polls hold carry the wanted settings, like those in the table.
SettingsInv == SettingsKept /\ SettingsHeld

\* Every step keeps SettingsInv: only a registration changes what is wanted, and
\* it disturbs the feed if a poll holds its row.
LEMMA SettingsInvStep ==
  ASSUME TypeInv, SettingsInv, Next \/ UNCHANGED vars PROVE SettingsInv'
<1>. USE DEF TypeInv, TypeOK, SettingsInv, SettingsKept, SettingsHeld, PC, Goto, Assign
<1>1. ASSUME NEW f \in Feeds, NewDocument(f) PROVE SettingsInv'
  BY <1>1 DEF NewDocument, tables, locals, history
<1>2. ASSUME NEW f \in Feeds, IntervalPasses(f) PROVE SettingsInv'
  BY <1>2 DEF IntervalPasses, locals, history
<1>3. ASSUME NEW r \in Requests, Register(r[1], r[2]) PROVE SettingsInv'
  BY <1>3, FeedsAssumption DEF Register, Holding, locals
<1>4. ASSUME NEW w \in Workers, Poll(w) PROVE SettingsInv'
  BY <1>4 DEF Poll, tables, history
<1>5. ASSUME NEW w \in Workers, NEW e \in Direct, Submit(w, e) PROVE SettingsInv'
  BY <1>5 DEF Submit, tables, history
<1>6. ASSUME NEW w \in Workers, Fetch(w) PROVE SettingsInv'
  <2>1. PICK f \in due[w] \ Broken :
          /\ feed' = Assign(feed, w, f)
          /\ due' = Assign(due, w, due[w] \ {f})
          /\ listed' = Assign(listed, w, [listed[w] EXCEPT !.rows[f] = NoRow])
          /\ \E a \in Answer(f, listed[w].rows[f]) :
               row' = Assign(row, w, a.row) /\ todo' = Assign(todo, w, a.entries)
    BY <1>6 DEF Fetch
  <2>2. PICK a \in Answer(f, listed[w].rows[f]) :
          row' = Assign(row, w, a.row) /\ todo' = Assign(todo, w, a.entries)
    BY <2>1
  <2>3. f \in Feeds /\ listed[w] \in Listing
    OBVIOUS
  <2>4. a.row.enabled = listed[w].rows[f].enabled
    BY <2>2, <2>3 DEF Answer, Listing, Row
  <2>5. \A g \in Feeds \ {f} : listed'[w].rows[g] = listed[w].rows[g]
    BY <2>1, <2>3 DEF Listing
  <2>q. QED
    BY <1>6, <2>1, <2>2, <2>3, <2>4, <2>5 DEF Fetch, tables, history
<1>7. ASSUME NEW w \in Workers, FetchRaises(w) PROVE SettingsInv'
  BY <1>7, LeaveEffect DEF FetchRaises, tables, history
<1>8. ASSUME NEW w \in Workers, Save(w) PROVE SettingsInv'
  <2>1. Proceed(w, todo[w]) /\ todo[w] \in SUBSET Entries
    BY <1>8 DEF Save
  <2>2. feeds' = [feeds EXCEPT ![feed[w]] = row[w]] /\ UNCHANGED <<wanted, disturbed>>
    BY <1>8 DEF Save, history
  <2>3. pc[w] = "save"
    BY <1>8 DEF Save
  <2>q. QED
    BY <2>1, <2>2, <2>3, ProceedEffect
<1>9. ASSUME NEW w \in Workers, Reject(w) PROVE SettingsInv'
  <2>1. PICK e \in todo[w] : Proceed(w, todo[w] \ {e})
    BY <1>9 DEF Reject, Record
  <2>2. UNCHANGED <<feeds, wanted, disturbed>>
    BY <1>9 DEF Reject, history
  <2>q. QED
    BY <2>1, <2>2, ProceedEffect
<1>10. ASSUME NEW w \in Workers, CheckDuplicate(w) PROVE SettingsInv'
  BY <1>10 DEF CheckDuplicate, tables, locals, history
<1>11. ASSUME NEW w \in Workers, RecordDuplicate(w) PROVE SettingsInv'
  <2>1. PICK e \in todo[w] : Proceed(w, todo[w] \ {e})
    BY <1>11 DEF RecordDuplicate, Record
  <2>2. UNCHANGED <<feeds, wanted, disturbed>>
    BY <1>11 DEF RecordDuplicate, history
  <2>q. QED
    BY <2>1, <2>2, ProceedEffect
<1>12. ASSUME NEW w \in Workers, ExtractFails(w) PROVE SettingsInv'
  <2>1. PICK e \in todo[w] : Proceed(w, todo[w] \ {e})
    BY <1>12 DEF ExtractFails, Record
  <2>2. UNCHANGED <<feeds, wanted, disturbed>>
    BY <1>12 DEF ExtractFails, history
  <2>q. QED
    BY <2>1, <2>2, ProceedEffect
<1>13. ASSUME NEW w \in Workers, Insert(w) PROVE SettingsInv'
  <2>1. PICK e \in todo[w] : Proceed(w, todo[w] \ {e})
    BY <1>13 DEF Insert, Record
  <2>2. UNCHANGED <<feeds, wanted, disturbed>>
    BY <1>13 DEF Insert, history
  <2>q. QED
    BY <2>1, <2>2, ProceedEffect
<1>14. ASSUME NEW w \in Workers, InsertRefused(w) PROVE SettingsInv'
  BY <1>14 DEF InsertRefused, tables, locals, history
<1>15. ASSUME NEW w \in Workers, Reload(w) PROVE SettingsInv'
  <2>1. PICK e \in todo[w] : Proceed(w, todo[w] \ {e})
    BY <1>15 DEF Reload, Record
  <2>2. UNCHANGED <<feeds, wanted, disturbed>>
    BY <1>15 DEF Reload, history
  <2>q. QED
    BY <2>1, <2>2, ProceedEffect
<1>16. ASSUME NEW w \in Workers, CandidateFails(w) PROVE SettingsInv'
  <2>1. PICK e \in todo[w] : Proceed(w, todo[w] \ {e})
    BY <1>16 DEF CandidateFails
  <2>2. UNCHANGED <<feeds, wanted, disturbed>>
    BY <1>16 DEF CandidateFails, Fault, tables
  <2>q. QED
    BY <2>1, <2>2, ProceedEffect
<1>17. ASSUME NEW w \in Workers, CallDies(w) PROVE SettingsInv'
  BY <1>17, LeaveEffect DEF CallDies, Fault, tables, history
<1>18. ASSUME NEW w \in Workers, Drop(w) PROVE SettingsInv'
  <2>1. PICK e \in todo[w] : Proceed(w, todo[w] \ {e})
    BY <1>18 DEF Drop
  <2>2. UNCHANGED <<feeds, wanted, disturbed>>
    BY <1>18 DEF Drop, tables, history
  <2>q. QED
    BY <2>1, <2>2, ProceedEffect
<1>19. CASE UNCHANGED vars
  BY <1>19 DEF vars, tables, locals, history
<1>q. QED
  BY <1>1, <1>2, <1>3, <1>4, <1>5, <1>6, <1>7, <1>8, <1>9, <1>10, <1>11, <1>12, <1>13,
     <1>14, <1>15, <1>16, <1>17, <1>18, <1>19 DEF Next, Step

\* SettingsInv holds of every behaviour.
LEMMA SettingsInvariant == Spec => []SettingsInv
<1>1. Init => SettingsInv
  <2>. SUFFICES ASSUME Init PROVE SettingsInv
    OBVIOUS
  <2>1. SettingsKept
    BY DEF Init, SettingsKept
  <2>2. SettingsHeld
    BY DEF Init, SettingsHeld
  <2>q. QED
    BY <2>1, <2>2 DEF SettingsInv
<1>2. TypeInv /\ SettingsInv /\ [Next]_vars => SettingsInv'
  BY SettingsInvStep
<1>q. QED
  BY <1>1, <1>2, TypeInvariant, PTL DEF Spec

\* A feed is enabled as it was last registered unless a poll held its row at
\* that time, however many polls there are and whatever fails.
THEOREM SettingsKeptHolds == Spec => []SettingsKept
BY SettingsInvariant, PTL DEF SettingsInv

\* Given what calls rely on, every step keeps the attempts truthful.
LEMMA AttemptsInvStep ==
  ASSUME TypeInv, AttemptsTruthful, Next \/ UNCHANGED vars PROVE AttemptsTruthful'
<1>. USE DEF TypeInv, TypeOK, AttemptsTruthful, Captures, Attempt, Status, PC, Goto, Assign
<1>1. ASSUME NEW f \in Feeds, NewDocument(f) PROVE AttemptsTruthful'
  BY <1>1 DEF NewDocument, tables, locals, history
<1>2. ASSUME NEW f \in Feeds, IntervalPasses(f) PROVE AttemptsTruthful'
  BY <1>2 DEF IntervalPasses, locals, history
<1>3. ASSUME NEW r \in Requests, Register(r[1], r[2]) PROVE AttemptsTruthful'
  BY <1>3 DEF Register, locals
<1>4. ASSUME NEW w \in Workers, Poll(w) PROVE AttemptsTruthful'
  BY <1>4 DEF Poll, tables, history
<1>5. ASSUME NEW w \in Workers, NEW e \in Direct, Submit(w, e) PROVE AttemptsTruthful'
  BY <1>5 DEF Submit, tables, history
<1>6. ASSUME NEW w \in Workers, Fetch(w) PROVE AttemptsTruthful'
  BY <1>6 DEF Fetch, tables, history
<1>7. ASSUME NEW w \in Workers, FetchRaises(w) PROVE AttemptsTruthful'
  BY <1>7 DEF FetchRaises, tables, history
<1>8. ASSUME NEW w \in Workers, Save(w) PROVE AttemptsTruthful'
  BY <1>8 DEF Save, history
<1>9. ASSUME NEW w \in Workers, Reject(w) PROVE AttemptsTruthful'
  <2>1. PICK e \in todo[w] : Record(w, e, "failed")
    BY <1>9 DEF Reject
  <2>q. QED
    BY <1>9, <2>1 DEF Reject, Record, history
<1>10. ASSUME NEW w \in Workers, CheckDuplicate(w) PROVE AttemptsTruthful'
  BY <1>10 DEF CheckDuplicate, tables, locals, history
<1>11. ASSUME NEW w \in Workers, RecordDuplicate(w) PROVE AttemptsTruthful'
  <2>1. PICK e \in todo[w] : NextUp(w, e) /\ Record(w, e, "duplicate")
    BY <1>11 DEF RecordDuplicate
  <2>2. Url[e] \in articles /\ e \in Entries
    BY <1>11, <2>1 DEF RecordDuplicate, CallsSound
  <2>q. QED
    BY <1>11, <2>1, <2>2 DEF RecordDuplicate, Record, history
<1>12. ASSUME NEW w \in Workers, ExtractFails(w) PROVE AttemptsTruthful'
  <2>1. PICK e \in todo[w] : Record(w, e, "failed")
    BY <1>12 DEF ExtractFails
  <2>q. QED
    BY <1>12, <2>1 DEF ExtractFails, Record, history
<1>13. ASSUME NEW w \in Workers, Insert(w) PROVE AttemptsTruthful'
  <2>1. PICK e \in todo[w] :
          /\ NextUp(w, e)
          /\ Url[e] \notin articles
          /\ articles' = articles \cup {Url[e]}
          /\ Record(w, e, "succeeded")
    BY <1>13 DEF Insert
  <2>2. Url[e] \in Urls /\ e \in Entries
    BY <1>13, <2>1 DEF Insert, CallsSound
  <2>3. \A a \in attempts : a.status = "succeeded" => Url[a.entry] /= Url[e]
    BY <2>1, <2>2
  <2>4. attempts' = attempts \cup {[entry |-> e, status |-> "succeeded"]}
    BY <2>1 DEF Record
  <2>5. \A u \in Urls : u \in articles' <=> Captures(u)' /= {}
    <3>. TAKE u \in Urls
    <3>1. CASE u = Url[e]
      <4>. DEFINE new == [entry |-> e, status |-> "succeeded"]
      <4>1. new \in attempts' /\ new.status = "succeeded" /\ Url[new.entry] = u
        BY <2>4, <3>1
      <4>2. new \in Captures(u)'
        BY <4>1
      <4>q. QED
        BY <2>1, <3>1, <4>2
    <3>2. CASE u /= Url[e]
      <4>1. Captures(u)' = Captures(u)
        BY <2>4, <3>2
      <4>q. QED
        BY <2>1, <3>2, <4>1
    <3>q. QED
      BY <3>1, <3>2
  <2>6. \A a, b \in attempts' :
          a.status = "succeeded" /\ b.status = "succeeded" /\ Url[a.entry] = Url[b.entry] => a = b
    BY <2>3, <2>4
  <2>7. \A a \in attempts' : /\ a.status = "duplicate" => Url[a.entry] \in articles'
                             /\ a.status /= "race_reload_failed"
    BY <2>1, <2>4
  <2>q. QED
    BY <2>5, <2>6, <2>7
<1>14. ASSUME NEW w \in Workers, InsertRefused(w) PROVE AttemptsTruthful'
  BY <1>14 DEF InsertRefused, tables, locals, history
<1>15. ASSUME NEW w \in Workers, Reload(w) PROVE AttemptsTruthful'
  <2>1. PICK e \in todo[w] :
          NextUp(w, e) /\ Record(w, e, IF Url[e] \in articles THEN "duplicate" ELSE "race_reload_failed")
    BY <1>15 DEF Reload
  <2>2. Url[e] \in articles /\ e \in Entries
    BY <1>15, <2>1 DEF Reload, CallsSound
  <2>q. QED
    BY <1>15, <2>1, <2>2 DEF Reload, Record, history
<1>16. ASSUME NEW w \in Workers, CandidateFails(w) PROVE AttemptsTruthful'
  BY <1>16 DEF CandidateFails, Fault, tables, history
<1>17. ASSUME NEW w \in Workers, CallDies(w) PROVE AttemptsTruthful'
  BY <1>17 DEF CallDies, Fault, tables, history
<1>18. ASSUME NEW w \in Workers, Drop(w) PROVE AttemptsTruthful'
  BY <1>18 DEF Drop, tables, history
<1>19. CASE UNCHANGED vars
  BY <1>19 DEF vars, tables, locals, history
<1>q. QED
  BY <1>1, <1>2, <1>3, <1>4, <1>5, <1>6, <1>7, <1>8, <1>9, <1>10, <1>11, <1>12, <1>13,
     <1>14, <1>15, <1>16, <1>17, <1>18, <1>19 DEF Next, Step

\* AttemptsTruthful holds of every behaviour.
LEMMA AttemptsInvariant == Spec => []AttemptsTruthful
<1>1. Init => AttemptsTruthful
  BY DEF Init, AttemptsTruthful, Captures
<1>2. TypeInv /\ AttemptsTruthful /\ [Next]_vars => AttemptsTruthful'
  BY AttemptsInvStep
<1>q. QED
  BY <1>1, <1>2, TypeInvariant, PTL DEF Spec

\* An article is captured once and every attempt tells the truth about it,
\* however many calls race for a URL.
THEOREM AttemptsTruthfulHolds == Spec => []AttemptsTruthful
BY AttemptsInvariant, PTL

\* No attempt is ever removed.
LEMMA AttemptsGrow ==
  ASSUME Next \/ UNCHANGED vars PROVE attempts \subseteq attempts'
BY DEF Next, Step, NewDocument, IntervalPasses, Register, Poll, Submit, Fetch, FetchRaises,
   Save,
       Reject, CheckDuplicate, Drop, RecordDuplicate, ExtractFails, Insert, InsertRefused, Reload,
       CandidateFails, CallDies, Fault, Record, vars, tables

\* Faults are only ever counted up.
LEMMA FaultsGrow ==
  ASSUME TypeInv, Next \/ UNCHANGED vars, faults' = 0 PROVE faults = 0
<1>1. faults \in Nat
  BY DEF TypeInv, TypeOK
<1>2. faults' = faults \/ faults' = faults + 1
  BY DEF Next, Step, NewDocument, IntervalPasses, Register, Poll, Submit, Fetch,
     FetchRaises, Save,
         Reject, CheckDuplicate, Drop, RecordDuplicate, ExtractFails, Insert, InsertRefused, Reload,
         CandidateFails, CallDies, Fault, vars, history
<1>q. QED
  BY <1>1, <1>2

\* A traceable entry that a call is at, past the save, is accounted for after
\* any step.
LEMMA HandledStays ==
  ASSUME TypeInv, Next \/ UNCHANGED vars, faults' = 0,
         NEW f \in Feeds, NEW e, e \notin Unhandled \cap Relevant, NEW v \in Workers,
         feed[v] = f, pc[v] /= "save", e \in todo[v]
  PROVE  \/ \E a \in attempts' : a.entry = e
         \/ feed'[v] = f /\ pc'[v] /= "save" /\ e \in todo'[v]
<1>. DEFINE Goal == \/ \E a \in attempts' : a.entry = e
                    \/ feed'[v] = f /\ pc'[v] /= "save" /\ e \in todo'[v]
<1>. SUFFICES Goal
  OBVIOUS
<1>0. feed[v] = f /\ pc[v] \notin {"idle", "fetch", "save"} /\ e \in todo[v] /\ faults' = 0
  BY FeedsAssumption DEF TypeInv, CallsSound
<1>. USE DEF TypeInv, TypeOK, Goto, Assign
<1>1. ASSUME NEW g \in Feeds, NewDocument(g) PROVE Goal
  BY <1>1, <1>0 DEF NewDocument, tables, locals
<1>2. ASSUME NEW g \in Feeds, IntervalPasses(g) PROVE Goal
  BY <1>2, <1>0 DEF IntervalPasses, locals
<1>3. ASSUME NEW r \in Requests, Register(r[1], r[2]) PROVE Goal
  BY <1>3, <1>0 DEF Register, locals
<1>4. ASSUME NEW w \in Workers, Poll(w) PROVE Goal
  BY <1>4, <1>0 DEF Poll, tables
<1>5. ASSUME NEW w \in Workers, NEW d \in Direct, Submit(w, d) PROVE Goal
  BY <1>5, <1>0 DEF Submit, tables
<1>6. ASSUME NEW w \in Workers, Fetch(w) PROVE Goal
  <2>1. pc[w] = "fetch" /\ pc'[v] = pc[v] /\ feed'[v] = feed[v] /\ todo'[v] = todo[v]
    BY <1>6, <1>0 DEF Fetch
  <2>q. QED
    BY <1>0, <2>1
<1>7. ASSUME NEW w \in Workers, FetchRaises(w) PROVE Goal
  <2>1. Leave(w) /\ v /= w
    BY <1>7, <1>0 DEF FetchRaises
  <2>q. QED
    BY <1>0, <2>1, LeaveEffect
<1>8. ASSUME NEW w \in Workers, Save(w) PROVE Goal
  <2>1. Proceed(w, todo[w]) /\ todo[w] \in SUBSET Entries /\ pc[w] = "save"
    BY <1>8 DEF Save
  <2>2. v /= w
    BY <1>0, <2>1
  <2>q. QED
    BY <1>0, <2>1, <2>2, ProceedEffect
<1>9. ASSUME NEW w \in Workers, Reject(w) PROVE Goal
  <2>1. PICK d \in todo[w] : Proceed(w, todo[w] \ {d})
                              /\ \E s \in Status : attempts' = attempts \cup {[entry |-> d, status |-> s]}
    BY <1>9 DEF Reject, Record, Status
  <2>2. CASE d = e
    <3>1. PICK s \in Status : attempts' = attempts \cup {[entry |-> d, status |-> s]}
      BY <2>1
    <3>2. [entry |-> d, status |-> s] \in attempts' /\ [entry |-> d, status |-> s].entry = e
      BY <2>2, <3>1
    <3>q. QED
      BY <3>2
  <2>3. CASE d /= e /\ v = w
    <3>1. todo[w] \ {d} \in SUBSET Entries /\ e \in todo[w] \ {d}
      BY <1>0, <2>3
    <3>q. QED
      BY <1>0, <2>1, <2>3, <3>1, ProceedEffect
  <2>4. CASE v /= w
    <3>1. todo[w] \ {d} \in SUBSET Entries
      OBVIOUS
    <3>q. QED
      BY <1>0, <2>1, <2>4, <3>1, ProceedEffect
  <2>q. QED
    BY <2>2, <2>3, <2>4
<1>10. ASSUME NEW w \in Workers, CheckDuplicate(w) PROVE Goal
  BY <1>10, <1>0 DEF CheckDuplicate, tables, locals
<1>11. ASSUME NEW w \in Workers, RecordDuplicate(w) PROVE Goal
  <2>1. PICK d \in todo[w] : Proceed(w, todo[w] \ {d})
                              /\ \E s \in Status : attempts' = attempts \cup {[entry |-> d, status |-> s]}
    BY <1>11 DEF RecordDuplicate, Record, Status
  <2>2. CASE d = e
    <3>1. PICK s \in Status : attempts' = attempts \cup {[entry |-> d, status |-> s]}
      BY <2>1
    <3>2. [entry |-> d, status |-> s] \in attempts' /\ [entry |-> d, status |-> s].entry = e
      BY <2>2, <3>1
    <3>q. QED
      BY <3>2
  <2>3. CASE d /= e /\ v = w
    <3>1. todo[w] \ {d} \in SUBSET Entries /\ e \in todo[w] \ {d}
      BY <1>0, <2>3
    <3>q. QED
      BY <1>0, <2>1, <2>3, <3>1, ProceedEffect
  <2>4. CASE v /= w
    <3>1. todo[w] \ {d} \in SUBSET Entries
      OBVIOUS
    <3>q. QED
      BY <1>0, <2>1, <2>4, <3>1, ProceedEffect
  <2>q. QED
    BY <2>2, <2>3, <2>4
<1>12. ASSUME NEW w \in Workers, ExtractFails(w) PROVE Goal
  <2>1. PICK d \in todo[w] : Proceed(w, todo[w] \ {d})
                              /\ \E s \in Status : attempts' = attempts \cup {[entry |-> d, status |-> s]}
    BY <1>12 DEF ExtractFails, Record, Status
  <2>2. CASE d = e
    <3>1. PICK s \in Status : attempts' = attempts \cup {[entry |-> d, status |-> s]}
      BY <2>1
    <3>2. [entry |-> d, status |-> s] \in attempts' /\ [entry |-> d, status |-> s].entry = e
      BY <2>2, <3>1
    <3>q. QED
      BY <3>2
  <2>3. CASE d /= e /\ v = w
    <3>1. todo[w] \ {d} \in SUBSET Entries /\ e \in todo[w] \ {d}
      BY <1>0, <2>3
    <3>q. QED
      BY <1>0, <2>1, <2>3, <3>1, ProceedEffect
  <2>4. CASE v /= w
    <3>1. todo[w] \ {d} \in SUBSET Entries
      OBVIOUS
    <3>q. QED
      BY <1>0, <2>1, <2>4, <3>1, ProceedEffect
  <2>q. QED
    BY <2>2, <2>3, <2>4
<1>13. ASSUME NEW w \in Workers, Insert(w) PROVE Goal
  <2>1. PICK d \in todo[w] : Proceed(w, todo[w] \ {d})
                              /\ \E s \in Status : attempts' = attempts \cup {[entry |-> d, status |-> s]}
    BY <1>13 DEF Insert, Record, Status
  <2>2. CASE d = e
    <3>1. PICK s \in Status : attempts' = attempts \cup {[entry |-> d, status |-> s]}
      BY <2>1
    <3>2. [entry |-> d, status |-> s] \in attempts' /\ [entry |-> d, status |-> s].entry = e
      BY <2>2, <3>1
    <3>q. QED
      BY <3>2
  <2>3. CASE d /= e /\ v = w
    <3>1. todo[w] \ {d} \in SUBSET Entries /\ e \in todo[w] \ {d}
      BY <1>0, <2>3
    <3>q. QED
      BY <1>0, <2>1, <2>3, <3>1, ProceedEffect
  <2>4. CASE v /= w
    <3>1. todo[w] \ {d} \in SUBSET Entries
      OBVIOUS
    <3>q. QED
      BY <1>0, <2>1, <2>4, <3>1, ProceedEffect
  <2>q. QED
    BY <2>2, <2>3, <2>4
<1>14. ASSUME NEW w \in Workers, InsertRefused(w) PROVE Goal
  BY <1>14, <1>0 DEF InsertRefused, tables, locals
<1>15. ASSUME NEW w \in Workers, Reload(w) PROVE Goal
  <2>1. PICK d \in todo[w] : Proceed(w, todo[w] \ {d})
                              /\ \E s \in Status : attempts' = attempts \cup {[entry |-> d, status |-> s]}
    BY <1>15 DEF Reload, Record, Status
  <2>2. CASE d = e
    <3>1. PICK s \in Status : attempts' = attempts \cup {[entry |-> d, status |-> s]}
      BY <2>1
    <3>2. [entry |-> d, status |-> s] \in attempts' /\ [entry |-> d, status |-> s].entry = e
      BY <2>2, <3>1
    <3>q. QED
      BY <3>2
  <2>3. CASE d /= e /\ v = w
    <3>1. todo[w] \ {d} \in SUBSET Entries /\ e \in todo[w] \ {d}
      BY <1>0, <2>3
    <3>q. QED
      BY <1>0, <2>1, <2>3, <3>1, ProceedEffect
  <2>4. CASE v /= w
    <3>1. todo[w] \ {d} \in SUBSET Entries
      OBVIOUS
    <3>q. QED
      BY <1>0, <2>1, <2>4, <3>1, ProceedEffect
  <2>q. QED
    BY <2>2, <2>3, <2>4
<1>16. ASSUME NEW w \in Workers, CandidateFails(w) PROVE Goal
  BY <1>16 DEF CandidateFails, Fault
<1>17. ASSUME NEW w \in Workers, CallDies(w) PROVE Goal
  BY <1>17 DEF CallDies, Fault
<1>18. ASSUME NEW w \in Workers, Drop(w) PROVE Goal
  <2>1. PICK d \in todo[w] \cap Unhandled : ~OffTopic(w, d) /\ Proceed(w, todo[w] \ {d})
    BY <1>18 DEF Drop
  <2>2. todo[w] \ {d} \in SUBSET Entries
    OBVIOUS
  <2>3. CASE v = w
    <3>1. d # e
      BY <1>0, <2>1, <2>3, FeedsAssumption DEF OffTopic
    <3>2. e \in todo[w] \ {d}
      BY <1>0, <2>3, <3>1
    <3>3. todo'[w] = todo[w] \ {d} /\ pc'[w] = "candidate" /\ feed'[w] = feed[w]
      BY <2>1, <2>2, <3>2, ProceedEffect
    <3>q. QED
      BY <1>0, <2>3, <3>2, <3>3
  <2>4. CASE v /= w
    <3>1. pc'[v] = pc[v] /\ feed'[v] = feed[v] /\ todo'[v] = todo[v]
      BY <2>1, <2>2, <2>4, ProceedEffect
    <3>q. QED
      BY <1>0, <3>1
  <2>q. QED
    BY <2>3, <2>4
<1>19. CASE UNCHANGED vars
  BY <1>19, <1>0 DEF vars, tables, locals
<1>q. QED
  BY <1>1, <1>2, <1>3, <1>4, <1>5, <1>6, <1>7, <1>8, <1>9, <1>10, <1>11, <1>12, <1>13,
     <1>14, <1>15, <1>16, <1>17, <1>18, <1>19 DEF Next, Step

\* Once a traceable entry is accounted for it stays so, as long as nothing fails.
LEMMA AccountedStays ==
  ASSUME TypeInv, Next \/ UNCHANGED vars, faults' = 0,
         NEW f \in Feeds, NEW e, e \notin Unhandled \cap Relevant, Accounted(f, e)
  PROVE  Accounted(f, e)'
BY AttemptsGrow, HandledStays DEF Accounted

\* CandidatesAccounted, with what polls hold, is inductive.
AccountedInv == CandidatesAccounted /\ HeldAccounted

\* A step that writes no row of a feed, and starts no fetch, does no harm.
Quiet ==
  /\ UNCHANGED feeds
  /\ \A w \in Workers :
       /\ \A f \in due'[w] : f \in due[w] /\ listed'[w] = listed[w]
       /\ pc'[w] = "save" => /\ pc[w] = "save" /\ feed'[w] = feed[w]
                             /\ row'[w] = row[w] /\ todo'[w] = todo[w]

\* A quiet step keeps AccountedInv, since what is accounted for stays so.
LEMMA QuietStep ==
  ASSUME TypeInv, AccountedInv, Next \/ UNCHANGED vars, faults' = 0 => faults = 0, Quiet
  PROVE  AccountedInv'
<1>1. CandidatesAccounted'
  BY AccountedStays DEF Traceable, AccountedInv, CandidatesAccounted, Quiet
<1>2. HeldAccounted'
  BY AccountedStays DEF Traceable, AccountedInv, HeldAccounted, Quiet
<1>q. QED
  BY <1>1, <1>2 DEF AccountedInv

\* Every step keeps AccountedInv: a poll writes the validator it was given, and
\* the document that came with it is in its hands by then.
LEMMA AccountedInvStep ==
  ASSUME TypeInv, AccountedInv, Next \/ UNCHANGED vars PROVE AccountedInv'
<1>. USE DEF TypeInv, TypeOK, Goto, Assign
<1>1. ASSUME NEW f \in Feeds, NewDocument(f) PROVE AccountedInv'
  <2>1. Quiet
    BY <1>1 DEF NewDocument, Quiet, tables, locals
  <2>q. QED
    BY <2>1, QuietStep, FaultsGrow
<1>2. ASSUME NEW f \in Feeds, IntervalPasses(f) PROVE AccountedInv'
  <2>1. Quiet
    BY <1>2 DEF IntervalPasses, Quiet, locals
  <2>q. QED
    BY <2>1, QuietStep, FaultsGrow
<1>3. ASSUME NEW r \in Requests, Register(r[1], r[2]) PROVE AccountedInv'
  <2>1. feeds' = [feeds EXCEPT ![r[1]] = [enabled |-> r[2], etag |-> 0]] /\ UNCHANGED <<pc, locals>>
    BY <1>3 DEF Register
  <2>2. CandidatesAccounted'
    BY <2>1, AccountedStays, FaultsGrow DEF Traceable, AccountedInv, CandidatesAccounted
  <2>3. HeldAccounted'
    BY <2>1, AccountedStays, FaultsGrow DEF Traceable, AccountedInv, HeldAccounted, locals
  <2>q. QED
    BY <2>2, <2>3 DEF AccountedInv
<1>4. ASSUME NEW w \in Workers, Poll(w) PROVE AccountedInv'
  <2>1. UNCHANGED <<feeds, feed, row, todo>> /\ \A v \in Workers : pc'[v] = "save" => pc[v] = "save"
    BY <1>4 DEF Poll, tables
  <2>2. /\ \A f \in Feeds : f \in due'[w] => listed'[w].rows[f] = feeds[f]
        /\ \A v \in Workers \ {w} : due'[v] = due[v] /\ listed'[v] = listed[v]
    BY <1>4 DEF Poll, Oldest, DueFeeds
  <2>3. CandidatesAccounted'
    BY <2>1, AccountedStays, FaultsGrow DEF Traceable, AccountedInv, CandidatesAccounted
  <2>4. HeldAccounted'
    BY <2>1, <2>2, AccountedStays, FaultsGrow DEF Traceable, AccountedInv, CandidatesAccounted,
       HeldAccounted
  <2>q. QED
    BY <2>3, <2>4 DEF AccountedInv
<1>5. ASSUME NEW w \in Workers, NEW e \in Direct, Submit(w, e) PROVE AccountedInv'
  <2>1. Quiet
    BY <1>5 DEF Submit, Quiet, tables
  <2>q. QED
    BY <2>1, QuietStep, FaultsGrow
<1>6. ASSUME NEW w \in Workers, Fetch(w) PROVE AccountedInv'
  <2>1. PICK f \in due[w] \ Broken :
          /\ feed' = Assign(feed, w, f)
          /\ due' = Assign(due, w, due[w] \ {f})
          /\ listed' = Assign(listed, w, [listed[w] EXCEPT !.rows[f] = NoRow])
          /\ \E a \in Answer(f, listed[w].rows[f]) :
               row' = Assign(row, w, a.row) /\ todo' = Assign(todo, w, a.entries)
    BY <1>6 DEF Fetch
  <2>2. PICK a \in Answer(f, listed[w].rows[f]) :
          row' = Assign(row, w, a.row) /\ todo' = Assign(todo, w, a.entries)
    BY <2>1
  <2>3. f \in Feeds /\ listed[w] \in Listing
    OBVIOUS
  <2>4. UNCHANGED feeds /\ \A v \in Workers \ {w} : pc'[v] = pc[v]
    BY <1>6 DEF Fetch, tables
  <2>5. CandidatesAccounted'
    BY <2>4, AccountedStays, FaultsGrow DEF Traceable, AccountedInv, CandidatesAccounted
  <2>6. /\ \A g \in Feeds : g \in due'[w] => g \in due[w] /\ listed'[w].rows[g] = listed[w].rows[g]
        /\ \A v \in Workers \ {w} :
             /\ due'[v] = due[v] /\ listed'[v] = listed[v] /\ feed'[v] = feed[v]
             /\ row'[v] = row[v] /\ todo'[v] = todo[v]
    BY <2>1, <2>2, <2>3 DEF Listing
  <2>7. feed'[w] = f /\ row'[w] = a.row /\ todo'[w] = a.entries
    BY <2>1, <2>2
  <2>8. a.row.etag = listed[w].rows[f].etag \/ a.entries = Documents[f][a.row.etag]
    <3>1. listed[w].rows[f] \in Row
      BY <2>3 DEF Listing
    <3>q. QED
      BY <2>2, <3>1 DEF Answer, Current, Row
  <2>9. ASSUME faults' = 0, NEW v \in Workers, NEW g \in Feeds,
               g \in due'[v], listed'[v].rows[g].etag /= 0,
               NEW e \in Traceable(g, listed'[v].rows[g].etag)
        PROVE  Accounted(g, e)'
    BY <2>6, <2>9, AccountedStays, FaultsGrow DEF Traceable, AccountedInv, HeldAccounted
  <2>10. ASSUME faults' = 0, NEW v \in Workers, NEW g \in Feeds,
                pc'[v] = "save", feed'[v] = g, row'[v].etag /= 0,
                NEW e \in Traceable(g, row'[v].etag)
         PROVE  Accounted(g, e)' \/ e \in todo'[v]
    <3>1. CASE v = w
      BY <2>1, <2>7, <2>8, <2>10, <3>1, AccountedStays, FaultsGrow DEF Traceable, AccountedInv,
         HeldAccounted
    <3>2. CASE v /= w
      BY <2>4, <2>6, <2>10, <3>2, AccountedStays, FaultsGrow DEF Traceable, AccountedInv, HeldAccounted
    <3>q. QED
      BY <3>1, <3>2
  <2>11. HeldAccounted'
    BY <2>9, <2>10 DEF HeldAccounted
  <2>q. QED
    BY <2>5, <2>11 DEF AccountedInv
<1>7. ASSUME NEW w \in Workers, FetchRaises(w) PROVE AccountedInv'
  <2>1. Quiet
    BY <1>7, LeaveEffect DEF FetchRaises, Quiet, tables
  <2>q. QED
    BY <2>1, QuietStep, FaultsGrow
<1>8. ASSUME NEW w \in Workers, Save(w) PROVE AccountedInv'
  <2>1. Proceed(w, todo[w]) /\ todo[w] \in SUBSET Entries /\ pc[w] = "save" /\ feed[w] \in Feeds
    BY <1>8 DEF Save, CallsSound
  <2>2. feeds' = [feeds EXCEPT ![feed[w]] = row[w]] /\ UNCHANGED faults
    BY <1>8 DEF Save, history
  <2>3. ASSUME NEW f \in Feeds, f = feed[w], NEW e \in todo[w] PROVE Accounted(f, e)'
    BY <2>1, <2>3, ProceedEffect DEF Accounted
  <2>4. CandidatesAccounted'
    <3>. SUFFICES ASSUME faults' = 0, NEW f \in Feeds, feeds'[f].etag /= 0,
                         NEW e \in Traceable(f, feeds'[f].etag)
                  PROVE  Accounted(f, e)'
      BY DEF CandidatesAccounted
    <3>1. faults = 0
      BY <2>2
    <3>2. CASE f = feed[w]
      <4>1. feeds'[f] = row[w]
        BY <2>2, <3>2 DEF TypeInv, TypeOK
      <4>2. Accounted(f, e) \/ e \in todo[w]
        BY <2>1, <3>1, <3>2, <4>1 DEF AccountedInv, HeldAccounted
      <4>q. QED
        BY <2>3, <3>2, <4>2, AccountedStays DEF Traceable
    <3>3. CASE f /= feed[w]
      <4>1. feeds'[f] = feeds[f]
        BY <2>2, <3>3 DEF TypeInv, TypeOK
      <4>2. Accounted(f, e)
        BY <3>1, <4>1 DEF AccountedInv, CandidatesAccounted
      <4>q. QED
        BY <4>2, AccountedStays DEF Traceable
    <3>q. QED
      BY <3>2, <3>3
  <2>5. HeldAccounted'
    <3>1. \A v \in Workers :
            /\ \A f \in due'[v] : f \in due[v] /\ listed'[v] = listed[v]
            /\ pc'[v] = "save" => /\ pc[v] = "save" /\ feed'[v] = feed[v]
                                  /\ row'[v] = row[v] /\ todo'[v] = todo[v]
      BY <2>1, ProceedEffect
    <3>q. QED
      BY <2>2, <3>1, AccountedStays DEF Traceable, AccountedInv, HeldAccounted
  <2>q. QED
    BY <2>4, <2>5 DEF AccountedInv
<1>9. ASSUME NEW w \in Workers, Reject(w) PROVE AccountedInv'
  <2>1. PICK d \in todo[w] : Proceed(w, todo[w] \ {d})
    BY <1>9 DEF Reject, Record
  <2>2. UNCHANGED feeds
    BY <1>9 DEF Reject
  <2>3. Quiet
    BY <2>1, <2>2, ProceedEffect DEF Quiet
  <2>q. QED
    BY <2>3, QuietStep, FaultsGrow
<1>10. ASSUME NEW w \in Workers, CheckDuplicate(w) PROVE AccountedInv'
  <2>1. Quiet
    BY <1>10 DEF CheckDuplicate, Quiet, tables, locals
  <2>q. QED
    BY <2>1, QuietStep, FaultsGrow
<1>11. ASSUME NEW w \in Workers, RecordDuplicate(w) PROVE AccountedInv'
  <2>1. PICK d \in todo[w] : Proceed(w, todo[w] \ {d})
    BY <1>11 DEF RecordDuplicate, Record
  <2>2. UNCHANGED feeds
    BY <1>11 DEF RecordDuplicate
  <2>3. Quiet
    BY <2>1, <2>2, ProceedEffect DEF Quiet
  <2>q. QED
    BY <2>3, QuietStep, FaultsGrow
<1>12. ASSUME NEW w \in Workers, ExtractFails(w) PROVE AccountedInv'
  <2>1. PICK d \in todo[w] : Proceed(w, todo[w] \ {d})
    BY <1>12 DEF ExtractFails, Record
  <2>2. UNCHANGED feeds
    BY <1>12 DEF ExtractFails
  <2>3. Quiet
    BY <2>1, <2>2, ProceedEffect DEF Quiet
  <2>q. QED
    BY <2>3, QuietStep, FaultsGrow
<1>13. ASSUME NEW w \in Workers, Insert(w) PROVE AccountedInv'
  <2>1. PICK d \in todo[w] : Proceed(w, todo[w] \ {d})
    BY <1>13 DEF Insert, Record
  <2>2. UNCHANGED feeds
    BY <1>13 DEF Insert
  <2>3. Quiet
    BY <2>1, <2>2, ProceedEffect DEF Quiet
  <2>q. QED
    BY <2>3, QuietStep, FaultsGrow
<1>14. ASSUME NEW w \in Workers, InsertRefused(w) PROVE AccountedInv'
  <2>1. Quiet
    BY <1>14 DEF InsertRefused, Quiet, tables, locals
  <2>q. QED
    BY <2>1, QuietStep, FaultsGrow
<1>15. ASSUME NEW w \in Workers, Reload(w) PROVE AccountedInv'
  <2>1. PICK d \in todo[w] : Proceed(w, todo[w] \ {d})
    BY <1>15 DEF Reload, Record
  <2>2. UNCHANGED feeds
    BY <1>15 DEF Reload
  <2>3. Quiet
    BY <2>1, <2>2, ProceedEffect DEF Quiet
  <2>q. QED
    BY <2>3, QuietStep, FaultsGrow
<1>16. ASSUME NEW w \in Workers, CandidateFails(w) PROVE AccountedInv'
  <2>1. faults' /= 0
    BY <1>16 DEF CandidateFails, Fault
  <2>q. QED
    BY <2>1 DEF AccountedInv, CandidatesAccounted, HeldAccounted
<1>17. ASSUME NEW w \in Workers, CallDies(w) PROVE AccountedInv'
  <2>1. faults' /= 0
    BY <1>17 DEF CallDies, Fault
  <2>q. QED
    BY <2>1 DEF AccountedInv, CandidatesAccounted, HeldAccounted
<1>18. ASSUME NEW w \in Workers, Drop(w) PROVE AccountedInv'
  <2>1. PICK d \in todo[w] : Proceed(w, todo[w] \ {d})
    BY <1>18 DEF Drop
  <2>2. UNCHANGED feeds
    BY <1>18 DEF Drop, tables
  <2>3. Quiet
    BY <2>1, <2>2, ProceedEffect DEF Quiet
  <2>q. QED
    BY <2>3, QuietStep, FaultsGrow
<1>19. CASE UNCHANGED vars
  BY <1>19, QuietStep, FaultsGrow DEF Quiet, vars, tables, locals, history
<1>q. QED
  BY <1>1, <1>2, <1>3, <1>4, <1>5, <1>6, <1>7, <1>8, <1>9, <1>10, <1>11, <1>12, <1>13,
     <1>14, <1>15, <1>16, <1>17, <1>18, <1>19 DEF Next, Step

\* AccountedInv holds of every behaviour.
LEMMA AccountedInvariant == Spec => []AccountedInv
<1>1. Init => AccountedInv
  <2>. SUFFICES ASSUME Init PROVE AccountedInv
    OBVIOUS
  <2>1. CandidatesAccounted
    BY DEF Init, CandidatesAccounted
  <2>2. HeldAccounted
    BY DEF Init, HeldAccounted
  <2>q. QED
    BY <2>1, <2>2 DEF AccountedInv
<1>2. TypeInv /\ AccountedInv /\ [Next]_vars => AccountedInv'
  BY AccountedInvStep
<1>q. QED
  BY <1>1, <1>2, TypeInvariant, PTL DEF Spec

\* Without faults no candidate is lost to a validator, however many polls and
\* registrations interleave.
THEOREM CandidatesAccountedHolds == Spec => []CandidatesAccounted
BY AccountedInvariant, PTL DEF AccountedInv

-----------------------------------------------------------------------------
(***************************************************************************)
(* No call waits for another or goes on for ever: what DueFeedsPolled needs *)
(* besides fairness.                                                       *)
(***************************************************************************)
\* R orders S strictly and totally.
Orders(R, S) ==
  /\ \A f \in S : <<f, f>> \notin R
  /\ \A f, g \in S : f # g => <<f, g>> \in R \/ <<g, f>> \in R
  /\ \A f, g, h \in S : <<f, g>> \in R /\ <<g, h>> \in R => <<f, h>> \in R

\* Last_polled_at orders the feeds, and the list a poll read stays in order.
LoopsSound ==
  /\ Orders(before, Feeds)
  /\ \A w \in Workers :
       /\ Orders(listed[w].order, due[w])
       /\ pc[w] = "fetch" => due[w] # {}
       /\ pc[w] \in Handling => todo[w] # {}

\* An order on feeds has a first one among any of them.
LEMMA EarliestExists ==
  ASSUME NEW R, NEW S, S \subseteq Feeds, S # {}, Orders(R, S)
  PROVE  \E f \in S : \A g \in S : <<g, f>> \notin R
<1>. DEFINE above == [f \in S |-> {g \in S : <<g, f>> \in R}]
<1>1. IsFiniteSet(S)
  BY FeedsAssumption, FS_Subset
<1>2. /\ above \in [S -> SUBSET S]
      /\ \A f \in S : f \notin above[f]
      /\ \A f \in S : \A g \in above[f] : above[g] \subseteq above[f]
  BY DEF Orders
<1>3. \E f \in S : above[f] = {}
  <2>. HIDE DEF above
  <2>q. QED
    BY <1>1, <1>2, TopExists
<1>q. QED
  BY <1>3

\* The cut to max_feeds_per_run leaves something, and only due feeds.
LEMMA OldestNotEmpty ==
  ASSUME NEW S, S \subseteq Feeds, S # {}, Orders(before, Feeds)
  PROVE  Oldest(S) # {} /\ Oldest(S) \subseteq S
<1>1. Orders(before, S)
  BY DEF Orders
<1>2. PICK f \in S : \A g \in S : <<g, f>> \notin before
  BY <1>1, EarliestExists
<1>3. {g \in S : <<g, f>> \in before} = {}
  BY <1>2
<1>4. Cardinality({g \in S : <<g, f>> \in before}) = 0
  BY <1>3, FS_EmptySet
<1>5. f \in Oldest(S)
  BY <1>4, FeedsAssumption DEF Oldest
<1>q. QED
  BY <1>5 DEF Oldest

\* What Proceed does to the feeds left.
LEMMA ProceedKeepsDue ==
  ASSUME TypeOK, NEW w \in Workers, NEW rest, Proceed(w, rest)
  PROVE  /\ pc'[w] # "idle" => due'[w] = due[w] /\ listed'[w] = listed[w]
         /\ pc'[w] = "idle" => due'[w] = {}
         /\ pc'[w] = "fetch" => due'[w] # {}
         /\ pc'[w] \in Handling => rest # {}
BY DEF TypeOK, Proceed, Leave, Goto, Assign, Handling

\* The step of a loop that takes one candidate away, or saves a feed's row.
LEMMA ProceedKeepsLoops ==
  ASSUME TypeOK, LoopsSound, NEW w \in Workers, NEW rest \in SUBSET Entries,
         Proceed(w, rest), Orders(before', Feeds)
  PROVE  LoopsSound'
<1>1. ASSUME NEW v \in Workers, v # w
      PROVE  pc'[v] = pc[v] /\ due'[v] = due[v] /\ listed'[v] = listed[v] /\ todo'[v] = todo[v]
  BY <1>1, ProceedEffect
<1>2. /\ Orders(listed'[w].order, due'[w])
      /\ pc'[w] = "fetch" => due'[w] # {}
      /\ pc'[w] \in Handling => todo'[w] # {}
  <2>1. due'[w] = {} \/ (due'[w] = due[w] /\ listed'[w] = listed[w])
    BY ProceedKeepsDue
  <2>2. Orders(listed'[w].order, due'[w])
    BY <2>1 DEF LoopsSound, Orders
  <2>q. QED
    BY <2>2, ProceedEffect, ProceedKeepsDue
<1>q. QED
  BY <1>1, <1>2 DEF LoopsSound

\* Polling a feed moves it to the end of the order, registering to its start.
LEMMA MovedOrder ==
  ASSUME Orders(before, Feeds), NEW f \in Feeds
  PROVE  /\ Orders({p \in before : p[1] # f} \cup {<<g, f>> : g \in Feeds \ {f}}, Feeds)
         /\ Orders({p \in before : p[2] # f} \cup {<<f, g>> : g \in Feeds \ {f}}, Feeds)
<1>. DEFINE last  == {p \in before : p[1] # f} \cup {<<g, f>> : g \in Feeds \ {f}}
            first == {p \in before : p[2] # f} \cup {<<f, g>> : g \in Feeds \ {f}}
<1>1. \A g, h \in Feeds :
        /\ <<g, h>> \in last <=> (g # f /\ (h = f \/ <<g, h>> \in before))
        /\ <<g, h>> \in first <=> (h # f /\ (g = f \/ <<g, h>> \in before))
  BY DEF Orders
<1>2. Orders(last, Feeds) /\ Orders(first, Feeds)
  <2>. HIDE DEF last, first
  <2>q. QED
    BY <1>1 DEF Orders
<1>q. QED
  BY <1>2

LEMMA LoopsStep ==
  ASSUME TypeInv, LoopsSound, Next \/ UNCHANGED vars
  PROVE  LoopsSound'
<1>. USE DEF TypeInv, Goto, Assign
<1>1. ASSUME NEW f \in Feeds, NewDocument(f) \/ IntervalPasses(f) PROVE LoopsSound'
  BY <1>1 DEF LoopsSound, NewDocument, IntervalPasses, tables, locals, history
<1>2. ASSUME NEW r \in Requests, Register(r[1], r[2]) PROVE LoopsSound'
  <2>1. r[1] \in Feeds
    BY FeedsAssumption
  <2>2. Orders(before', Feeds)
    BY <1>2, <2>1, MovedOrder DEF LoopsSound, Register
  <2>q. QED
    BY <1>2, <2>2 DEF LoopsSound, Register, locals
<1>3. ASSUME NEW w \in Workers, Poll(w) PROVE LoopsSound'
  <2>. DEFINE S == Oldest(DueFeeds)
  <2>1. S # {} /\ S \subseteq Feeds
    BY <1>3, OldestNotEmpty DEF Poll, LoopsSound, DueFeeds
  <2>2. due'[w] = S /\ listed'[w].order = before \cap (S \X S) /\ pc'[w] = "fetch"
    BY <1>3 DEF Poll, TypeOK
  <2>3. Orders(before \cap (S \X S), S)
    <3>1. Orders(before, S)
      BY <2>1 DEF LoopsSound, Orders
    <3>. HIDE DEF S
    <3>q. QED
      BY <3>1 DEF Orders
  <2>4. ASSUME NEW v \in Workers, v # w
        PROVE  pc'[v] = pc[v] /\ due'[v] = due[v] /\ listed'[v] = listed[v]
    BY <1>3, <2>4 DEF Poll, TypeOK
  <2>5. todo' = todo /\ before' = before
    BY <1>3 DEF Poll, tables
  <2>. HIDE DEF S
  <2>q. QED
    BY <2>1, <2>2, <2>3, <2>4, <2>5 DEF LoopsSound, Handling
<1>4. ASSUME NEW w \in Workers, NEW e \in Direct, Submit(w, e) PROVE LoopsSound'
  BY <1>4 DEF LoopsSound, Submit, TypeOK, tables, history, Handling
<1>5. ASSUME NEW w \in Workers, Fetch(w) PROVE LoopsSound'
  <2>1. PICK f \in due[w] \ Broken :
          /\ due' = Assign(due, w, due[w] \ {f})
          /\ listed' = Assign(listed, w, [listed[w] EXCEPT !.rows[f] = NoRow])
    BY <1>5 DEF Fetch
  <2>2. due'[w] \subseteq due[w] /\ listed'[w].order = listed[w].order
    BY <2>1 DEF TypeOK, Listing
  <2>3. Orders(listed'[w].order, due'[w])
    BY <2>2 DEF LoopsSound, Orders
  <2>4. ASSUME NEW v \in Workers, v # w
        PROVE  pc'[v] = pc[v] /\ due'[v] = due[v] /\ listed'[v] = listed[v] /\ todo'[v] = todo[v]
    BY <1>5, <2>1, <2>4 DEF Fetch, TypeOK
  <2>5. pc'[w] = "save" /\ before' = before
    BY <1>5 DEF Fetch, TypeOK, tables
  <2>q. QED
    BY <2>3, <2>4, <2>5 DEF LoopsSound, Handling
<1>6. ASSUME NEW w \in Workers, FetchRaises(w) \/ CallDies(w) PROVE LoopsSound'
  <2>1. Leave(w) /\ before' = before
    BY <1>6 DEF FetchRaises, CallDies, Fault, tables
  <2>2. Orders(listed'[w].order, due'[w]) /\ pc'[w] = "idle"
    BY <2>1, LeaveEffect DEF Orders
  <2>3. ASSUME NEW v \in Workers, v # w
        PROVE  pc'[v] = pc[v] /\ due'[v] = due[v] /\ listed'[v] = listed[v] /\ todo'[v] = todo[v]
    BY <2>1, <2>3, LeaveEffect
  <2>q. QED
    BY <2>1, <2>2, <2>3 DEF LoopsSound, Handling
<1>7. ASSUME NEW w \in Workers, Save(w) PROVE LoopsSound'
  <2>1. feed[w] \in Feeds /\ todo[w] \in SUBSET Entries
    BY <1>7 DEF Save, CallsSound, TypeOK
  <2>2. Orders(before', Feeds)
    BY <1>7, <2>1, MovedOrder DEF LoopsSound, Save
  <2>q. QED
    BY <1>7, <2>1, <2>2, ProceedKeepsLoops DEF Save
<1>8. ASSUME NEW w \in Workers,
             \/ Reject(w) \/ Drop(w) \/ RecordDuplicate(w) \/ ExtractFails(w)
             \/ Insert(w) \/ Reload(w) \/ CandidateFails(w)
      PROVE  LoopsSound'
  <2>1. \E e : Proceed(w, todo[w] \ {e})
    BY <1>8 DEF Reject, Drop, RecordDuplicate, ExtractFails, Insert, Reload, CandidateFails, Record
  <2>2. before' = before
    BY <1>8 DEF Reject, Drop, RecordDuplicate, ExtractFails, Insert, Reload, CandidateFails,
                Fault, tables
  <2>3. \A e : todo[w] \ {e} \in SUBSET Entries
    BY DEF TypeOK
  <2>q. QED
    BY <2>1, <2>2, <2>3, ProceedKeepsLoops DEF LoopsSound
<1>9. ASSUME NEW w \in Workers, CheckDuplicate(w) \/ InsertRefused(w) PROVE LoopsSound'
  BY <1>9 DEF LoopsSound, CheckDuplicate, InsertRefused, TypeOK, tables, locals, Handling
<1>10. CASE UNCHANGED vars
  BY <1>10 DEF LoopsSound, vars, tables, locals
<1>q. QED
  BY <1>1, <1>2, <1>3, <1>4, <1>5, <1>6, <1>7, <1>8, <1>9, <1>10 DEF Next, Step

LEMMA LoopsInvariant == Spec => []LoopsSound
<1>1. Init => LoopsSound
  BY FeedsAssumption DEF Init, LoopsSound, Orders, Handling, NoListing
<1>2. TypeInv /\ LoopsSound /\ [Next]_vars => LoopsSound'
  BY LoopsStep
<1>q. QED
  BY <1>1, <1>2, TypeInvariant, PTL DEF Spec

\* Nothing a call meets on its way can hold it up: it is at exactly one feed
\* of those it listed, and at exactly one of the candidates left, however often
\* feeds are polled and registered meanwhile.
Unblocked(w) ==
  /\ pc[w] = "fetch" => \E f : {g \in due[w] : First(w, g)} = {f}
  /\ pc[w] \in Handling => \E e : {d \in todo[w] : NextUp(w, d)} = {e}

THEOREM CallsUnblocked == Spec => [](\A w \in Workers : Unblocked(w))
<1>1. TypeOK /\ LoopsSound => \A w \in Workers : Unblocked(w)
  <2>. SUFFICES ASSUME TypeOK, LoopsSound, NEW w \in Workers PROVE Unblocked(w)
    OBVIOUS
  <2>1. ASSUME pc[w] = "fetch" PROVE \E f : {g \in due[w] : First(w, g)} = {f}
    <3>1. /\ due[w] \subseteq Feeds /\ due[w] # {}
          /\ Orders(listed[w].order, due[w])
      BY <2>1 DEF TypeOK, LoopsSound
    <3>2. \E f \in due[w] : \A g \in due[w] : <<g, f>> \notin listed[w].order
      BY <3>1, EarliestExists
    <3>3. PICK f \in due[w] : \A g \in due[w] : <<g, f>> \notin listed[w].order
      BY <3>2
    <3>4. {g \in due[w] : First(w, g)} = {f}
      BY <3>1, <3>3 DEF First, Orders
    <3>q. QED
      BY <3>4
  <2>2. ASSUME pc[w] \in Handling PROVE \E e : {d \in todo[w] : NextUp(w, d)} = {e}
    <3>1. todo[w] \subseteq Nat /\ todo[w] # {}
      BY <2>2, FeedsAssumption DEF TypeOK, LoopsSound
    <3>2. \E e \in todo[w] : \A d \in todo[w] : e <= d
      BY <3>1, LeastExists
    <3>3. PICK e \in todo[w] : \A d \in todo[w] : e <= d
      BY <3>2
    <3>4. {d \in todo[w] : NextUp(w, d)} = {e}
      BY <3>1, <3>3 DEF NextUp
    <3>q. QED
      BY <3>4
  <2>q. QED
    BY <2>1, <2>2 DEF Unblocked
<1>q. QED
  BY <1>1, TypeCorrect, LoopsInvariant, PTL

\* The places of a call within one feed and one candidate, from the end.
Place ==
  [l \in PC |-> CASE l = "save" -> 5
                  [] l = "candidate" -> 4
                  [] l = "extract" -> 3
                  [] l = "duplicate" -> 2
                  [] l = "reload" -> 1
                  [] OTHER -> 0]

\* The end of the call, fewer feeds left, fewer candidates left of this feed,
\* or a later place with the same candidate.
Advances(w) ==
  \/ pc[w] # "idle" /\ pc'[w] = "idle"
  \/ due'[w] \subseteq due[w] /\ due'[w] # due[w]
  \/ due'[w] = due[w] /\ todo'[w] \subseteq todo[w] /\ todo'[w] # todo[w]
  \/ due'[w] = due[w] /\ todo'[w] = todo[w] /\ Place[pc'[w]] < Place[pc[w]]

Stays(w) == pc'[w] = pc[w] /\ due'[w] = due[w] /\ todo'[w] = todo[w]

\* Each step of a call takes it forward, and no step of another call, of a
\* registration or of the world takes it back: a poll comes to an end however
\* many documents appear meanwhile.
THEOREM StepsAdvance ==
  Spec => [][\A w \in Workers :
               /\ Step(w) \/ CandidateFails(w) \/ CallDies(w) => Advances(w)
               /\ \/ Stays(w)
                  \/ pc[w] = "idle" /\ pc'[w] \in {"fetch", "candidate"}
                  \/ Advances(w)]_vars
<1>1. ASSUME TypeInv, NEW w \in Workers, Step(w) \/ CandidateFails(w) \/ CallDies(w)
      PROVE  Advances(w)
  <2>. USE <1>1 DEF TypeInv, Goto, Assign
  <2>0. /\ Place["save"] = 5 /\ Place["candidate"] = 4 /\ Place["extract"] = 3
        /\ Place["duplicate"] = 2 /\ Place["reload"] = 1 /\ Place["fetch"] = 0
    BY DEF Place, PC, Handling
  <2>1. CASE Fetch(w)
    BY <2>1 DEF Fetch, TypeOK, Advances
  <2>2. CASE FetchRaises(w) \/ CallDies(w)
    BY <2>2, LeaveEffect DEF FetchRaises, CallDies, Advances
  <2>3. CASE Save(w)
    <3>1. Proceed(w, todo[w]) /\ todo[w] \in SUBSET Entries /\ pc[w] = "save"
      BY <2>3 DEF Save, TypeOK
    <3>2. pc'[w] \in {"idle", "fetch", "candidate"} /\ todo'[w] = todo[w]
      BY <3>1, ProceedEffect
    <3>3. pc'[w] # "idle" => due'[w] = due[w]
      BY <3>1, ProceedKeepsDue
    <3>q. QED
      BY <2>0, <3>1, <3>2, <3>3 DEF Advances
  <2>4. CASE \/ Reject(w) \/ Drop(w) \/ RecordDuplicate(w) \/ ExtractFails(w)
             \/ Insert(w) \/ Reload(w) \/ CandidateFails(w)
    <3>1. PICK e \in todo[w] : Proceed(w, todo[w] \ {e})
      BY <2>4 DEF Reject, Drop, RecordDuplicate, ExtractFails, Insert, Reload, CandidateFails,
                  Record
    <3>2. todo[w] \ {e} \in SUBSET Entries /\ pc[w] # "idle"
      BY <2>4 DEF TypeOK, Reject, Drop, RecordDuplicate, ExtractFails, Insert, Reload,
                  CandidateFails, Handling
    <3>3. todo'[w] = todo[w] \ {e}
      BY <3>1, <3>2, ProceedEffect
    <3>4. pc'[w] # "idle" => due'[w] = due[w]
      BY <3>1, ProceedKeepsDue
    <3>q. QED
      BY <3>2, <3>3, <3>4 DEF Advances
  <2>5. CASE CheckDuplicate(w) \/ InsertRefused(w)
    BY <2>0, <2>5 DEF CheckDuplicate, InsertRefused, TypeOK, locals, Advances
  <2>q. QED
    BY <2>1, <2>2, <2>3, <2>4, <2>5 DEF Step
<1>2. ASSUME TypeInv, NEW v \in Workers, Step(v) \/ CandidateFails(v) \/ CallDies(v),
             NEW w \in Workers, w # v
      PROVE  Stays(w)
  <2>. USE <1>2 DEF TypeInv, Goto, Assign, Stays
  <2>1. CASE Fetch(v) \/ CheckDuplicate(v) \/ InsertRefused(v)
    BY <2>1 DEF Fetch, CheckDuplicate, InsertRefused, TypeOK, locals
  <2>2. CASE FetchRaises(v) \/ CallDies(v)
    BY <2>2, LeaveEffect DEF FetchRaises, CallDies
  <2>3. CASE \/ Save(v) \/ Reject(v) \/ Drop(v) \/ RecordDuplicate(v) \/ ExtractFails(v)
             \/ Insert(v) \/ Reload(v) \/ CandidateFails(v)
    <3>1. \E rest \in SUBSET Entries : Proceed(v, rest)
      BY <2>3 DEF Save, Reject, Drop, RecordDuplicate, ExtractFails, Insert, Reload,
                  CandidateFails, Record, TypeOK
    <3>q. QED
      BY <3>1, ProceedEffect
  <2>q. QED
    BY <2>1, <2>2, <2>3 DEF Step
<1>3. ASSUME TypeInv, [Next]_vars, NEW w \in Workers
      PROVE  Stays(w) \/ (pc[w] = "idle" /\ pc'[w] \in {"fetch", "candidate"}) \/ Advances(w)
  <2>1. ASSUME NEW v \in Workers, Step(v) \/ CandidateFails(v) \/ CallDies(v)
        PROVE  Stays(w) \/ Advances(w)
    BY <1>1, <1>2, <1>3, <2>1
  <2>2. ASSUME NEW v \in Workers, Poll(v) \/ \E e \in Direct : Submit(v, e)
        PROVE  Stays(w) \/ (pc[w] = "idle" /\ pc'[w] \in {"fetch", "candidate"})
    BY <1>3, <2>2 DEF Poll, Submit, Goto, Assign, Stays, TypeInv, TypeOK
  <2>3. CASE \/ UNCHANGED vars
             \/ \E f \in Feeds : NewDocument(f) \/ IntervalPasses(f)
             \/ \E r \in Requests : Register(r[1], r[2])
    BY <2>3 DEF vars, locals, Stays, NewDocument, IntervalPasses, Register
  <2>q. QED
    BY <1>3, <2>1, <2>2, <2>3 DEF Next
<1>4. TypeInv /\ [Next]_vars =>
        [\A w \in Workers :
           /\ Step(w) \/ CandidateFails(w) \/ CallDies(w) => Advances(w)
           /\ \/ Stays(w)
              \/ pc[w] = "idle" /\ pc'[w] \in {"fetch", "candidate"}
              \/ Advances(w)]_vars
  BY <1>1, <1>3
<1>q. QED
  BY <1>4, TypeInvariant, PTL DEF Spec
=============================================================================

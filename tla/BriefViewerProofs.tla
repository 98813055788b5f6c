-------------------------- MODULE BriefViewerProofs --------------------------
(***************************************************************************)
(* Proofs about BriefArchive and BriefViewer for any briefs, topics, tabs  *)
(* and any number of requests under way.                                   *)
(***************************************************************************)
EXTENDS BriefViewer, LeastElements, TLAPS

\* An embedding row is staged only until its own commit; every synthesis that
\* is done has committed, and only one that has ended can have.
ArchiveInv ==
  /\ ArchiveTypeOK
  /\ embedded \subseteq committed
  /\ \A b \in Briefs :
       /\ b \in staged => writer[b] = "commit"
       /\ writer[b] = "done" => b \in committed
       /\ b \in committed => writer[b] \in {"done", "failed"}
       /\ writer[b] = "failed" => b \in broken

LEMMA ArchiveInitially == ArchiveInit => ArchiveInv
BY ArchiveAssumption DEF ArchiveInit, ArchiveInv, ArchiveTypeOK, Writing

LEMMA WriteKeeps ==
  ASSUME ArchiveInv, NEW b \in Briefs, Write(b)
  PROVE  ArchiveInv' /\ committed \subseteq committed'
<1>. USE DEF ArchiveInv, ArchiveTypeOK, Writing, WriterGoto
<1>1. CASE Synthesise(b)
  BY <1>1 DEF Synthesise
<1>2. CASE Embed(b)
  BY <1>2 DEF Embed
<1>3. CASE InsertBrief(b)
  BY <1>3 DEF InsertBrief
<1>4. CASE StageEmbedding(b) \/ EmbeddingRefused(b)
  BY <1>4 DEF StageEmbedding, EmbeddingRefused
<1>5. CASE CommitBrief(b)
  BY <1>5 DEF CommitBrief
<1>6. CASE SynthesisFails(b)
  BY <1>6 DEF SynthesisFails
<1>7. CASE CommitAckLost(b)
  BY <1>7 DEF CommitAckLost
<1>q. QED
  BY <1>1, <1>2, <1>3, <1>4, <1>5, <1>6, <1>7 DEF Write

-----------------------------------------------------------------------------
Matches(b) == CadenceOf[b] = cadence /\ TopicOf[b] = selectedTopicId

\* The list: the request of the current effect asks for what is selected.
ListInv ==
  /\ effect \in Nat
  /\ \A r \in lists : r.n \in Nat /\ r.n <= effect
  /\ \A r \in lists : Current(r) => r.cadence = cadence /\ r.topic = selectedTopicId
  /\ ~briefsLoading /\ ~briefsError => \A b \in briefs : Matches(b)
  /\ briefs \subseteq committed
  /\ \A r \in details : r.id \in committed

\* The pane: the awaited answer is that of the highlighted brief.
PaneInv ==
  /\ latestDetailRequestId = selectedId
  /\ ~detailLoading /\ ~detailError /\ selectedBrief # NoBrief => selectedBrief = selectedId
  /\ ~strayed /\ selectedId # NoBrief => Matches(selectedId)
  /\ topicsState = "loading" => selectedId = NoBrief

ViewerInv == ArchiveInv /\ ListInv /\ PaneInv

\* A list request for cadence c and topic t goes out.
LEMMA RefetchKeeps ==
  ASSUME ListInv, NEW c, NEW t, Refetch(c, t), UNCHANGED <<committed, details>>,
         cadence' = c, selectedTopicId' = t
  PROVE  ListInv'
BY DEF ListInv, Refetch, Current

\* A step that leaves the list and what it is about alone.
LEMMA ListKeeps ==
  ASSUME ListInv, UNCHANGED <<list, cadence, selectedTopicId, details>>,
         committed \subseteq committed'
  PROVE  ListInv'
BY DEF ListInv, Current, Matches, list

LEMMA ViewerInvariant == Spec => []ViewerInv
<1>1. Init => ViewerInv
  BY ArchiveInitially, ViewerAssumption
  DEF Init, FirstEffect, ViewerInv, ListInv, PaneInv
<1>2. ViewerInv /\ [Next]_vars => ViewerInv'
  <2>. SUFFICES ASSUME ViewerInv, [Next]_vars PROVE ViewerInv'
    OBVIOUS
  <2>0. ArchiveInv /\ ListInv /\ PaneInv
    BY DEF ViewerInv
  <2>a. ASSUME UNCHANGED archive PROVE ArchiveInv' /\ UNCHANGED committed
    BY <2>0, <2>a DEF archive, ArchiveInv, ArchiveTypeOK
  <2>1. CASE ArchiveStep
    <3>1. PICK b \in Briefs : Write(b) /\ UNCHANGED <<gate, cadence, list, pane>>
      BY <2>1 DEF ArchiveStep
    <3>2. ArchiveInv' /\ committed \subseteq committed'
      BY <2>0, <3>1, WriteKeeps
    <3>3. ListInv'
      BY <2>0, <3>1, <3>2, ListKeeps DEF gate, pane
    <3>4. PaneInv'
      BY <2>0, <3>1 DEF gate, pane, PaneInv, Matches
    <3>q. QED
      BY <3>2, <3>3, <3>4 DEF ViewerInv
  <2>2. ASSUME NEW items \in SUBSET Known, TopicsLoaded(items) PROVE ViewerInv'
    <3>1. UNCHANGED archive /\ UNCHANGED pane /\ UNCHANGED cadence
      BY <2>2 DEF TopicsLoaded
    <3>2. ListInv'
      <4>1. CASE items = {}
        BY <2>0, <2>2, <2>a, <3>1, <4>1, ListKeeps DEF TopicsLoaded, pane
      <4>2. CASE items # {}
        BY <2>0, <2>2, <2>a, <3>1, <4>2, RefetchKeeps DEF TopicsLoaded, pane
      <4>q. QED
        BY <4>1, <4>2
    <3>3. PaneInv'
      BY <2>0, <2>2, <3>1 DEF TopicsLoaded, pane, PaneInv
    <3>q. QED
      BY <2>a, <3>1, <3>2, <3>3 DEF ViewerInv
  <2>3. CASE TopicsFail \/ NewTopic
    <3>1. /\ UNCHANGED <<archive, cadence, list, pane, selectedTopicId>>
          /\ topicsState' = "loading" => topicsState = "loading"
      BY <2>3 DEF TopicsFail, NewTopic
    <3>2. ListInv'
      BY <2>0, <2>a, <3>1, ListKeeps DEF pane
    <3>3. PaneInv'
      BY <2>0, <3>1 DEF pane, PaneInv, Matches
    <3>q. QED
      BY <2>a, <3>1, <3>2, <3>3 DEF ViewerInv
  <2>4. ASSUME NEW t \in Topics, TopicCreated(t) PROVE ViewerInv'
    <3>1. ListInv'
      BY <2>0, <2>4, <2>a, RefetchKeeps DEF TopicCreated, Refetch
    <3>2. PaneInv'
      BY <2>0, <2>4 DEF TopicCreated, PaneInv
    <3>q. QED
      BY <2>4, <2>a, <3>1, <3>2 DEF TopicCreated, ViewerInv
  <2>5. ASSUME NEW t \in Topics, SelectTopic(t) PROVE ViewerInv'
    <3>1. ListInv'
      BY <2>0, <2>5, <2>a, RefetchKeeps DEF SelectTopic, Deselect
    <3>2. PaneInv'
      BY <2>0, <2>5 DEF SelectTopic, Deselect, PaneInv
    <3>q. QED
      BY <2>5, <2>a, <3>1, <3>2 DEF SelectTopic, ViewerInv
  <2>6. ASSUME NEW c \in Cadences, ChangeCadence(c) PROVE ViewerInv'
    <3>1. ListInv'
      <4>1. CASE c = cadence /\ UNCHANGED list
        BY <2>0, <2>6, <2>a, <4>1, ListKeeps DEF ChangeCadence, Deselect, gate
      <4>2. CASE Refetch(c, selectedTopicId)
        BY <2>0, <2>6, <2>a, <4>2, RefetchKeeps DEF ChangeCadence, Deselect, gate
      <4>q. QED
        BY <2>6, <4>1, <4>2 DEF ChangeCadence
    <3>2. PaneInv'
      BY <2>0, <2>6 DEF ChangeCadence, Deselect, PaneInv
    <3>q. QED
      BY <2>6, <2>a, <3>1, <3>2 DEF ChangeCadence, ViewerInv
  <2>7. ASSUME NEW b \in Briefs, PickBrief(b) PROVE ViewerInv'
    <3>1. /\ b \in briefs /\ b \in committed /\ Matches(b)
          /\ topicsState = "ready"
      BY <2>0, <2>7 DEF PickBrief, ListShown, Browsing, ListInv
    <3>2. /\ UNCHANGED <<archive, gate, cadence, list>>
          /\ details' = details \cup {[n |-> clicks + 1, id |-> b]}
      BY <2>7 DEF PickBrief
    <3>3. ListInv'
      BY <2>0, <2>a, <3>1, <3>2 DEF ListInv, Current, Matches, list, gate
    <3>4. PaneInv'
      BY <2>0, <2>7, <3>1, <3>2 DEF PickBrief, PaneInv, Matches, gate
    <3>q. QED
      BY <2>a, <3>2, <3>3, <3>4 DEF ViewerInv
  <2>8. ASSUME NEW r \in lists, ListSettles(r) PROVE ViewerInv'
    <3>1. UNCHANGED <<archive, gate, cadence, effect, pane>> /\ lists' = lists \ {r}
      BY <2>8 DEF ListSettles, ListAnswered, ListFails
    <3>2. PaneInv'
      BY <2>0, <3>1 DEF PaneInv, Matches, gate, pane
    <3>3. ListInv'
      <4>1. CASE ListAnswered(r) /\ Current(r)
        <5>1. /\ briefs' = Listing(r.cadence, r.topic)
              /\ r.cadence = cadence /\ r.topic = selectedTopicId
          BY <2>0, <2>8, <4>1 DEF ListAnswered, ListInv
        <5>2. briefs' \subseteq committed /\ \A b \in briefs' : Matches(b)
          BY <5>1 DEF Listing, Matches
        <5>q. QED
          BY <2>0, <2>a, <3>1, <5>2 DEF ListInv, Current, Matches, gate, pane
      <4>2. CASE ListFails(r) /\ Current(r)
        BY <2>0, <2>a, <3>1, <4>2 DEF ListFails, ListInv, Current, Matches, gate, pane
      <4>3. CASE ~Current(r)
        BY <2>0, <2>8, <2>a, <3>1, <4>3
        DEF ListSettles, ListAnswered, ListFails, ListInv, Current, Matches, gate, pane
      <4>q. QED
        BY <2>8, <4>1, <4>2, <4>3 DEF ListSettles
    <3>q. QED
      BY <2>a, <3>1, <3>2, <3>3 DEF ViewerInv
  <2>9. ASSUME NEW r \in details, DetailSettled(r) PROVE ViewerInv'
    <3>1. UNCHANGED <<archive, gate, cadence, list>> /\ details' = details \ {r}
      BY <2>9 DEF DetailSettled, DetailAnswered, DetailFails
    <3>2. ListInv'
      BY <2>0, <2>a, <3>1 DEF ListInv, Current, Matches, list, gate
    <3>3. PaneInv'
      BY <2>0, <2>9, <3>1
      DEF DetailSettled, DetailAnswered, DetailFails, DetailSettles, Wanted, PaneInv, Matches, gate
    <3>q. QED
      BY <2>a, <3>1, <3>2, <3>3 DEF ViewerInv
  <2>10. CASE UNCHANGED vars
    <3>1. ListInv'
      BY <2>0, <2>10, <2>a, ListKeeps DEF vars, gate, pane
    <3>2. PaneInv'
      BY <2>0, <2>10 DEF vars, gate, pane, PaneInv, Matches
    <3>q. QED
      BY <2>10, <2>a, <3>1, <3>2 DEF vars, ViewerInv
  <2>q. QED
    BY <2>1, <2>2, <2>3, <2>4, <2>5, <2>6, <2>7, <2>8, <2>9, <2>10 DEF Next, Click
<1>q. QED
  BY <1>1, <1>2, PTL DEF Spec

-----------------------------------------------------------------------------
\* An embedding that fails costs no brief, and none is durable without it.
THEOREM EmbeddingIsOptionalHolds == Spec => []EmbeddingIsOptional
<1>1. ViewerInv => EmbeddingIsOptional
  BY DEF ViewerInv, ArchiveInv, EmbeddingIsOptional, Searchable
<1>q. QED
  BY <1>1, ViewerInvariant, PTL

\* The pane shows the pick, whatever answers come when.
THEOREM PaneShowsPickHolds == Spec => []PaneShowsPick
<1>1. ViewerInv => PaneShowsPick
  BY DEF ViewerInv, PaneInv, PaneShowsPick, DetailShown, Matches
<1>q. QED
  BY <1>1, ViewerInvariant, PTL

\* The list is that of its tab and topic, and can be read.
THEOREM ListBelongsToTabHolds == Spec => []ListBelongsToTab
<1>1. ViewerInv => ListBelongsToTab
  BY DEF ViewerInv, ListInv, ListBelongsToTab, ListShown, Matches, Readable
<1>q. QED
  BY <1>1, ViewerInvariant, PTL

-----------------------------------------------------------------------------
\* The first of the topics that the server lists is one of them.
LEMMA FirstExists ==
  ASSUME NEW S, S \subseteq Topics, S # {}
  PROVE  First(S) \in S
<1>1. \E t \in S : \A u \in S : t <= u
  BY ArchiveAssumption, LeastExists
<1>q. QED
  BY <1>1 DEF First

LEMMA RefetchTyped ==
  ASSUME TypeOK, NEW c \in Cadences, NEW t \in Topics, Refetch(c, t)
  PROVE  /\ effect' \in Nat
         /\ lists' \in SUBSET ListRequest
         /\ briefsLoading' \in BOOLEAN /\ briefsError' \in BOOLEAN
         /\ briefs' \in SUBSET Briefs
<1>1. [n |-> effect + 1, cadence |-> c, topic |-> t] \in ListRequest
  BY DEF TypeOK, ListRequest
<1>2. briefsLoading' \in BOOLEAN /\ briefsError' \in BOOLEAN
  BY DEF Refetch
<1>3. lists' \in SUBSET ListRequest
  BY <1>1 DEF TypeOK, Refetch
<1>4. effect' \in Nat /\ briefs' \in SUBSET Briefs
  BY DEF TypeOK, Refetch
<1>q. QED
  BY <1>2, <1>3, <1>4

\* Who browses has a topic selected, so the list effect asks for one.
Selected == topicsState = "ready" /\ topics # {} => selectedTopicId \in Topics

\* TypeOK of the page and the archive, in whatever order its requests are
\* answered.
THEOREM TypeCorrect == Spec => []TypeOK
<1>. DEFINE Inv == TypeOK /\ Selected
<1>1. Init => Inv
  <2>. SUFFICES ASSUME Init PROVE Inv
    OBVIOUS
  <2>1. ArchiveTypeOK
    BY ArchiveInitially DEF Init, ArchiveInv
  <2>2. briefsLoading \in BOOLEAN /\ briefsError \in BOOLEAN
    BY DEF Init, FirstEffect
  <2>3. /\ detailLoading \in BOOLEAN /\ detailError \in BOOLEAN
        /\ creatingNew \in BOOLEAN /\ strayed \in BOOLEAN
    BY DEF Init
  <2>4. /\ topicsState \in {"loading", "ready", "error"}
        /\ topics \in SUBSET Topics /\ selectedTopicId \in Topics \cup {NoTopic}
        /\ cadence \in Cadences /\ effect \in Nat /\ clicks \in Nat
    BY ViewerAssumption DEF Init
  <2>5. /\ briefs \in SUBSET Briefs
        /\ lists \in SUBSET ListRequest
        /\ details \in SUBSET DetailRequest
        /\ selectedId \in Briefs \cup {NoBrief}
        /\ selectedBrief \in Briefs \cup {NoBrief}
        /\ latestDetailRequestId \in Briefs \cup {NoBrief}
    BY DEF Init, FirstEffect
  <2>6. Selected
    BY DEF Init, Selected
  <2>q. QED
    BY <2>1, <2>2, <2>3, <2>4, <2>5, <2>6 DEF TypeOK
<1>2. Inv /\ [Next]_vars => Inv'
  <2>. SUFFICES ASSUME TypeOK, Selected, [Next]_vars PROVE TypeOK' /\ Selected'
    OBVIOUS
  <2>a. ASSUME UNCHANGED archive PROVE ArchiveTypeOK'
    BY <2>a DEF TypeOK, ArchiveTypeOK, archive
  <2>1. ASSUME NEW b \in Briefs, Write(b), UNCHANGED <<gate, cadence, list, pane>>
        PROVE  TypeOK' /\ Selected'
    <3>1. ArchiveTypeOK'
      BY <2>1 DEF TypeOK, ArchiveTypeOK, Writing, WriterGoto, Write, Synthesise, Embed,
                  InsertBrief, StageEmbedding, EmbeddingRefused, CommitBrief, CommitAckLost,
                  SynthesisFails
    <3>q. QED
      BY <2>1, <3>1 DEF TypeOK, Selected, gate, list, pane
  <2>2. ASSUME NEW items \in SUBSET Known, TopicsLoaded(items) PROVE TypeOK' /\ Selected'
    <3>1. CASE items = {}
      BY <2>2, <2>a, <3>1, ViewerAssumption DEF TopicsLoaded, TypeOK, Selected, list, pane
    <3>2. CASE items # {}
      <4>1. First(items) \in Topics
        BY <3>2, FirstExists, ViewerAssumption
      <4>q. QED
        BY <2>2, <2>a, <3>2, <4>1, RefetchTyped, ViewerAssumption
        DEF TopicsLoaded, TypeOK, Selected, pane
    <3>q. QED
      BY <3>1, <3>2
  <2>3. CASE TopicsFail \/ NewTopic
    BY <2>3, <2>a DEF TopicsFail, NewTopic, TypeOK, Selected, list, pane, Browsing
  <2>4. ASSUME NEW t \in Topics, TopicCreated(t) PROVE TypeOK' /\ Selected'
    BY <2>4, <2>a, RefetchTyped DEF TopicCreated, TypeOK, Selected
  <2>5. ASSUME NEW t \in Topics, SelectTopic(t) PROVE TypeOK' /\ Selected'
    BY <2>5, <2>a, RefetchTyped DEF SelectTopic, Deselect, TypeOK, Selected
  <2>6. ASSUME NEW c \in Cadences, ChangeCadence(c) PROVE TypeOK' /\ Selected'
    <3>1. selectedTopicId \in Topics
      BY <2>6 DEF ChangeCadence, Browsing, Selected
    <3>2. CASE UNCHANGED list
      BY <2>6, <2>a, <3>2 DEF ChangeCadence, Deselect, TypeOK, Selected, list, gate
    <3>3. CASE Refetch(c, selectedTopicId)
      BY <2>6, <2>a, <3>1, <3>3, RefetchTyped
      DEF ChangeCadence, Deselect, TypeOK, Selected, gate
    <3>q. QED
      BY <2>6, <3>2, <3>3 DEF ChangeCadence
  <2>7. ASSUME NEW b \in Briefs, PickBrief(b) PROVE TypeOK' /\ Selected'
    <3>1. [n |-> clicks + 1, id |-> b] \in DetailRequest
      BY DEF TypeOK, DetailRequest
    <3>2. detailLoading' \in BOOLEAN /\ detailError' \in BOOLEAN /\ strayed' \in BOOLEAN
      BY <2>7 DEF PickBrief
    <3>3. /\ details' \in SUBSET DetailRequest
          /\ clicks' \in Nat
          /\ selectedId' \in Briefs \cup {NoBrief}
          /\ selectedBrief' \in Briefs \cup {NoBrief}
          /\ latestDetailRequestId' \in Briefs \cup {NoBrief}
      BY <2>7, <3>1 DEF PickBrief, TypeOK
    <3>4. UNCHANGED <<archive, gate, cadence, list>>
      BY <2>7 DEF PickBrief
    <3>q. QED
      BY <2>a, <3>2, <3>3, <3>4 DEF TypeOK, Selected, gate, list
  <2>8. ASSUME NEW r \in lists, ListSettles(r) PROVE TypeOK' /\ Selected'
    <3>1. Listing(r.cadence, r.topic) \subseteq Briefs
      BY DEF TypeOK, ArchiveTypeOK, Listing
    <3>q. QED
      BY <2>8, <2>a, <3>1 DEF ListSettles, ListAnswered, ListFails, TypeOK, Selected, gate, pane
  <2>9. ASSUME NEW r \in details, DetailSettled(r) PROVE TypeOK' /\ Selected'
    <3>1. r.id \in Briefs
      BY DEF TypeOK, DetailRequest
    <3>q. QED
      BY <2>9, <2>a, <3>1 DEF DetailSettled, DetailAnswered, DetailFails, DetailSettles,
                              TypeOK, Selected, gate, list
  <2>10. CASE UNCHANGED vars
    BY <2>10, <2>a DEF vars, TypeOK, Selected, gate, list, pane
  <2>q. QED
    BY <2>1, <2>2, <2>3, <2>4, <2>5, <2>6, <2>7, <2>8, <2>9, <2>10
    DEF Next, Click, ArchiveStep
<1>q. QED
  BY <1>1, <1>2, PTL DEF Spec
=============================================================================

----------------------------- MODULE BriefViewer -----------------------------
(***************************************************************************)
(* frontend/src/App.tsx: what the brief viewer shows while its requests    *)
(* are answered in any order, over the archive of BriefArchive.tla.        *)
(* An action is one event: a click, or one response with the handlers it   *)
(* runs (then or catch, and finally).  The settings page and the list of   *)
(* ingestion attempts share no state with the rest and are left out.       *)
(***************************************************************************)
EXTENDS BriefArchive

CONSTANTS
  Known,            \* topics that may exist when the page is opened
  FirstCadence,     \* the tab that is active at first
  NoBrief, NoTopic, \* null
  MaxLists,         \* bound on the list requests of a session
  MaxClicks         \* bound on the briefs picked in a session

ASSUME ViewerAssumption ==
  /\ Known \subseteq Topics
  /\ FirstCadence \in Cadences
  /\ NoBrief \notin Briefs
  /\ NoTopic \notin Topics
  /\ MaxLists \in Nat
  /\ MaxClicks \in Nat

VARIABLES
  topicsState,      \* topicsLoading and topicsError
  topics,           \* topics the page knows of
  selectedTopicId,
  creatingNew,      \* the onboarding flow is open
  cadence,          \* the active tab
  briefs,           \* the listed briefs
  briefsLoading, briefsError,
  effect,           \* number of the effect run that is not cancelled
  lists,            \* list requests under way
  selectedId,       \* the picked brief
  selectedBrief,    \* the brief in the detail pane
  detailLoading, detailError,
  latestDetailRequestId,
  details,          \* detail requests under way
  clicks,           \* picks so far
  strayed           \* history: a topic was created since the last pick or
                    \* switch

gate  == <<topicsState, topics, selectedTopicId, creatingNew>>
list  == <<briefs, briefsLoading, briefsError, effect, lists>>
pane  == <<selectedId, selectedBrief, detailLoading, detailError,
           latestDetailRequestId, details, clicks, strayed>>
vars  == <<archive, gate, cadence, list, pane>>

ListRequest   == [n : Nat, cadence : Cadences, topic : Topics]
DetailRequest == [n : Nat, id : Briefs]

TypeOK ==
  /\ ArchiveTypeOK
  /\ topicsState \in {"loading", "ready", "error"}
  /\ topics \in SUBSET Topics
  /\ selectedTopicId \in Topics \cup {NoTopic}
  /\ creatingNew \in BOOLEAN
  /\ cadence \in Cadences
  /\ briefs \in SUBSET Briefs
  /\ briefsLoading \in BOOLEAN /\ briefsError \in BOOLEAN
  /\ effect \in Nat
  /\ lists \in SUBSET ListRequest
  /\ selectedId \in Briefs \cup {NoBrief}
  /\ selectedBrief \in Briefs \cup {NoBrief}
  /\ detailLoading \in BOOLEAN /\ detailError \in BOOLEAN
  /\ latestDetailRequestId \in Briefs \cup {NoBrief}
  /\ details \in SUBSET DetailRequest
  /\ clicks \in Nat
  /\ strayed \in BOOLEAN

\* The list effect of the first render: without a topic the list is empty.
FirstEffect == briefs = {} /\ briefsLoading = FALSE /\ lists = {}

Init ==
  /\ ArchiveInit
  /\ topicsState = "loading"
  /\ topics = {}
  /\ selectedTopicId = NoTopic
  /\ creatingNew = FALSE
  /\ cadence = FirstCadence
  /\ FirstEffect
  /\ briefsError = FALSE
  /\ effect = 0
  /\ selectedId = NoBrief
  /\ selectedBrief = NoBrief
  /\ detailLoading = FALSE /\ detailError = FALSE
  /\ latestDetailRequestId = NoBrief
  /\ details = {}
  /\ clicks = 0
  /\ strayed = FALSE

-----------------------------------------------------------------------------
\* The list effect: the run before it is cancelled and a request goes out.
Refetch(c, t) ==
  /\ effect < MaxLists
  /\ effect' = effect + 1
  /\ lists' = lists \cup {[n |-> effect + 1, cadence |-> c, topic |-> t]}
  /\ briefsLoading' = TRUE
  /\ briefsError' = FALSE
  /\ UNCHANGED briefs

First(S) == CHOOSE t \in S : \A u \in S : t <= u

\* fetchTopics: the first topic is selected, if there is one.
TopicsLoaded(items) ==
  /\ topicsState = "loading"
  /\ topicsState' = "ready"
  /\ topics' = items
  /\ \/ items = {} /\ UNCHANGED <<selectedTopicId, list>>
     \/ /\ items # {}
        /\ selectedTopicId' = First(items)
        /\ Refetch(cadence, First(items))
  /\ UNCHANGED <<archive, creatingNew, cadence, pane>>

\* Nothing asks for the topics again.
TopicsFail ==
  /\ topicsState = "loading"
  /\ topicsState' = "error"
  /\ UNCHANGED <<archive, topics, selectedTopicId, creatingNew, cadence, list, pane>>

Onboarding == topicsState = "ready" /\ (creatingNew \/ topics = {})
Browsing   == topicsState = "ready" /\ ~creatingNew /\ topics # {}

NewTopic ==
  /\ Browsing
  /\ creatingNew' = TRUE
  /\ UNCHANGED <<archive, topicsState, topics, selectedTopicId, cadence, list, pane>>

\* handleTopicCreated: the list follows the new topic, the pane stays.
TopicCreated(t) ==
  /\ Onboarding
  /\ t \in Topics \ topics
  /\ topics' = topics \cup {t}
  /\ selectedTopicId' = t
  /\ creatingNew' = FALSE
  /\ Refetch(cadence, t)
  /\ strayed' = TRUE
  /\ UNCHANGED <<archive, topicsState, cadence, selectedId, selectedBrief, detailLoading,
                 detailError, latestDetailRequestId, details, clicks>>

\* What handleTopicSelect and handleCadenceChange reset; detailLoading is not.
Deselect ==
  /\ latestDetailRequestId' = NoBrief
  /\ selectedId' = NoBrief
  /\ selectedBrief' = NoBrief
  /\ detailError' = FALSE
  /\ strayed' = FALSE
  /\ UNCHANGED <<detailLoading, details, clicks>>

SelectTopic(t) ==
  /\ Browsing
  /\ t \in topics \ {selectedTopicId}
  /\ selectedTopicId' = t
  /\ Deselect
  /\ Refetch(cadence, t)
  /\ UNCHANGED <<archive, topicsState, topics, creatingNew, cadence>>

\* A click on the active tab resets the pane too but starts no effect.
ChangeCadence(c) ==
  /\ Browsing
  /\ cadence' = c
  /\ Deselect
  /\ \/ c = cadence /\ UNCHANGED list
     \/ c # cadence /\ Refetch(c, selectedTopicId)
  /\ UNCHANGED <<archive, gate>>

\* Mutant: a cancelled run applies its answer.
CurrentAlways(r) == r.n \in Nat

Current(r) == r.n = effect

\* fetchBriefList answers or fails; a cancelled run ignores it.
ListAnswered(r) ==
  /\ r \in lists
  /\ lists' = lists \ {r}
  /\ \/ /\ Current(r)
        /\ briefs' = Listing(r.cadence, r.topic)
        /\ briefsLoading' = FALSE
        /\ UNCHANGED briefsError
     \/ ~Current(r) /\ UNCHANGED <<briefs, briefsLoading, briefsError>>
  /\ UNCHANGED <<archive, gate, cadence, effect, pane>>

ListFails(r) ==
  /\ r \in lists
  /\ lists' = lists \ {r}
  /\ \/ /\ Current(r)
        /\ briefsError' = TRUE
        /\ briefsLoading' = FALSE
        /\ UNCHANGED briefs
     \/ ~Current(r) /\ UNCHANGED <<briefs, briefsLoading, briefsError>>
  /\ UNCHANGED <<archive, gate, cadence, effect, pane>>

-----------------------------------------------------------------------------
ListShown == Browsing /\ ~briefsLoading /\ ~briefsError

\* handleSelectBrief: what the pane held stays under the loading state.
PickBrief(b) ==
  /\ ListShown
  /\ b \in briefs
  /\ clicks < MaxClicks
  /\ clicks' = clicks + 1
  /\ latestDetailRequestId' = b
  /\ selectedId' = b
  /\ detailLoading' = TRUE
  /\ detailError' = FALSE
  /\ strayed' = FALSE
  /\ details' = details \cup {[n |-> clicks + 1, id |-> b]}
  /\ UNCHANGED <<archive, gate, cadence, list, selectedBrief>>

\* Mutant: every response is applied.
WantedAlways(r) == r.id \in Briefs

\* The guard of the three handlers compares ids, not requests.
Wanted(r) == latestDetailRequestId = r.id

\* Mutant: the loading state is left to the next click.
DetailSettlesNot(r) == detailLoading' = (detailLoading \/ r.id = NoBrief)

DetailSettles(r) == detailLoading' = (detailLoading /\ ~Wanted(r))

DetailAnswered(r) ==
  /\ r \in details
  /\ Readable(r.id)
  /\ details' = details \ {r}
  /\ selectedBrief' = IF Wanted(r) THEN r.id ELSE selectedBrief
  /\ DetailSettles(r)
  /\ UNCHANGED <<archive, gate, cadence, list, selectedId, detailError,
                 latestDetailRequestId, clicks, strayed>>

\* The server or the network fails, or the brief does not exist.
DetailFails(r) ==
  /\ r \in details
  /\ details' = details \ {r}
  /\ selectedBrief' = IF Wanted(r) THEN NoBrief ELSE selectedBrief
  /\ detailError' = (detailError \/ Wanted(r))
  /\ DetailSettles(r)
  /\ UNCHANGED <<archive, gate, cadence, list, selectedId,
                 latestDetailRequestId, clicks, strayed>>

-----------------------------------------------------------------------------
ArchiveStep == \E b \in Briefs : Write(b) /\ UNCHANGED <<gate, cadence, list, pane>>

Click ==
  \/ NewTopic
  \/ \E t \in Topics : TopicCreated(t) \/ SelectTopic(t)
  \/ \E c \in Cadences : ChangeCadence(c)
  \/ \E b \in Briefs : PickBrief(b)

ListSettles(r)   == ListAnswered(r) \/ ListFails(r)
DetailSettled(r) == DetailAnswered(r) \/ DetailFails(r)

Next ==
  \/ ArchiveStep
  \/ Click
  \/ \E items \in SUBSET Known : TopicsLoaded(items)
  \/ TopicsFail
  \/ \E r \in lists : ListSettles(r)
  \/ \E r \in details : DetailSettled(r)

Spec == Init /\ [][Next]_vars

\* Every request is answered or fails in the end (fetch settles).
FairSpec ==
  /\ Spec
  /\ \A n \in 1..MaxLists : WF_vars(\E r \in lists : r.n = n /\ ListSettles(r))
  /\ \A n \in 1..MaxClicks : WF_vars(\E r \in details : r.n = n /\ DetailSettled(r))

-----------------------------------------------------------------------------
DetailShown == Browsing /\ ~detailLoading /\ ~detailError /\ selectedBrief # NoBrief

\* However late, duplicated or reordered the answers to earlier picks are,
\* the pane shows the brief highlighted in the list (handleSelectBrief and its
\* guard), of the tab and topic shown.  But for one case: a topic was created
\* while it was open, since handleTopicCreated resets nothing of the pane.
PaneShowsPick ==
  DetailShown =>
    /\ selectedBrief = selectedId
    /\ ~strayed => CadenceOf[selectedBrief] = cadence /\ TopicOf[selectedBrief] = selectedTopicId

\* The list under a tab is of that tab's cadence and of the selected topic,
\* and each of its briefs can be read: a pick never ends in 404.
ListBelongsToTab ==
  /\ ListShown => \A b \in briefs : CadenceOf[b] = cadence /\ TopicOf[b] = selectedTopicId
  /\ \A r \in details : Readable(r.id)

\* A list is loaded and a pick is answered, shown or refused, as long as the
\* user does not switch away.  (After a switch the pane may load for ever: no
\* response clears detailLoading then.)
PanesSettle ==
  /\ briefsLoading ~> ~briefsLoading
  /\ \A b \in Briefs : selectedId = b /\ detailLoading ~> ~detailLoading \/ selectedId # b
=============================================================================

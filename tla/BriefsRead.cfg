\* Two tabs, two topics of which one is created; a brief is written meanwhile.
SPECIFICATION FairSpec
CONSTANTS
  b1 = b1  b2 = b2  wk = wk  wn = wn  o1 = o1
  NoBrief = NoBrief
  NoTopic = NoTopic
  Briefs <- SomeBriefs
  Existing = {b1, wk, wn, o1}
  Ended = {b1, b2, wk, o1}
  Topics = {1, 2}
  Cadences = {"daily", "weekly"}
  TopicOf <- SomeTopics
  CadenceOf <- SomeTabs
  Known = {1}
  FirstCadence = "daily"
  MaxLists = 3
  MaxClicks = 3
INVARIANTS
  EmbeddingIsOptional
  PaneShowsPick
  ListBelongsToTab
PROPERTY PanesSettle
CHECK_DEADLOCK FALSE

\* Two calls at a time; polls of two out of three feeds, the third one broken;
\* one registration and one fault.
SPECIFICATION Spec
CONSTANTS
  w1 = w1  w2 = w2  a = a
  NoUrl = NoUrl
  NoFeed = NoFeed
  Workers = {w1, w2}
  Feeds = {1, 2, 3}
  Entries = {1, 2, 3, 4}
  Urls = {a}
  Url <- SameStory
  Unhandled = {2, 4}
  Documents <- StoryTwice
  Direct = {2}
  Relevant = {1, 3, 4}
  Validating = {1, 2}
  Broken = {3}
  MaxFeeds = 2
  Requests <- Disable
  MaxRegistrations = 1
  MaxFaults = 1
SYMMETRY WorkerSymmetry
INVARIANTS
  TypeOK
  AttemptsTruthful
  CandidatesAccounted
  SettingsKept

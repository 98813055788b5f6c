\* Two calls at a time that keep coming for two dates, one story, every kind of
\* fault, and room for every article.
SPECIFICATION RetrySpec
CONSTANTS
  w1 = w1  w2 = w2
  NoDay = NoDay
  Workers = {w1, w2}
  Days = {1, 2}
  Articles <- ThreeArticles
  Day <- ThreeDays
  Batching <- OneStoryOfThree
  MaxArticles = 3
  FaultKinds = {"raise", "crash", "invalid"}
  MaxFaults = 1
INVARIANTS
  TypeOK
  EvidenceOfDay
  RunsHaveEvidence
  RetryReportsRun
  BatchedOnceUnlessOverlapped
PROPERTIES
  CallsAnswered
  GroupsGetBatched

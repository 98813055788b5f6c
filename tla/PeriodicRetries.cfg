\* Two calls at a time that keep coming, three windows, one fault.
SPECIFICATION RetrySpec
CONSTANTS
  w1 = w1  w2 = w2
  NoWindow = NoWindow
  Workers = {w1, w2}
  Windows = {1, 2, 3}
  Summaries = {1, 2}
  Spans <- LongStory
  FaultKinds = {"raise", "crash"}
  MaxFaults = 1
INVARIANTS
  TypeOK
  EvidenceOfWindow
  CitedOnceUnlessOverlapped
PROPERTIES
  RetryReportsRun
  EvidenceStartsRun

\* Intervals keep being asked for; one crash.
SPECIFICATION RetrySpec
CONSTANTS
  w1 = w1  w2 = w2  d1 = d1  d2 = d2  wk = wk  d3 = d3  o2 = o2
  NoKey = NoKey
  Workers = {w1, w2}
  Keys = {d1}
  Topic <- LoneTopic
  Start <- LoneStart
  End <- LoneStart
  FaultKinds = {"crash"}
  MaxFaults = 1
PROPERTY InterruptedRunResumes

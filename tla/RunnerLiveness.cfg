\* Two topics whose intervals keep being asked for; one fault.
SPECIFICATION RetrySpec
CONSTANTS
  w1 = w1  w2 = w2  d1 = d1  d2 = d2  wk = wk  d3 = d3  o2 = o2
  NoKey = NoKey
  Workers = {w1, w2}
  Keys = {d1, o2}
  Topic <- TwoTopics
  Start <- TwoStart
  End <- TwoStart
  FaultKinds = {"tx", "ack", "crash"}
  MaxFaults = 1
PROPERTIES
  CallsAnswered
  RunningTerminates
  PendingStarts

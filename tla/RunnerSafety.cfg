\* A daily and a weekly brief that end on the same day, and the day after.
SPECIFICATION Spec
CONSTANTS
  w1 = w1  w2 = w2  d1 = d1  d2 = d2  wk = wk  d3 = d3  o2 = o2
  NoKey = NoKey
  Workers = {w1, w2}
  Keys = {d2, wk, d3}
  Topic <- WeekTopic
  Start <- WeekStart
  End <- WeekEnd
  FaultKinds = {"tx", "ack", "crash"}
  MaxFaults = 1
SYMMETRY WorkerSymmetry
INVARIANTS
  TypeOK
  SingleOwner
  OneBriefPerRun
  AnswersDurable
  RereadFindsRun
  LineageSound
  NarrativeCurrent
  RunningIsOwned
  ModelCalledOnce
PROPERTY ImplementsLedger

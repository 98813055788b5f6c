\* Two topics over the end of a week and of a month.
SPECIFICATION Spec
CONSTANTS
  Topics = {1, 2}
  Established = {1}
  FirstDay = 4
  FirstHour = 4
  LastDay = 6
  WeekLength = 3
  Months = {1, 5, 9}
  News <- SomeStories
  MaxDisturbances = 1
INVARIANTS
  HistoryHasTopic
  ReadyNewsIsBriefed
CHECK_DEADLOCK FALSE

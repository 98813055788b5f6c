\* One topic over a whole month of two weeks; nothing fails.
SPECIFICATION Spec
CONSTANTS
  Topics = {1}
  Established = {1}
  FirstDay = 3
  FirstHour = 0
  LastDay = 10
  WeekLength = 3
  Months = {3, 9, 15}
  News <- ActiveMonth
  MaxDisturbances = 0
INVARIANT ActiveMonthIsBriefed
CHECK_DEADLOCK FALSE

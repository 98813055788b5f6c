\* One call at a time; one of them is ended by an error.
SPECIFICATION RetrySpec
CONSTANTS
  w1 = w1  w2 = w2
  NoDay = NoDay
  Workers = {w1}
  Days = {2}
  Articles <- FourArticles
  Day <- FourDays
  Batching <- OneStory
  MaxArticles = 4
  FaultKinds = {"raise"}
  MaxFaults = 1
PROPERTY RetryReusesBatches

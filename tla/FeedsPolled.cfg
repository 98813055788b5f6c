\* Two calls at a time that keep coming, two out of three feeds a call.
SPECIFICATION RetrySpec
CONSTANTS
  w1 = w1  w2 = w2  a = a
  NoUrl = NoUrl
  NoFeed = NoFeed
  Workers = {w1, w2}
  Feeds = {1, 2, 3}
  Entries = {1, 2}
  Urls = {a}
  Url <- SameStory
  Unhandled = {}
  Documents <- NoStories
  Direct = {}
  Relevant = {1}
  Validating = {1}
  Broken = {}
  MaxFeeds = 2
  Requests = {}
  MaxRegistrations = 0
  MaxFaults = 1
PROPERTY DueFeedsPolled

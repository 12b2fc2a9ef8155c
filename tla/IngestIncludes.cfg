\* Is a change of an included file noticed?
SPECIFICATION HistoryFairSpec
CONSTANTS
  Calls = {c1}
  Cancelable = {}
  Paths = {p, q}
  Contents = {a, b, bad}
  Malformed = {bad}
  Includes <- AIncludesQ
  NoPath = NoPath
  NoContent = NoContent
  Configurations <- OneGlob
  BadPattern = BadPattern
  Checksum <- DistinctSums
  NoEvent = NoEvent
  Failure = Failure
  NumListeners = 1
  MaxEdits = 2
  p = p
  q = q
  a = a
  b = b
  bad = bad
PROPERTY Converges

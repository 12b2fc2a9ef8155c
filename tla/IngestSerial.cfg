\* One call at a time, again and again; three edits; two listeners; globs that
\* share a file, or a pattern that is malformed.
SPECIFICATION HistoryFairSpec
CONSTANTS
  Calls = {c1}
  Cancelable = {}
  Paths = {p, q}
  Contents = {a, b, bad}
  Malformed = {bad}
  Includes <- NoIncludes
  NoPath = NoPath
  NoContent = NoContent
  Configurations <- SerialConfigurations
  BadPattern = BadPattern
  Checksum <- DistinctSums
  NoEvent = NoEvent
  Failure = Failure
  NumListeners = 2
  MaxEdits = 3
  p = p
  q = q
  a = a
  b = b
  bad = bad
INVARIANTS TypeOK ListenerAgrees
PROPERTIES OnlyChangesDispatched Converges FailureReported

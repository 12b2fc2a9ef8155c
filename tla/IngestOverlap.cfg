\* Two overlapping calls, one of which may be canceled; two edits.
SPECIFICATION HistoryFairSpec
CONSTANTS
  Calls = {c1, c2}
  Cancelable = {c1}
  Paths = {p, q}
  Contents = {a, b, bad}
  Malformed = {bad}
  Includes <- NoIncludes
  NoPath = NoPath
  NoContent = NoContent
  Configurations <- OneGlob
  BadPattern = BadPattern
  Checksum <- DistinctSums
  NoEvent = NoEvent
  Failure = Failure
  NumListeners = 2
  MaxEdits = 2
  p = p
  q = q
  a = a
  b = b
  bad = bad
INVARIANTS RecordedIsDelivered
PROPERTIES ChecksumConverges

\* Two files, one glob, two listeners, two edits.
SPECIFICATION FairSpec
CONSTANTS
  Main = Main
  Boot = Boot
  Contexts = {x1, x2}
  NoCaller = NoCaller
  NoContext = NoContext
  Paths = {p, q}
  Contents = {a, bad}
  Malformed = {bad}
  Includes <- NoIncludes
  NoPath = NoPath
  NoContent = NoContent
  Configurations <- TwoFiles
  BadPattern = BadPattern
  Checksum <- DistinctSums
  NoEvent = NoEvent
  Failure = Failure
  NumListeners = 2
  MaxEdits = 2
  p = p
  q = q
  a = a
  b = b
  bad = bad
INVARIANTS TypeOK SerialIngest LocatorAgrees
PROPERTIES OnlyChangesDispatched EditsReachLocator ShutdownIsFinal
CHECK_DEADLOCK FALSE

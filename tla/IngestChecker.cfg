\* Two callers of Start and Stop, up to three goroutines alive at once.
SPECIFICATION FairSpec
CONSTANTS
  Callers = {c1, c2}
  Contexts = {x1, x2, x3}
  NoCaller = NoCaller
  NoContext = NoContext
INVARIANTS TypeOK NoOrphan TrustedCancelFunc
PROPERTIES StoppedReturns KeepsChecking

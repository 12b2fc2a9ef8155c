\* Does Stop halt the calls of Ingest?
SPECIFICATION Spec
CONSTANTS
  Callers = {c1, c2}
  Contexts = {x1, x2, x3}
  NoCaller = NoCaller
  NoContext = NoContext
PROPERTY StopHaltsIngest

\* Is every name accepted that the errors' texts allow?
SPECIFICATION Spec
CONSTANTS
  Records <- ZonedRecords
  DiscoveryDomain = 9
  MaxRecords = 2
INVARIANT DocumentedNamesAccepted
CHECK_DEADLOCK FALSE

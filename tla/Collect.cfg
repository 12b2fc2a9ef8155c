\* Records in any order, any of them more than once.
SPECIFICATION Spec
CONSTANTS
  Records <- AllRecords
  DiscoveryDomain = 9
  MaxRecords = 7
INVARIANTS TypeOK NamesMeetReference AddressesMeetReference BuiltNamesDocumented
CHECK_DEADLOCK FALSE

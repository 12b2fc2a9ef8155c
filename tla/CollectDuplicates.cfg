\* Are the addresses of an endpoint deduped?
SPECIFICATION Spec
CONSTANTS
  Records <- AddressRecords
  DiscoveryDomain = 9
  MaxRecords = 6
INVARIANT AddressesDeduped
CHECK_DEADLOCK FALSE

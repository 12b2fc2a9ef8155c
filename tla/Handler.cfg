\* Two requests at a time while the Locator is updated.
SPECIFICATION FairSpec
CONSTANTS
  Workers = {w1, w2}
  Updaters = {u1}
  Messages <- AllMessages
  NoMessage = NoMessage
  GroupsValues <- BeforeAndAfter
  NoGroups = NoGroups
  GroupsRequest = GroupsRequest
  NilEndpoint = NilEndpoint
  Nearest <- NearestChoice
INVARIANTS TypeOK PanicsAreKnown
PROPERTIES OneUpdatePerResponse EveryRequestEnds
\* A panic may end the process.
CHECK_DEADLOCK FALSE

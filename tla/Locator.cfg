\* Two updaters, two readers, Updates that add and drop groups.
SPECIFICATION FairSpec
CONSTANTS
  Updaters = {u1, u2}
  Readers = {r1, r2}
  GroupNames = {g1, g2}
  Endpoints = {e1, e2, e3}
  Objects <- MCObjects
  GroupsValues <- TwoGroupsValues
  NoGroups = NoGroups
  Finds <- AllFinds
  GroupsRequest = GroupsRequest
  Nearest <- NearestChoice
  NoRing = NoRing
  NoUpdater = NoUpdater
  g1 = g1
  g2 = g2
  e1 = e1
  e2 = e2
  e3 = e3
INVARIANTS TypeOK ReadersSeeOneUpdate
PROPERTIES Linearizable NobodyStarves

SPECIFICATION FairSpec
CONSTANTS
  Rank = {0, 1, 2}
  Parent <- MCChain
  c1 = c1
  c2 = c2
  c3 = c3
  Client = {c1, c2, c3}
  Placements <- MCPlacements
  NProcs = 3
  Faults = {"gone", "double"}
  MaxFault = 1
INVARIANTS CountedOnce CountMoves
PROPERTY KeepsPromise
CHECK_DEADLOCK FALSE

SPECIFICATION FairSpec
CONSTANTS
  rank1 = rank1
  rank2 = rank2
  reused = reused
  oneshot = oneshot
  request = request
  qty = qty
  Ranks = {rank1, rank2}
  Neighbors <- MCPairNeighbors
  SyncTo <- MCPairNeighbors
  SyncFrom <- MCPairNeighbors
  Updaters = {reused, oneshot}
  OneShot = {oneshot}
  Requests = {request}
  Fields = {qty}
  ProgramLength = 4
  Programs <- MCPrograms
  MaxBuffers = 8
INVARIANTS
  OnlyUnusedBuffersAreLost
  PendingBuffersHeld
  MatchedMessagesAgree
PROPERTIES
  ImplementsPromise
  SendBuffersFrozen
  EveryRankEnds

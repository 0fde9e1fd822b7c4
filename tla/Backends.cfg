SPECIFICATION BackendsSpec
CONSTANTS
  Names = {"send"}
  kMaxPending = 2
  kTurn = 1
  MaxFires = 6
  MaxRuns = 2
  MaxCalls = 3
INVARIANT QueueIsSound
INVARIANT LossIsAnnounced
PROPERTY EverythingIsCollected
CHECK_DEADLOCK FALSE

SPECIFICATION FairSpec
CONSTANTS
  feed = feed  out = out
  Addresses = {1, 2, 3, 4, 5, 6, 7, 8, 9, 10}
  MaxSets = 9
  Sizes = {1, 2}
  KSeenWithin = 2
  Patience = 1
  FramesInFlight = 2
  MaxCalls = 2
INVARIANTS
  DrawsAreSound
PROPERTIES
  FramesAreShown
  ProducersAreTold

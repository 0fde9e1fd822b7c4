\* Nobody stops the engine before it is up; the deadline of one caller may pass.
CONSTANTS
  Callers = {c1, c2}
  Loop = loop
  NoThread = none
  Hurried = {c2}
  StopBeforeUp = FALSE
SPECIFICATION FairSpec
PROPERTIES
  StartsAreSound
  StopEndsTheLoop
  NobodyIsStranded

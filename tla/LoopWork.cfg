\* Two callers contend for the loop.
CONSTANTS
  Callers = {c1, c2}
  Loop = loop
  NoThread = none
SPECIFICATION FairSpec
INVARIANTS
  TypeOK
  AnswersAreTrue
PROPERTIES
  ImplementsLoopCall
  CallersAreReleased

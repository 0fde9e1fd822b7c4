\* One application at a time, from its declaration to a few frames of its screen.
SPECIFICATION Spec
CONSTANTS
  Components <- MCComponents
  Made <- MCMade
  Spellings <- MCSpellings
  Works <- MCWorks
  Colours <- MCColours
  Paces <- MCPaces
  Keywords <- MCKeywords
  KPoolSize = 2
  Handed <- MCHanded
  MaxSteps = 3
  Cases <- MCCases
INVARIANTS
  LayoutsSayWhatTheyMean
  SidesAgree
\* A module that does not build and a screen nobody touches any more both stop.
CHECK_DEADLOCK FALSE

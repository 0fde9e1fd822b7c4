SPECIFICATION Spec
CONSTANTS
  Styles <- MCStyles
  Gestures <- MCGestures
  Texts <- MCTexts
  Offers <- MCOffers
  Clip <- MCClip
  kUndoSteps = 2
  kUndoBytes = 6
  kIndent = 1
  MaxLength = 5
  MaxSteps = 3
  MaxWrites = 1
INVARIANT FieldIsSound
INVARIANT UndoReachesTheStart
CHECK_DEADLOCK FALSE

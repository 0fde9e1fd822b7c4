\* Two rows fit, four may be there, and three were built: every edge of the
\* view over every edge of the table.
SPECIFICATION Spec
CONSTANTS
  MaxRows = 4
  Heights = {3}
  Pitch = 2
  ViewHeight = 4
  PoolSize = 3
  Wheel <- MCWheel
  MaxEdits = 3
INVARIANTS
  RowsAreTheTables
PROPERTIES
  RevealedIsInView
  FollowIsAMood

\* Two sizes and none, two changes of size and one of content of any kind:
\* resized there and back, minimised and restored, edited in any frame of it.
SPECIFICATION FairSpec
CONSTANTS
  Extents = {1, 2}
  Arrival = 2
  SurfaceTellsExtent = TRUE
  ListsFollow = TRUE
  MaxEdits = 1
  MaxResizes = 2
INVARIANTS
  TypeOK
  QuietMeansCurrent
PROPERTIES
  ShownThenStill

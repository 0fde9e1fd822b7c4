SPECIFICATION FairSpec
CONSTANTS
  count = count  gap = gap  zero = zero  one = one  wide = wide  bad = bad
  NoSignal = NoSignal  Broken = Broken  NoTree = NoTree
  Zero = zero
  Names <- MCNames
  Numbers <- MCNumbers
  Texts <- MCTexts
  Unsizable <- MCUnsizable
  Layouts <- MCLayouts
  Empty <- MCEmpty
  MaxBindings = 10
  MaxEdits = 2
  MaxToolWrites = 1
  MaxWrites = 1
  MaxOpens = 2
  DefineOnce = TRUE
INVARIANTS
  WidgetsAgree
  GraphAgrees
  SeenIsShown
PROPERTIES
  BrokenEditsCostNothing
  EverythingIsShown

SPECIFICATION Spec
CONSTANTS
  Workers = {"worker"}
  Addresses = {a1, a2}
  MaxBirths = 1
  MaxAsked = 3
SYMMETRY Alike
INVARIANT ReadsAreSound
INVARIANT CommandsReachTheirEntity
PROPERTY ImplementsTransactions

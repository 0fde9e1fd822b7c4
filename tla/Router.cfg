\* Three routes, two of them with a param; four things asked for, and one
\* layout that breaks or is put right.
SPECIFICATION FairRouterSpec
CONSTANTS
  Names = {home, list, product}
  First = home
  Unknown = unknown
  Params = {id}
  ParamsOf <- MCParamsOf
  Values = {0, 1}
  HistoryLoads = TRUE
  OpenOnce = TRUE
  MaxAsks = 4
  MaxBreaks = 1
  MaxOpens = 2
INVARIANTS
  RouterTypeOK
  ScreensAccountedFor
  HistoryIsTheUsers
PROPERTIES
  RoutesComeToRest
CHECK_DEADLOCK FALSE

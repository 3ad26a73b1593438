SPECIFICATION BcLiveSpec
CONSTANTS
  None = None
  c1 = c1
  c2 = c2
  Calls = {c1, c2}
  Slots = 1
  MaxRetries = 2
  MaxRestarts = 1
  PageSize = 2
  Items = {1, 2, 3}
  Listed = {2, 3}
  MaxChanges = 1
INVARIANTS BcTypeOK PermitsAccounted OnlyGatewaysRepeat PagesAreWhole RangeMissesNothing
PROPERTIES RefusedIsReplaced ListedOnce EveryCallReturns
CHECK_DEADLOCK FALSE

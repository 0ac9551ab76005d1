SPECIFICATION PagedSpec
CONSTANTS
  Caller = {"vmiss"}
  Product = {1, 2}
  Look = {"plain", "annual"}
  Offer = {"annual"}
  None = None
  MaxRevision = 3
  MaxEvents = 2
  Group = {1, 2, 3, 4}
  Sites <- Shops
  Answers <- Showing
  MaxGroups = 4
  Terms <- Slot
  Cooldown = 1
  MaxBackoff = 1
  Ordinary = 1
  RetryAfter = {0}
  MaxTime = 5
  MaxLimits = 1
INVARIANTS TraversalIsWhole EveryChangeHasItsKey
PROPERTIES RestocksAreSeen StockIsWitnessed BlockStands SilenceCoolsDown

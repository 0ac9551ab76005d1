SPECIFICATION Spec
CONSTANTS
  Sku = {1, 2}
  Store = {1, 2}
  Scope <- Category
  Configs <- Wanted
  Catalogues <- Shown
  None = None
  Window = 2
  Terms <- Slot
  Cooldown = 1
  MaxBackoff = 1
  Ordinary = 1
  RetryAfter = {0}
  MaxTime = 2
  MaxLimits = 1
  MaxQuirks = 1
INVARIANTS StoresTakeTurns
PROPERTIES RestocksAreHeard NewSkusAreAnnounced LaunchEnds

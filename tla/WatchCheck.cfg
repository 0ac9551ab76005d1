SPECIFICATION Spec
CONSTANTS
  Product = {1, 2}
  Look = {"plain"}
  Offer = {}
  None = None
  Page <- Pages
  Terms <- Slot
  Cooldown = 2
  MaxBackoff = 8
  Ordinary = 1
  RetryAfter = {0}
  Runs <- Both
  MaxRevision = 1
  MaxEvents = 2
  MaxTime = 1
  MaxLimits = 2
INVARIANTS OneMailPerEvent WorkIsOwned ReservationsAreSettled
PROPERTIES BatchIsDrained

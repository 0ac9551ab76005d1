SPECIFICATION Spec
CONSTANTS
  Item = Item
  Goods = Goods
  Cart = c1
  TheOrder = o1
  TheInvoice = i1
  TheQuote = q1
  None = None
  Fresh = 1
  MaxRuns = 2
  MaxCmds = 5
  MaxConn = 1
  MaxDoc = 1
  MaxTime = 0
  Goals = {"precheck", "smoke", "reconcile"}
INVARIANTS AnnouncedOnce
PROPERTIES AnswersAreAwaited RevokedNeverClicks RunEnds
CHECK_DEADLOCK FALSE

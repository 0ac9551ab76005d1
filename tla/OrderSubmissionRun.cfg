SPECIFICATION Spec
CONSTANTS
  Item = Item
  Goods = Goods
  Cart = c1
  TheOrder = o1
  TheInvoice = i1
  TheQuote = q1
  None = None
  Fresh = 1
  MaxRuns = 1
  MaxCmds = 4
  MaxConn = 2
  MaxDoc = 2
  MaxTime = 2
  Goals = {"precheck", "smoke"}
INVARIANTS EveryLayerRemembers SubmittingIsOwned
PROPERTIES ClickWithinPermit
CHECK_DEADLOCK FALSE

SPECIFICATION Spec
CONSTANTS
  Event = {1, 2, 3}
  Product = {"p", "q"}
  ProductOf <- Wares
  None = None
  Cart = Cart
  TheOrder = TheOrder
  Decimal = {1, 3}
  TheInvoice = TheInvoice
  TheQuote = TheQuote
  Hours = {1}
  Settings = {0}
  MaxTime = 1
  Command = {"arm", "reconcile"}
  MaxRuns = 2
INVARIANTS OneOrderPerArming AskedOncePerProduct FailedMeansUnasked EndedRunsLetGo StaysOnGraph
PROPERTIES AskedWithinHours
CHECK_DEADLOCK FALSE

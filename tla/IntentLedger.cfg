SPECIFICATION Spec
CONSTANTS
  host = host
  q1 = q1
  Event = {e1, e2}
  Product = {host}
  ProductOf <- OneProduct
  ProviderOf <- OneProvider
  Offered <- OfferOne
  CartId = {c1}
  OrderId = {o1, o2}
  InvoiceId = {i1}
  Nonce = {n1}
  PrecheckId = {p1}
  Quote = {q1, q2}
  None = None
  MaxTime = 1
  Fresh = 1
  AbsenceFresh = 1
INVARIANTS OrderStateAgreement PaymentIsProved FateIsTracked OneActivePerProduct
PROPERTIES SubmissionFactsKept ImplementsPermit
SYMMETRY Alike

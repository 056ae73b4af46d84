CONSTANTS
  p1 = p1
  p2 = p2
  w1 = w1
  w2 = w2
  r1 = r1
  r2 = r2
  A = A
  Invoices = {i1}
  Payments = {p1, p2}
  Workers = {w1, w2}
  Amounts = {1, 2}
  Totals = {0, 1, 3}
  Disciplines = {"invoice", "payment"}
  MaxFailures = 1
  Records = {r1, r2}
  Initially = {r1}
  Queries <- FilterFinds
  Calls = {w1, w2}
  NoRecord = NoRecord
  Tabs = {A}
  Tokens = {p1, p2}
  Fetches = {w1, w2}
  MaxLinks = 1
SPECIFICATION ErpSpec
INVARIANT ErpTypeOK
INVARIANT CreditIsSum
INVARIANT ListsLivePayments
INVARIANT StatusAgrees
INVARIANT RemovedTogether
INVARIANT ActsOnWhatIsShown
 
INVARIANT RefusalLeadsOut
PROPERTY NeverOverpaid
SYMMETRY Symmetric
CHECK_DEADLOCK FALSE

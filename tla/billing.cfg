CONSTANTS
  amina = amina
  noor = noor
  phone = phone
  tablet = tablet
  office = office
  basic = basic
  full = full
  NoPlan = NoPlan
  Parents = {amina}
  Schools = {noor}
  Screens = {phone, tablet, office}
  PayerOf <- MCPayerOf
  Plans = {basic, full}
  Years = 2
  MaxPayments = 3
  MaxFailures = 1
SPECIFICATION Spec
INVARIANT BillingTypeOK
INVARIANT SerialsWithoutGap
INVARIANT UninvoicedBounded
SYMMETRY Symmetric
CHECK_DEADLOCK FALSE

\* The owner opens a support session; two calls may be in flight.
CONSTANTS
  People = {own, par}
  PhoneOwners = {own}
  Calls = {c1, c2}
  MaxSupport = 1
  MaxStore = 1
SPECIFICATION PhoneSpec
PROPERTY OwnerStaysSignedIn
CHECK_DEADLOCK FALSE

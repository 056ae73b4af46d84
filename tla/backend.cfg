CONSTANTS
  w1 = w1
  w2 = w2
  amal = amal
  bilal = bilal
  warda = warda
  sami = sami
  t1 = t1
  t2 = t2
  Workers = {w1, w2}
  MaxFailures = 1
  Parents = {amal}
  Staff = {sami}
  TwoFactor = {}
  MaxCodes = 2
  MaxTokens = 2
  Newest = 1
  Families = {amal, bilal, warda}
  Registered = {bilal, warda}
  Rows = 2
  Phone <- MCPhone
  MaxStudents = 2
  LastDay = 5
  EndsOn = 1
  GraceDays = {1, 3}
  DefaultDays = 2
  NoPolicy = NoPolicy
  NoDate = NoDate
  Ticks = {t1, t2}
  Stops = 3
  Leg = 2
  x1 = x1
  x2 = x2
  l1 = l1
  mail1 = mail1
  mail2 = mail2
  silver = silver
  gold = gold
  Slugs = {x1, x2}
  Licenses = {l1}
  NoLicense = NoLicense
  Emails = {mail1, mail2}
  Clients = {x1, x2}
  Tiers = {silver, gold}
  Minima = {0, 2}
  Seed <- MCSeed
  NoTier = NoTier
  Unread = Unread
  own = own
  par = par
  c1 = c1
  c2 = c2
  People = {own, par}
  PhoneOwners = {own}
  Calls = {c1, c2}
  MaxSupport = 1
  MaxStore = 2
SPECIFICATION FairSpec
INVARIANT BackendTypeOK
INVARIANT UsedOnce
INVARIANT SerialsDense
INVARIANT CopiesBounded
INVARIANT StrandedBounded
INVARIANT FamilyBounded
INVARIANT StopsWhole
INVARIANT CutAfterGrace
INVARIANT RealPositionHolds
INVARIANT OrphansBounded
INVARIANT RestartKeepsUser
PROPERTY LapsedSchoolsAreCut
PROPERTY BusArrives
PROPERTY PartnerFindsTier
CHECK_DEADLOCK FALSE

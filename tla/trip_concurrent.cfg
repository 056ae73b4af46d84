\* Two overlapping requests on a bus with a morning and an evening trip.
CONSTANTS
  m = m
  e = e
  b = b
  s1 = s1
  s2 = s2
  u1 = u1
  u2 = u2
  w1 = w1
  w2 = w2
  w3 = w3
  NoOne = NoOne
  Trips = {m, e}
  Students = {s1}
  Buses = {b}
  Supervisors = {u1}
  AlertIds = {1}
  Workers = {w1, w2}
  BusOf <- MCBusOf
  Shift <- MCShift
  RosterBus <- MCRosterBus
  Ops = {"assign", "start", "board", "alight", "collected", "end", "gps-active"}
  MayFail = TRUE
SYMMETRY Symmetry
SPECIFICATION GpsSpec
INVARIANT TypeOK
INVARIANT StartedHasSupervisor
INVARIANT EveningAfterMorning
INVARIANT EndConfirmsSeen
INVARIANT DuplicatesBounded
INVARIANT TodayStatusAgrees
INVARIANT GpsFollowsTrips
PROPERTY JourneySpec

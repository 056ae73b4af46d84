\* A board that overlaps the end of the trip leaves a student on the bus.
CONSTANTS
  m = m
  e = e
  b = b
  s1 = s1
  s2 = s2
  u1 = u1
  u2 = u2
  w1 = w1
  w2 = w2
  w3 = w3
  NoOne = NoOne
  Trips = {m, e}
  Students = {s1}
  Buses = {b}
  Supervisors = {u1}
  AlertIds = {1}
  Workers = {w1, w2}
  BusOf <- MCBusOf
  Shift <- MCShift
  RosterBus <- MCRosterBus
  Ops = {"start", "board", "alight", "end"}
  MayFail = FALSE
SPECIFICATION GpsSpec
PROPERTY EndBlockedUntilExits

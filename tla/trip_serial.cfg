\* One request at a time, which may fail: two students, two supervisors.
CONSTANTS
  m = m
  e = e
  b = b
  s1 = s1
  s2 = s2
  u1 = u1
  u2 = u2
  w1 = w1
  w2 = w2
  w3 = w3
  NoOne = NoOne
  Trips = {m, e}
  Students = {s1, s2}
  Buses = {b}
  Supervisors = {u1, u2}
  AlertIds = {1}
  Workers = {w1}
  BusOf <- MCBusOf
  Shift <- MCShift
  RosterBus <- MCRosterBus
  Ops = {"assign", "start", "board", "manual-board", "alight", "not-collected", "collected", "end", "edit-bus", "gps-active"}
  MayFail = TRUE
SYMMETRY Symmetry
SPECIFICATION GpsSpec
PROPERTY ProtocolSpec

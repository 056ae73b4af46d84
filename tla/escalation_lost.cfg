\* Two students nobody collects, and no failures.
CONSTANTS
  m = m
  b = b
  s1 = s1
  s2 = s2
  u1 = u1
  w1 = w1
  w2 = w2
  NoOne = NoOne
  Trips = {m}
  Students = {s1, s2}
  Buses = {b}
  Supervisors = {u1}
  AlertIds = {1, 2, 3}
  Workers = {w1, w2}
  BusOf <- MCBusOf
  Shift <- MCShift
  RosterBus <- MCRosterBus
  Ops = {"alight", "not-collected", "collected"}
  MayFail = FALSE
  Deadline = 2
SPECIFICATION EscSpec
INVARIANT EscalationNamesStudent

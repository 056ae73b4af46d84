CONSTANTS
  Workers = {phone}
  MaxFailures = 0
  Ticks = {tick1}
  Stops = 3
  Leg = 2
SPECIFICATION TrackingSpec
INVARIANT SourcesNeverFight
CHECK_DEADLOCK FALSE

SPECIFICATION ClockSpec
CONSTANTS
  Cpus = {c1, c2}
  Half = 2
  Freq = 3
  Nsec = 4
  Hz = 1
  c1 = c1
  c2 = c2
  Times <- MCTimes
  Resets <- MCResets
  MaxTime = 4
  MaxCalls = 2
INVARIANTS
  TimeInCall
  RealtimeFollows
PROPERTIES
  TickSpacing
  TickServed
CHECK_DEADLOCK FALSE

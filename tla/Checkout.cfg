CONSTANTS
  None = None
  Presses = {p1, p2}
  Seats = {s1, s2}
  MaxPassengers = 2
  Providers = {"mock", "jazzcash"}
  Configured = {"jazzcash"}
  Outcomes = {"success", "failure"}
  Faults = TRUE
SPECIFICATION FairSpec
INVARIANTS TypeOK ArrivesSettled  BusyIsAwaited
PROPERTY BusyEnds

CONSTANTS
  c1 = c1
  c2 = c2
  c3 = c3
  b1 = b1
  b2 = b2
  b3 = b3
  s1 = s1
  s2 = s2
  s3 = s3
  k1 = k1
  k2 = k2
  None = None
  Sessions = {c1, c2}
  Bookings = {b1, b2, b3}
  Seats = {s1, s2}
  Schedules = {k1}
  Bookable = {k1}
  ScheduleOf <- TwoSeats
  MaxPassengers = 10
  Overlap = "other_booking"
  Sweeps = "apart"
  Faults = TRUE
  Redirects = FALSE
  Outcomes = {"success", "failure"}
  MaxCallbacks = 0
SPECIFICATION Spec
SYMMETRY Interchangeable
INVARIANTS NoDoubleBooking HoldsItsSeats ConfirmedIsPaid PaymentAgrees
PROPERTIES KeepsPromise BookedOnlyFromLocked
\* When every request is done the platform is idle: that is not a deadlock.
CHECK_DEADLOCK FALSE

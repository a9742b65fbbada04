\* Two overlapping runs of the job, two reservations, every window of the clock.
CONSTANTS
  Sales = {s1}
  Limit = 2
  CronRuns = {k1, k2}
  Reservations = {r1, r2}
  Quantities = {1, 2}
  Horizon = 3
SPECIFICATION FairSpec
INVARIANTS TypeOK ReservedIsWhatWasGranted StatusFollowsClock
PROPERTIES SalesNeverReopen ActiveSalesEnd

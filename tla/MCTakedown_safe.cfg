CONSTANTS
  Listings = {l1}
  Checkouts = {c1}
  ListingOf <- OneListing
  PayoutReady = {l1}
  Handlers = {h1}
  Admins = {a1}
  ManualTargets = {}
  MaxCrashes = 1
  NoEvent = NoEvent
  Actions = {m1, m2}
  Workers = {w1, w2}
  MaxAttempts = 2
  SlowWorkers = FALSE
  NoRow = NoRow
SPECIFICATION SagaSpec
CONSTRAINT OneAtATime
SYMMETRY Symmetry
INVARIANTS FinalizedIsSettled OneWorkerPerTask TakedownCoversOrders OrdersStillSound
PROPERTIES PromiseStillKept
CHECK_DEADLOCK FALSE

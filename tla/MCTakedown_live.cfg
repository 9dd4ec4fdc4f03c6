CONSTANTS
  Listings = {l1}
  Checkouts = {c1}
  ListingOf <- OneListing
  PayoutReady = {l1}
  Handlers = {h1}
  Admins = {}
  ManualTargets = {}
  MaxCrashes = 0
  NoEvent = NoEvent
  Actions = {m1}
  Workers = {w1, w2}
  MaxAttempts = 1
  SlowWorkers = FALSE
  NoRow = NoRow
SPECIFICATION FairSagaSpec
PROPERTIES SettledFinalizes ExhaustedNeedsAttention
CHECK_DEADLOCK FALSE

CONSTANTS
  Listings = {l1}
  Checkouts = {c1, c2}
  ListingOf <- OneListing
  PayoutReady = {l1}
  Handlers = {h1}
  Admins = {}
  ManualTargets = {}
  MaxCrashes = 0
  NoEvent = NoEvent
SPECIFICATION Spec
INVARIANT PaidIsOffTheMarket
CHECK_DEADLOCK FALSE

CONSTANTS
  Listings = {l1}
  Checkouts = {c1, c2}
  ListingOf <- OneListing
  PayoutReady = {l1}
  Handlers = {h1, h2}
  Admins = {}
  ManualTargets = {"active", "reserved", "sold"}
  MaxCrashes = 1
  NoEvent = NoEvent
SPECIFICATION Spec
SYMMETRY Symmetry
INVARIANTS SoleHolder HolderKeepsListing CapturedMoneyAccounted
PROPERTIES SoldLeavesBySeller
CHECK_DEADLOCK FALSE

CONSTANTS
  Listings = {l1}
  Checkouts = {c1, c2}
  ListingOf <- OneListing
  PayoutReady = {l1}
  Handlers = {h1}
  Admins = {}
  ManualTargets = {}
  MaxCrashes = 1
  NoEvent = NoEvent
SPECIFICATION FairSpec
PROPERTIES PaymentSettles LatePaymentReturned ReservationEnds
CHECK_DEADLOCK FALSE

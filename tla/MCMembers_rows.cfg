SPECIFICATION Spec
CONSTANTS
    u1 = u1
    u2 = u2
    o1 = o1
    o2 = o2
    v1 = v1
    v2 = v2
    d1 = d1
    Users = {u1, u2}
    Orders = {o1, o2}
    SellerOf <- Seller
    BuyerOf <- Buyer
    Reviews = {v1, v2}
    OrderOf <- Deal
    Reviewee <- OfFirst
    Onboardings = {r1, r2}
    Looks = {n1}
    Nobody = Nobody
    Requests = {r1, r2, r3}
    Links = {k1, k2, k3}
    MaxCodes = 2
    MaxAttempts = 2
    MaxFailed = 2
    NoLink = NoLink
    Devices = {d1}
    Callers = {r1, r2}
    DeviceOf <- OnDevice
    SignIns = {k1, k2}
    From <- FromDevice
    Resets = {w1}
    MaxTokens = 3
    MaxVersion = 1
    None = None
SYMMETRY Symmetry
CONSTRAINT Apart
INVARIANTS
    ProfileMatches
    PayoutsReachSeller
    GuessesBounded
    OneLiveLink
    SweepCovers
    ReuseExplained
PROPERTIES
    EndedStaysEnded
CHECK_DEADLOCK FALSE

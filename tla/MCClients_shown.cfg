SPECIFICATION Spec
CONSTANTS
    Convs = {c1, c2}
    NoConv = NoConv
    Slots = {q1, q2}
    MaxMessages = 3
    PageSize = 2
    Listings = {1, 2, 3, 4, 5}
    OnSaleAtFirst = {1, 2, 3}
    Filters = {"toys", "near"}
    Matching <- MCMatching
    Near = {"near"}
    Distance <- MCDistance
    ListingPage = 2
    Users = {u1, u2}
    NoUser = NoUser
    MaxPushes = 1
    Orders = {o1}
    NoOrder = NoOrder
    Calls = {q1, q2}
    MaxMoves = 6
SYMMETRY Symmetry
CONSTRAINT Bounds
INVARIANTS
    ReadWasShown
    GridWhole
    PushFollowsSignIn
    DeskTellsTruth
PROPERTIES
    ScreenCurrent
    PagingMoves
CHECK_DEADLOCK FALSE

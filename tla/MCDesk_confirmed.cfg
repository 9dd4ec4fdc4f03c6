SPECIFICATION DeskSpec
CONSTANTS
    Orders = {o1}
    NoOrder = NoOrder
    Calls = {q1}
    MaxMoves = 4
PROPERTY ConfirmedIsPaid
CHECK_DEADLOCK FALSE

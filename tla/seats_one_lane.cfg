SPECIFICATION Spec
CONSTANTS
    Emails = {a, b, c}
    Requests = {r}
    Ways = {"register", "login"}
    MaxUses = 2
    LastTime = 2
    MaxSeats = 4
SYMMETRY Symmetry
INVARIANTS SeatsCounted SeatsWithinUses OneSeatEach

\* A request is cancelled while it is paid out.
SPECIFICATION Spec
CONSTANTS
    r1 = r1
    r2 = r2
    r3 = r3
    r4 = r4
    u1 = u1
    u2 = u2
    u3 = u3
    a1 = a1
    a2 = a2
    c1 = c1
    c2 = c2
    w1 = w1
    w2 = w2
    Requests = {r1}
    Users = {u1}
    Owner <- Owners
    Amount <- SomeAmounts
    Funds <- OneUsersFunds
    Hashes <- Tx
    Actors = {a1, c1, w1}
    Workers = {w1}
    Checkers = {c1}
    Handlers = {"confirm", "approve", "admin_cancel"}
    TooSmall = {}
    Elsewhere = {}
    MaxNonce = 0
    MaxPrice = 1
    MaxQueued = 1
    MaxCrashes = 0
    Races = {"cancel"}
INVARIANTS CompleteFindsMoneyHeld

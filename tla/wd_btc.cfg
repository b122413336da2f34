\* A request on an EVM chain and two on Bitcoin; two administrators pay, a crash.
SPECIFICATION BtcFairSpec
CONSTANTS
    r1 = r1
    r2 = r2
    r3 = r3
    r4 = r4
    u1 = u1
    u2 = u2
    a1 = a1
    a2 = a2
    c1 = c1
    w1 = w1
    w2 = w2
    b1 = b1
    b2 = b2
    Requests = {r1, r2, r3}
    Users = {u1, u2}
    Owner <- Accounts
    Amount <- SomeAmounts
    Funds <- EitherCurrency
    Hashes <- Tx
    Actors = {a1, c1, w1}
    Workers = {w1}
    Checkers = {c1}
    Handlers = {"confirm", "expire", "approve", "admin_cancel"}
    TooSmall = {}
    Elsewhere = {r2, r3}
    MaxNonce = 0
    MaxPrice = 2
    MaxQueued = 1
    MaxCrashes = 1
    Races = {}
    Clerks = {b1, b2}
    KeeperFunds = 5
    WithdrawalFee = 1
    TransferFee = 1
    MaxCoins = 2
PROPERTIES AllPayoutsPromise BatchesSettle PayoutsSettle WithdrawTasksEnd

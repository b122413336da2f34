\* Two requests, two payout workers, two checkers, resends, a process that dies or a check that is lost.
\* Or one request, which may be too small to pay out, with every handler in two processes at a time.
SPECIFICATION Spec
CONSTANTS
    r1 = r1
    r2 = r2
    r3 = r3
    r4 = r4
    u1 = u1
    u2 = u2
    u3 = u3
    a1 = a1
    a2 = a2
    c1 = c1
    c2 = c2
    w1 = w1
    w2 = w2
    Requests = {r1, r2, r3, r4}
    Users = {u1, u2, u3}
    Owner <- Owners
    Amount <- SomeAmounts
    Funds <- OneUsersFunds
    Hashes <- Tx
    Actors = {a1, a2, c1, c2, w1, w2}
    Workers = {w1, w2}
    Checkers = {c1, c2}
    Handlers = {"confirm", "approve", "disable_approve", "admin_confirm", "unconfirm", "pause", "unpause",
                "disable_user", "cancel", "expire", "admin_cancel"}
    TooSmall = {r4}
    Elsewhere = {}
    MaxNonce = 1
    MaxPrice = 2
    MaxQueued = 1
    MaxCrashes = 1
    Races = {}
INVARIANTS StateMatchesMoney PendingIsFollowed
PROPERTIES PayoutPromise ReplacedByOwnResend
CONSTRAINT TwoOnTheirWay
SYMMETRY SameTasks

\* Two coin deposits of one wallet, one with a low score and one with a good one: two processes
\* scan, one of them dies, scans overlap; or an administrator forces, rechecks, reverts, blocks.
SPECIFICATION AboutSpec
CONSTANTS
    d1 = d1
    d2 = d2
    d3 = d3
    u1 = u1
    u2 = u2
    k1 = k1
    k2 = k2
    a1 = a1
    s1 = s1
    s2 = s2
    Deposits = {d1, d2}
    Copies = 2
    Wallets = {u1}
    Wallet <- TwoWallets
    Token = {}
    Amount <- Unequal
    Refused = {}
    UnderFee = {}
    Scored = {d1, d2}
    LowScore = {d2}
    Actors = {k1, k2}
    Depositors = {k1}
    Checkers = {k2}
    Admins = {k2}
    Scanners = {s1, s2}
    AdminOps = {"force", "revert", "recheck", "block", "unblock"}
    Races = {"crash"}
    ChainRaces = {"lock", "rescan", "overdue"}
    MaxTroubles = 1
    Failed = {}
    Delta = 3
    MaxBlocks = 2
    MaxNonce = 0
    MaxPrice = 0
INVARIANTS ScannedAreKept LowScoresStayOut
PROPERTIES LedgerPromise ArrivedAreEntered WaitingAreDecided
CONSTRAINT StaysWithIt
CHECK_DEADLOCK FALSE

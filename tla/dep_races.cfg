\* A coin that may not pay its gas and a token; late tasks, the dust collector, a crash.
SPECIFICATION AccumulationSpec
CONSTANTS
    d1 = d1
    d2 = d2
    d3 = d3
    u1 = u1
    u2 = u2
    k1 = k1
    k2 = k2
    a1 = a1
    s1 = s1
    s2 = s2
    m1 = m1
    m2 = m2
    Deposits = {d1, d3}
    Copies = 1
    Wallets = {u1, u2}
    Wallet <- TwoWallets
    Token = {d3}
    Amount <- OneEach
    Refused = {}
    UnderFee = {}
    Scored = {}
    LowScore = {}
    Actors = {k1}
    Depositors = {k1}
    Checkers = {k1}
    Admins = {}
    Scanners = {s1}
    AdminOps = {}
    Races = {"crash"}
    ChainRaces = {"overdue", "late", "sweep"}
    MaxTroubles = 1
    Failed = {}
    Delta = 4
    MaxBlocks = 3
    MaxNonce = 0
    MaxPrice = 1
    Accumulators = {m1}
    BelowGas = {d1}
    MaxGasTrouble = 0
INVARIANTS AccumulatedLeft OnlyCreditedMove
CHECK_DEADLOCK FALSE

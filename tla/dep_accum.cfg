\* Two tokens of one wallet, a limit on gas prices, gas transfers replaced.
SPECIFICATION AccumulationFairSpec
CONSTANTS
    d1 = d1
    d2 = d2
    d3 = d3
    u1 = u1
    u2 = u2
    k1 = k1
    k2 = k2
    a1 = a1
    s1 = s1
    s2 = s2
    m1 = m1
    m2 = m2
    Deposits = {d2, d3}
    Copies = 1
    Wallets = {u1, u2}
    Wallet <- TwoWallets
    Token = {d2, d3}
    Amount <- OneEach
    Refused = {}
    UnderFee = {}
    Scored = {}
    LowScore = {}
    Actors = {k1}
    Depositors = {k1}
    Checkers = {k1}
    Admins = {}
    Scanners = {s1}
    AdminOps = {}
    Races = {}
    ChainRaces = {}
    MaxTroubles = 1
    Failed = {}
    Delta = 7
    MaxBlocks = 6
    MaxNonce = 1
    MaxPrice = 2
    Accumulators = {m1}
    BelowGas = {}
    MaxGasTrouble = 1
INVARIANTS OneAtATime InProgressIsFollowed
PROPERTIES CreditedAreAccumulated
CHECK_DEADLOCK FALSE

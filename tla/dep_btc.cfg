\* Two deposits to one address, one of which the fee may take, or one and a scored one; an administrator, a crash.
SPECIFICATION AboutSpec
CONSTANTS
    d1 = d1
    d2 = d2
    d3 = d3
    u1 = u1
    u2 = u2
    s1 = s1
    a1 = a1
    Deposits = {d1, d2, d3}
    Copies = 1
    Wallets = {u1, u2}
    Wallet <- TwoWallets
    Token = {}
    Amount <- OneEach
    Refused = {}
    UnderFee = {}
    Scored = {d3}
    LowScore = {d3}
    Actors = {s1, a1}
    AdminOps = {"external", "force", "recheck", "revert", "block"}
    Races = {"crash"}
    MaxTroubles = 1
    Service = s1
    Admins = {a1}
    Small = {}
    BelowFee = {d2}
    Arrivals <- TwoOfThem
    MaxBlocks = 4
    BtcRaces = {}
INVARIANTS SettledWentOut
PROPERTIES LedgerPromise CreditedLeave
CONSTRAINT StaysWithIt
CHECK_DEADLOCK FALSE

\* Limit, stop-limit and external orders, cancels and a restart; whole prices.
SPECIFICATION SpecialSpec
CONSTANTS
    alice = alice
    bob = bob
    Users = {alice, bob}
    Bots = {}
    Prices = {2, 4}
    Quantities = {2, 4}
    MarketSells = {}
    Costs = {}
    Funds <- SpecialFunds
    FeeRate <- NoFees
    Scale = 2
    MinFee = 1
    Dust = 1
    MaxOrders = 3
    MaxQueue = 1
    MaxUpdates = 0
    MaxRestarts = 1
    MaxDuplicates = 0
    EarlyCancel = FALSE
    BusyRestart = FALSE
    Stops = {2}
    Otc = {bob}
    OtcPrices = {2}
    OtcLimit <- Limits
    MaxRepricings = 1
    SpecialRaces = {}
INVARIANTS InStackAreTracked StopsWaitForTheirPrice BookMirrorsDatabase
PROPERTIES PriceTimePriority FinalRowsStay

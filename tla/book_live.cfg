\* alice, a user, and bob, a bot, under fairness; a restart, and two messages delivered again.
SPECIFICATION FairSpec
CONSTANTS
    alice = alice
    bob = bob
    Users = {alice, bob}
    Bots = {bob}
    Prices = {2, 4}
    Quantities = {2, 4}
    MarketSells = {4}
    Costs = {}
    Funds <- BotFunds
    FeeRate <- SomeFees
    Scale = 2
    MinFee = 1
    Dust = 1
    MaxOrders = 2
    MaxQueue = 1
    MaxUpdates = 0
    MaxRestarts = 1
    MaxDuplicates = 1
    EarlyCancel = FALSE
    BusyRestart = FALSE
INVARIANTS MatchedOnce
PROPERTIES OpenOrdersGetBooked CancelsAreServed MarketOrdersEnd

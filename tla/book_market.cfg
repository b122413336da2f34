\* Market sells, and market buys of a given cost, against limit orders, with a restart,
\* and the reverting of up to two orders. A cost of 1 buys nothing at the price 4.
SPECIFICATION RevertSpec
CONSTANTS
    alice = alice
    bob = bob
    Users = {alice, bob}
    Bots = {}
    Prices = {2, 4}
    Quantities = {4}
    MarketSells = {2, 6}
    Costs = {1, 5}
    Funds <- MarketFunds
    FeeRate <- SomeFees
    Scale = 2
    MinFee = 1
    Dust = 1
    MaxOrders = 3
    MaxQueue = 1
    MaxUpdates = 0
    MaxRestarts = 1
    MaxDuplicates = 0
    EarlyCancel = FALSE
    BusyRestart = FALSE
    MaxReverts = 2
    RevertRaces = {}
INVARIANTS RevertInv HoldCovers RevertsUndo MarketSellsFill

\* Updates of price and quantity, with cancels; products of halves are rounded.
\* A market buy of cost 1 buys nothing at the price 3.
SPECIFICATION Spec
CONSTANTS
    alice = alice
    bob = bob
    Users = {alice, bob}
    Bots = {}
    Prices = {2, 3}
    Quantities = {2, 3}
    MarketSells = {}
    Costs = {1}
    Funds <- RoundFunds
    FeeRate <- NoFees
    Scale = 2
    MinFee = 1
    Dust = 1
    MaxOrders = 3
    MaxQueue = 1
    MaxUpdates = 1
    MaxRestarts = 0
    MaxDuplicates = 0
    EarlyCancel = FALSE
    BusyRestart = FALSE
INVARIANTS HoldCovers MemoryMirrorsDatabase BookUncrossed

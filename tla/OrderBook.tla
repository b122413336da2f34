------------------------------ MODULE OrderBook ------------------------------
(***************************************************************************)
(* One trading pair: the order rows and balances in the database, written  *)
(* by the web processes when an order is created and by the pair's stack   *)
(* worker when orders are matched, cancelled or updated; the AMQP queue    *)
(* orders.<PAIR> between them; and the worker's in-memory book.            *)
(*                                                                         *)
(* A database transaction is one step.  Matching an incoming order takes   *)
(* one step per matched resting order, because Order.execute commits once  *)
(* per match and the web processes run in between.                         *)
(*                                                                         *)
(* LIMIT and EXTERNAL orders are the rows with market = FALSE; MARKET and  *)
(* EXCHANGE orders those with market = TRUE (a market buy is the EXCHANGE  *)
(* order that spends a given cost).  The column amount_in_orders, which no *)
(* guard of this code reads, and notifications are left out.  Limit checks *)
(* are abstracted: Prices and Quantities are values that pass them.        *)
(***************************************************************************)
EXTENDS Money, Sequences, FiniteSets, FiniteSetsExt

CONSTANTS
    Users,         \* accounts that trade on the pair
    Bots,          \* those whose name is_bot_user matches
    Prices,        \* limit prices, in units
    Quantities,    \* quantities of a request, in units
    MarketSells,   \* quantities a market sell asks to sell, in units
    Costs,         \* quote amounts a market buy asks to spend, in units
    Funds,         \* initial balance of each user, per currency
    FeeRate,       \* Profile.get_fee_by_user, per user
    Dust,          \* MIN_COST_ORDER_CANCEL, in units
    MaxOrders,     \* bound: rows created in a behaviour
    MaxQueue,      \* bound: messages a request may find waiting
    MaxUpdates,    \* bound: update requests in a behaviour
    MaxRestarts,   \* bound: worker restarts in a behaviour
    MaxDuplicates, \* bound: messages delivered twice in a behaviour
    EarlyCancel,   \* may a request reach the queue before the order's own place_order
    BusyRestart    \* may the worker restart while place_order messages are pending

ASSUME OrderBookAssumption ==
    /\ Users # {} /\ Bots \subseteq Users
    /\ Prices \subseteq Nat \ {0}
    /\ Quantities \subseteq Nat \ {0}
    /\ MarketSells \subseteq Nat \ {0}
    /\ Costs \subseteq Nat \ {0}
    /\ Funds \in [Users -> [base : Nat, quote : Nat]]
    /\ FeeRate \in [Users -> Nat]
    /\ Dust \in Nat
    /\ MaxOrders \in Nat /\ MaxQueue \in Nat
    /\ MaxUpdates \in Nat /\ MaxRestarts \in Nat /\ MaxDuplicates \in Nat
    /\ EarlyCancel \in BOOLEAN /\ BusyRestart \in BOOLEAN

VARIABLES
    order,      \* database: the Order rows, by id
    amount,     \* database: Balance.amount, by user and currency
    matches,    \* database: (order, matched_order) of the ExecutionResult rows
    held,       \* ledger: what was taken for an order and neither returned nor spent
    fees,       \* ledger: sum of ExecutionResult.fee_amount, per currency
    voided,     \* ledger: orders a fill of which netted to nothing
    unsent,     \* web: rows committed whose place_order is not enqueued yet
    queue,      \* AMQP: orders.<PAIR>
    stack,      \* worker memory: the resting orders
    cur,        \* worker memory: the order being processed ("reprice" is SpecialOrders')
    boot,       \* worker memory: ids load_opened_orders still has to process
    onCancel,   \* cache: ids with a live stackoncancel-<id> key
    onPlace,    \* cache: ids with a live place_order-<id> key
    updates, restarts, duplicates   \* how often each happened

dbVars == <<order, amount, matches, held, fees, voided>>
counts == <<updates, restarts, duplicates>>
vars == <<dbVars, unsent, queue, stack, cur, boot, onCancel, onPlace, counts>>

OrderIds == 1 .. MaxOrders
Currencies == {"base", "quote"}

Row == [id : 0 .. MaxOrders, user : Users, op : {"BUY", "SELL"}, market : BOOLEAN,
        price : Nat, qty : Nat, left : Nat, cost : Nat,
        state : {"NONE", "OPENED", "CLOSED", "CANCELED", "REVERT"}]

NoRow == [id |-> 0, user |-> CHOOSE u \in Users : TRUE, op |-> "BUY", market |-> FALSE,
          price |-> 0, qty |-> 0, left |-> 0, cost |-> 0, state |-> "NONE"]

Message == [type : {"place", "cancel", "update", "market"}, row : Row]

Idle == [phase |-> "idle", obj |-> NoRow, todo |-> {}]

-----------------------------------------------------------------------------
(* Money held for an order.                                                *)

HeldIn(x) == IF x.op = "SELL" THEN "base" ELSE "quote"
GainedIn(x) == IF x.op = "SELL" THEN "quote" ELSE "base"
MarketBuy(x) == x.market /\ x.op = "BUY"

(* What cancelling an order gives back; also what creating it takes. *)
Refund(x) == IF x.op = "SELL" THEN x.left
             ELSE IF x.market THEN x.cost
             ELSE Value(x.left, x.price)

Only(c, n) == [k \in Currencies |-> IF k = c THEN n ELSE 0]

Credited(u, credit) == [amount EXCEPT ![u] = [c \in Currencies |-> @[c] + credit[c]]]

-----------------------------------------------------------------------------
(* The stack: a sorted list of order objects and a dict from id to object. *)
(* add replaces the dict's object but leaves an older one in the list, and *)
(* remove looks in the list for the key of the dict's object.              *)

NoEntry == [row |-> NoRow, key |-> 0]
InStack(st, o) == st[o] # NoEntry

(* A plausible bug: a stack keyed by the price alone. *)
AddedByPrice(st, x) ==
    [o \in OrderIds |->
        IF o = x.id THEN [row |-> x, key |-> x.price]
        ELSE IF st[o].row.op = x.op /\ st[o].row.price = x.price THEN NoEntry ELSE st[o]]

Added(st, x) ==
    [st EXCEPT ![x.id] = [row |-> IF InStack(st, x.id) THEN @.row ELSE x, key |-> x.price]]

(* A plausible bug: remove swallows an exception and removes nothing. *)
RemovedNothing(st, o) == st

Removed(st, o) == [st EXCEPT ![o] = IF @.key = @.row.price THEN NoEntry ELSE @]

SameBook(x, y) == (x.user \in Bots) = (y.user \in Bots)

(* Sort key of a stack: best price first, then the smaller id. *)
Before(x, y) ==
    \/ IF x.op = "SELL" THEN x.price < y.price ELSE x.price > y.price
    \/ x.price = y.price /\ x.id < y.id

(* A plausible bug: equal prices do not match. *)
PriceMatchStrictly(x, price) ==
    x.market \/ IF x.op = "SELL" THEN x.price < price ELSE x.price > price

PriceMatch(x, price) ==
    \/ x.market
    \/ IF x.op = "SELL" THEN x.price <= price ELSE x.price >= price

Offers(x, st) ==
    {o \in OrderIds : /\ InStack(st, o)
                      /\ st[o].row.op # x.op
                      /\ SameBook(x, st[o].row)
                      /\ PriceMatch(x, st[o].row.price)}

(* A market buy counts the cost of the offers, any other order their quantity. *)
Wanted(x) == IF MarketBuy(x) THEN x.cost * Scale ELSE x.left
Offered(x, st, S) ==
    SumFunction([o \in S |-> st[o].row.left * (IF MarketBuy(x) THEN st[o].row.price ELSE 1)])

(* matching_orders: the best offers, up to the one that covers the order. *)
Matching(x, st) ==
    {o \in Offers(x, st) :
        Offered(x, st, {n \in Offers(x, st) : Before(st[n].row, st[o].row)}) < Wanted(x)}

(* A plausible bug: a market order goes ahead when there is any offer. *)
FulfilledInPart(x, st) == Offers(x, st) # {}

Fulfilled(x, st) == Offered(x, st, Offers(x, st)) >= Wanted(x)

-----------------------------------------------------------------------------
(* One fill of quantity q at price p, seen from the order x.               *)

(* A plausible bug: a fill takes all the resting order has. *)
FillAll(x, r) == r.left

FillQuantity(x, r) ==
    IF MarketBuy(x)
    THEN IF x.cost * Scale >= r.price * r.left THEN r.left ELSE Bought(x.cost, r.price)
    ELSE Least(x.left, r.left)

Gross(x, q, p) == IF x.op = "BUY" THEN q ELSE Value(q, p)
FeeOf(x, q, p) == Fee(FeeRate[x.user], Gross(x, q, p))
Void(x, q, p) == Gross(x, q, p) = FeeOf(x, q, p)

(* get_vwap, the price a market order's row carries after the fill. *)
VwapOf(x, q, p) ==
    LET filled == IF x.op = "BUY" THEN x.qty + q ELSE x.qty
        prior  == IF x.price = 0 \/ filled = 0 THEN 0 ELSE filled
    IN  IF q + prior = 0 THEN 0
        ELSE Bought(Value(q, p) + Value(prior, x.price), q + prior)

(* get_vwap divides by zero, or save refuses the price it returns. *)
VwapFails(x, q, p) ==
    /\ x.market
    /\ \/ q = 0 /\ (x.price = 0 \/ x.qty = 0)
       \/ ~Void(x, q, p) /\ VwapOf(x, q, p) = 0

(* The order object after the fill; a void fill returns before the state is set. *)
Filled(x, q, p) ==
    LET left  == IF MarketBuy(x) THEN 0 ELSE x.left - q
    IN  [x EXCEPT
            !.left  = left,
            !.cost  = IF MarketBuy(x) THEN @ - Value(q, p) ELSE @,
            !.qty   = IF MarketBuy(x) THEN @ + q ELSE @,
            !.price = IF x.market THEN VwapOf(x, q, p) ELSE @,
            !.state = IF left = 0 /\ ~Void(x, q, p) THEN "CLOSED" ELSE @]

(* The price improvement a limit buy gets back. *)
Cacheback(x, q, p) ==
    IF x.op = "BUY" /\ ~x.market THEN Value(q, x.price - p) ELSE 0

(* On a void fill the cancel_order task is called in place: it re-reads the row. *)
VoidCancels(x, q, p) ==
    /\ Void(x, q, p)
    /\ x.id \notin onCancel
    /\ order[x.id].state = "OPENED"

VoidRefund(x, q, p) == IF VoidCancels(x, q, p) THEN Refund(order[x.id]) ELSE 0

Saved(x, q, p) ==
    IF ~Void(x, q, p) THEN Filled(x, q, p)
    ELSE IF VoidCancels(x, q, p) THEN [order[x.id] EXCEPT !.state = "CANCELED"]
    ELSE order[x.id]

Credit(x, q, p) ==
    [c \in Currencies |->
        (IF c = GainedIn(x) /\ ~Void(x, q, p) THEN Abs(Gross(x, q, p) - FeeOf(x, q, p)) ELSE 0)
        + (IF c = HeldIn(x) THEN Cacheback(x, q, p) + VoidRefund(x, q, p) ELSE 0)]

(* What leaves the money held for x: a void fill leaves no ExecutionResult. *)
Released(x, q, p) ==
    Cacheback(x, q, p)
    + (IF Void(x, q, p) THEN VoidRefund(x, q, p)
       ELSE IF x.op = "SELL" THEN q ELSE Value(q, p))

(* A sell left with less than MIN_COST_ORDER_CANCEL is cancelled after a fill. *)
IsDust(x) == x.op = "SELL" /\ x.left * x.price < Dust * Scale
DustCancels(x) == IsDust(x) /\ x.state = "OPENED"
DustRefund(x) == IF DustCancels(x) THEN x.left ELSE 0

-----------------------------------------------------------------------------
(* Web processes.                                                          *)

Free(o) == order[o].state = "NONE" /\ \A n \in 1 .. (o - 1) : order[n].state # "NONE"

(* Bound: the rows there are and those that waiting market requests will need. *)
Room == Cardinality({o \in OrderIds : order[o].state # "NONE"})
        + Cardinality({i \in 1 .. Len(queue) : queue[i].type = "market"}) < MaxOrders

(* create_order: one transaction takes the hold and inserts the row. *)
CreateRow(x) ==
    /\ amount[x.user][HeldIn(x)] >= Refund(x)
    /\ amount' = Credited(x.user, Only(HeldIn(x), -Refund(x)))
    /\ order' = [order EXCEPT ![x.id] = x]
    /\ held' = [held EXCEPT ![x.id] = Refund(x)]
    /\ UNCHANGED <<matches, fees, voided>>

CreateOrder ==
    \E u \in Users, op \in {"BUY", "SELL"}, p \in Prices, q \in Quantities, o \in OrderIds :
        LET x == [id |-> o, user |-> u, op |-> op, market |-> FALSE, price |-> p,
                  qty |-> q, left |-> q, cost |-> 0, state |-> "OPENED"]
        IN  /\ Room /\ Free(o)
            /\ CreateRow(x)
            /\ unsent' = unsent \cup {x}
            /\ UNCHANGED <<queue, stack, cur, boot, onCancel, onPlace, counts>>

Enqueued(type, x) == queue' = Append(queue, [type |-> type, row |-> x])

(* After the commit, the row as it was saved is sent to the worker. *)
SendPlaceOrder ==
    \E x \in unsent :
        /\ Enqueued("place", x)
        /\ unsent' = unsent \ {x}
        /\ UNCHANGED <<dbVars, stack, cur, boot, onCancel, onPlace, counts>>

CanRequest(o) ==
    /\ order[o].state = "OPENED"
    /\ Len(queue) < MaxQueue
    /\ EarlyCancel \/ \A x \in unsent : x.id # o

(* Order.delete; only an administrator may ask it of a market order. *)
RequestCancel ==
    \E o \in OrderIds :
        /\ CanRequest(o)
        /\ Enqueued("cancel", [NoRow EXCEPT !.id = o])
        /\ UNCHANGED <<dbVars, unsent, stack, cur, boot, onCancel, onPlace, counts>>

(* Order.update_order, after the view's check against the executed quantity. *)
RequestUpdate ==
    \E o \in OrderIds, p \in Prices, q \in Quantities :
        /\ CanRequest(o)
        /\ ~order[o].market
        /\ q > order[o].qty - order[o].left
        /\ updates < MaxUpdates
        /\ updates' = updates + 1
        /\ Enqueued("update", [NoRow EXCEPT !.id = o, !.price = p, !.qty = q])
        /\ UNCHANGED <<dbVars, unsent, stack, cur, boot, onCancel, onPlace, restarts, duplicates>>

(* A market sell names its quantity, a market buy the cost to spend. *)
RequestMarket ==
    /\ Len(queue) < MaxQueue
    /\ Room
    /\ \E u \in Users :
        \/ \E q \in MarketSells :
              Enqueued("market", [NoRow EXCEPT !.user = u, !.op = "SELL", !.qty = q])
        \/ \E c \in Costs :
              Enqueued("market", [NoRow EXCEPT !.user = u, !.op = "BUY", !.cost = c])
    /\ UNCHANGED <<dbVars, unsent, stack, cur, boot, onCancel, onPlace, counts>>

-----------------------------------------------------------------------------
(* The stack worker.                                                       *)

(* OrderProcessor.process of a limit order x, on the stacks st.  The id is *)
(* looked up in the stack of the opposite operation.                       *)
Process(x, st) ==
    IF x.state # "OPENED" \/ (InStack(st, x.id) /\ st[x.id].row.op # x.op)
    THEN stack' = st /\ cur' = Idle
    ELSE IF Offers(x, st) = {}
    THEN stack' = Added(st, x) /\ cur' = Idle
    ELSE /\ stack' = st
         /\ cur' = [phase |-> "match", obj |-> x, todo |-> Matching(x, st)]

(* cancel_order of the object x, whose row is state OPENED in memory. *)
CancelRow(x) ==
    /\ order' = [order EXCEPT ![x.id] = [x EXCEPT !.state = "CANCELED"]]
    /\ amount' = Credited(x.user, Only(HeldIn(x), Refund(x)))
    /\ held' = [held EXCEPT ![x.id] = @ - Refund(x)]
    /\ UNCHANGED <<matches, fees, voided>>

Take(type) ==
    /\ cur = Idle
    /\ boot = {}
    /\ queue # <<>>
    /\ Head(queue).type = type
    /\ queue' = Tail(queue)
    /\ UNCHANGED <<unsent, boot, counts>>

(* A plausible bug: place_order processes an order it was given before. *)
PlaceOrderAgain ==
    /\ Take("place")
    /\ Process(Head(queue).row, stack)
    /\ UNCHANGED <<dbVars, onCancel, onPlace>>

(* StackProcessor.place_order ignores an order it was given before.  Its key *)
(* lives for _place_order_delay seconds: a redelivery comes sooner than that. *)
PlaceOrderTask ==
    /\ Take("place")
    /\ LET x == Head(queue).row
       IN  /\ IF x.id \in onPlace THEN UNCHANGED <<stack, cur>> ELSE Process(x, stack)
           /\ onPlace' = onPlace \cup {x.id}
    /\ UNCHANGED <<dbVars, onCancel>>

CancelOrderTask ==
    /\ Take("cancel")
    /\ LET x == order[Head(queue).row.id]
       IN  IF x.id \in onCancel
           THEN UNCHANGED <<dbVars, stack, onCancel>>
           ELSE /\ stack' = Removed(stack, x.id)
                /\ onCancel' = onCancel \cup {x.id}
                /\ IF x.state = "OPENED" THEN CancelRow(x) ELSE UNCHANGED dbVars
    /\ UNCHANGED <<cur, onPlace>>

(* The row _update_order writes for the request m, and what it charges. *)
Updated(x, m) == [x EXCEPT !.price = m.price, !.qty = m.qty, !.left = m.qty - (x.qty - x.left)]
Charge(x, y) == IF x.op = "SELL" THEN y.qty - x.qty ELSE Refund(y) - Refund(x)

UpdateRefused(x, y) ==
    \/ x.state # "OPENED" \/ x.market
    \/ y # x /\ (y.left <= 0 \/ amount[x.user][HeldIn(x)] < Charge(x, y))

(* StackProcessor.update_order: the order leaves the stack before            *)
(* _update_order, which may raise; it is processed again if it was found in  *)
(* the stacks of ordinary users.                                             *)
UpdateOrderTask ==
    /\ Take("update")
    /\ LET m == Head(queue).row
           x == order[m.id]
           y == Updated(x, m)
           found == InStack(stack, x.id) /\ x.user \notin Bots
           st == IF found THEN Removed(stack, x.id) ELSE stack
       IN  IF UpdateRefused(x, y)
           THEN /\ stack' = st
                /\ UNCHANGED <<dbVars, cur>>
           ELSE /\ order' = [order EXCEPT ![x.id] = y]
                /\ amount' = Credited(x.user, Only(HeldIn(x), -Charge(x, y)))
                /\ held' = [held EXCEPT ![x.id] = @ + Charge(x, y)]
                /\ UNCHANGED <<matches, fees, voided>>
                /\ IF found THEN Process(y, st) ELSE UNCHANGED <<stack, cur>>
    /\ UNCHANGED <<onCancel, onPlace>>

(* create_market_order; the task fails when the funds are missing. *)
MarketOrderTask ==
    /\ Take("market")
    /\ \E o \in OrderIds :
        LET m == Head(queue).row
            x == [m EXCEPT !.id = o, !.market = TRUE, !.left = m.qty, !.state = "OPENED"]
        IN  /\ Free(o)
            /\ IF amount[x.user][HeldIn(x)] < Refund(x)
               THEN UNCHANGED <<dbVars, cur>>
               ELSE CreateRow(x) /\ cur' = [phase |-> "market", obj |-> x, todo |-> {}]
    /\ UNCHANGED <<stack, onCancel, onPlace>>

(* market_execute: all or nothing. *)
MarketExecute ==
    /\ cur.phase = "market"
    /\ IF Fulfilled(cur.obj, stack)
       THEN /\ cur' = [cur EXCEPT !.phase = "match", !.todo = Matching(cur.obj, stack)]
            /\ UNCHANGED dbVars
       ELSE /\ CancelRow(cur.obj)
            /\ cur' = Idle
    /\ UNCHANGED <<unsent, queue, stack, boot, onCancel, onPlace, counts>>

(* A plausible bug: the oldest of the orders to match comes first. *)
BestIsOldest(r) == r \in cur.todo /\ \A n \in cur.todo : r <= n

(* The resting order to match next. *)
Best(r) == r \in cur.todo /\ \A n \in cur.todo \ {r} : Before(stack[r].row, stack[n].row)

(* Order.execute raises: nothing is committed and the task is over. *)
ExecuteFails(x, y, q) ==
    \/ VwapFails(x, q, y.price)
    \/ <<x.id, y.id>> \in matches /\ ~Void(x, q, y.price)
    \/ <<y.id, x.id>> \in matches /\ ~Void(y, q, y.price)

(* Order.execute of cur.obj with the resting order r, and what                *)
(* execute_order_with_matched does after it.                                 *)
Execute(r) ==
    LET x == cur.obj
        y == stack[r].row
        p == y.price
        q == FillQuantity(x, y)
        x1 == Filled(x, q, p)
        y1 == Filled(y, q, p)
        gone == y1.state = "CLOSED" \/ VoidCancels(y, q, p) \/ DustCancels(y1)
        net(z) == IF Void(z, q, p) THEN {} ELSE {z.id}
    IN  /\ ~ExecuteFails(x, y, q)
        /\ order' = [order EXCEPT
                ![x.id] = Saved(x, q, p),
                ![r] = IF DustCancels(y1) THEN [y1 EXCEPT !.state = "CANCELED"]
                       ELSE Saved(y, q, p)]
        /\ amount' = [u \in Users |-> [c \in Currencies |->
                amount[u][c]
                + (IF u = x.user THEN Credit(x, q, p)[c] ELSE 0)
                + (IF u = y.user THEN Credit(y, q, p)[c] + Only("base", DustRefund(y1))[c]
                   ELSE 0)]]
        /\ held' = [held EXCEPT
                ![x.id] = @ - Released(x, q, p),
                ![r] = @ - Released(y, q, p) - DustRefund(y1)]
        /\ matches' = matches \cup (net(x) \X {r}) \cup (net(y) \X {x.id})
        /\ fees' = [c \in Currencies |->
                fees[c]
                + (IF c = GainedIn(x) /\ ~Void(x, q, p) THEN FeeOf(x, q, p) ELSE 0)
                + (IF c = GainedIn(y) /\ ~Void(y, q, p) THEN FeeOf(y, q, p) ELSE 0)]
        /\ voided' = voided \cup {z \in {x.id, r} :
                Void(IF z = r THEN y ELSE x, q, p)}
        /\ stack' = LET st == IF VoidCancels(x, q, p) THEN Removed(stack, x.id) ELSE stack
                    IN  IF gone THEN Removed([st EXCEPT ![r].row = y1], r)
                        ELSE [st EXCEPT ![r].row = y1]
        /\ onCancel' = onCancel \cup {z \in {x.id, r} :
                Void(IF z = r THEN y ELSE x, q, p)}
        /\ cur' = [cur EXCEPT !.obj = x1, !.todo = @ \ {r}]

Match ==
    /\ cur.phase = "match"
    /\ \E r \in OrderIds : Best(r) /\ Execute(r)
    /\ UNCHANGED <<unsent, queue, boot, onPlace, counts>>

(* Order.execute raised.  Objects keep what was changed before: the second   *)
(* _execute had already lowered the resting object's quantity.  The loop of  *)
(* load_opened_orders, or of otc_bulk_update, ends with it.                  *)
MatchFails ==
    /\ cur.phase = "match"
    /\ \E r \in OrderIds :
        LET x == cur.obj
            y == stack[r].row
            p == y.price
            q == FillQuantity(x, y)
            first == VwapFails(x, q, p) \/ (<<x.id, r>> \in matches /\ ~Void(x, q, p))
            st == IF VoidCancels(x, q, p) THEN Removed(stack, x.id) ELSE stack
        IN  /\ Best(r)
            /\ ExecuteFails(x, y, q)
            /\ stack' = IF first THEN stack ELSE [st EXCEPT ![r].row.left = @ - q]
            /\ onCancel' = IF ~first /\ Void(x, q, p) THEN onCancel \cup {x.id} ELSE onCancel
    /\ cur' = Idle /\ boot' = {}
    /\ UNCHANGED <<dbVars, unsent, queue, onPlace, counts>>

(* A plausible bug: close_market returns the cost and leaves it in the row. *)
CloseMarketKeepsCost(x) ==
    /\ order' = [order EXCEPT ![x.id] = [x EXCEPT !.state = "CLOSED"]]
    /\ amount' = Credited(x.user, Only("quote", x.cost))
    /\ held' = [held EXCEPT ![x.id] = @ - x.cost]
    /\ UNCHANGED <<matches, fees, voided>>

(* close_market: the cost that bought nothing goes back.  It raises when the *)
(* order has no ExecutionResult.                                             *)
CloseMarket(x) ==
    IF \E m \in matches : m[1] = x.id
    THEN /\ order' = [order EXCEPT ![x.id] = [x EXCEPT !.state = "CLOSED", !.cost = 0]]
         /\ amount' = Credited(x.user, Only("quote", x.cost))
         /\ held' = [held EXCEPT ![x.id] = @ - x.cost]
         /\ UNCHANGED <<matches, fees, voided>>
    ELSE UNCHANGED dbVars

(* Every match is made: cancel the dust, or add the rest to the book, or   *)
(* close the market buy.  (A market sell has nothing left here: that is    *)
(* MarketSellsFill, so market_execute's add_to_book is never reached.)     *)
Finish ==
    /\ cur.phase = "match"
    /\ cur.todo = {}
    /\ LET x == cur.obj
       IN  \/ /\ IsDust(x)
              /\ stack' = IF x.market THEN stack ELSE Removed(stack, x.id)
              /\ IF x.state = "OPENED" THEN CancelRow(x) ELSE UNCHANGED dbVars
           \/ /\ ~IsDust(x) /\ ~x.market
              /\ stack' = IF x.state = "OPENED" THEN Added(stack, x) ELSE stack
              /\ UNCHANGED dbVars
           \/ /\ ~IsDust(x) /\ x.market
              /\ IF x.cost > 0 THEN CloseMarket(x) ELSE UNCHANGED dbVars
              /\ UNCHANGED stack
    /\ cur' = Idle
    /\ UNCHANGED <<unsent, queue, boot, onCancel, onPlace, counts>>

(* A plausible bug: the queue is purged when the worker starts. *)
RestartPurges ==
    /\ restarts < MaxRestarts
    /\ BusyRestart \/ (unsent = {} /\ \A i \in 1 .. Len(queue) : queue[i].type # "place")
    /\ restarts' = restarts + 1
    /\ stack' = [o \in OrderIds |-> NoEntry]
    /\ cur' = Idle
    /\ boot' = {o \in OrderIds : order[o].state = "OPENED" /\ order[o].left > 0}
    /\ queue' = <<>>
    /\ UNCHANGED <<dbVars, unsent, onCancel, onPlace, updates, duplicates>>

(* The worker dies and starts again.  A task is acknowledged when it starts, *)
(* so the one in progress is gone and those waiting are delivered again.     *)
Restart ==
    /\ restarts < MaxRestarts
    /\ BusyRestart \/ (unsent = {} /\ \A i \in 1 .. Len(queue) : queue[i].type # "place")
    /\ restarts' = restarts + 1
    /\ stack' = [o \in OrderIds |-> NoEntry]
    /\ cur' = Idle
    /\ boot' = {o \in OrderIds : order[o].state = "OPENED" /\ order[o].left > 0}
    /\ UNCHANGED <<dbVars, unsent, queue, onCancel, onPlace, updates, duplicates>>

(* load_opened_orders: open orders are processed, oldest first, before any task. *)
LoadOpenedOrder ==
    /\ cur = Idle
    /\ \E o \in boot :
        /\ \A n \in boot : o <= n
        /\ boot' = boot \ {o}
        /\ IF order[o].market
           THEN /\ cur' = [phase |-> "market", obj |-> order[o], todo |-> {}]
                /\ UNCHANGED stack
           ELSE Process(order[o], stack)
    /\ UNCHANGED <<dbVars, unsent, queue, onCancel, onPlace, counts>>

(* A lost acknowledgement: the broker delivers the oldest message again, at  *)
(* once or after those that wait.                                            *)
Redeliver ==
    /\ duplicates < MaxDuplicates
    /\ queue # <<>>
    /\ Head(queue).type = "market" => Room
    /\ queue' \in {<<Head(queue)>> \o queue, Append(queue, Head(queue))}
    /\ duplicates' = duplicates + 1
    /\ UNCHANGED <<dbVars, unsent, stack, cur, boot, onCancel, onPlace, updates, restarts>>

(* The stackoncancel key lives 60 seconds; it is let expire when it is to be read. *)
CancelKeyExpires ==
    /\ queue # <<>> /\ Head(queue).type = "cancel" /\ Head(queue).row.id \in onCancel
    /\ onCancel' = onCancel \ {Head(queue).row.id}
    /\ UNCHANGED <<dbVars, unsent, queue, stack, cur, boot, onPlace, counts>>

-----------------------------------------------------------------------------
Init ==
    /\ order = [o \in OrderIds |-> NoRow]
    /\ amount = Funds
    /\ matches = {} /\ voided = {}
    /\ held = [o \in OrderIds |-> 0]
    /\ fees = Only("base", 0)
    /\ unsent = {} /\ queue = <<>>
    /\ stack = [o \in OrderIds |-> NoEntry]
    /\ cur = Idle /\ boot = {} /\ onCancel = {} /\ onPlace = {}
    /\ updates = 0 /\ restarts = 0 /\ duplicates = 0

Web == CreateOrder \/ RequestCancel \/ RequestUpdate \/ RequestMarket

Worker ==
    \/ PlaceOrderTask \/ CancelOrderTask \/ UpdateOrderTask
    \/ MarketOrderTask \/ MarketExecute
    \/ Match \/ MatchFails \/ Finish
    \/ LoadOpenedOrder

(* Nothing is waiting: the exchange rests. *)
Quiescent ==
    /\ cur = Idle /\ boot = {} /\ queue = <<>> /\ unsent = {}
    /\ UNCHANGED vars

Next ==
    \/ Web \/ SendPlaceOrder \/ Worker
    \/ Restart \/ Redeliver \/ CancelKeyExpires
    \/ Quiescent

Spec == Init /\ [][Next]_vars

(* The web process that committed an order goes on to send it, and the     *)
(* worker goes on with its tasks.                                          *)
FairSpec == Spec /\ WF_vars(SendPlaceOrder) /\ WF_vars(Worker)

-----------------------------------------------------------------------------
(* Properties.                                                             *)

(* Every variable has the type its column or object has in the code; in    *)
(* particular no balance, quantity or price is ever negative.              *)
TypeOK ==
    /\ order \in [OrderIds -> Row]
    /\ amount \in [Users -> [Currencies -> Nat]]
    /\ matches \subseteq OrderIds \X OrderIds
    /\ held \in [OrderIds -> Int]
    /\ fees \in [Currencies -> Int]
    /\ voided \subseteq OrderIds
    /\ unsent \subseteq Row
    /\ queue \in Seq(Message)
    /\ stack \in [OrderIds -> [row : Row, key : Nat]]
    /\ cur \in [phase : {"idle", "market", "match", "reprice"}, obj : Row, todo : SUBSET OrderIds]
    /\ boot \subseteq OrderIds
    /\ onCancel \subseteq OrderIds /\ onPlace \subseteq OrderIds
    /\ updates \in Nat /\ restarts \in Nat /\ duplicates \in Nat

(* What a row entitles its owner to get back: an open order its unfilled   *)
(* part, a market buy also the cost it has not spent when it is CLOSED.    *)
Claim(x) ==
    IF x.state = "OPENED" \/ (MarketBuy(x) /\ x.state = "CLOSED") THEN Refund(x) ELSE 0

(* The money taken for an order and still held always covers what can be   *)
(* returned for it, after any sequence of partial fills, cachebacks,       *)
(* updates and restarts: rounding down in execute, transaction and         *)
(* _update_order never favours the owner.                                  *)
HoldCovers == \A o \in OrderIds \ voided : held[o] >= Claim(order[o])

(* Orders whose object a void fill lets differ from their row: those it    *)
(* happened to, and those that were matched with them, because execute may *)
(* raise when the two meet again.                                          *)
Disturbed == voided \cup {m[1] : m \in {n \in matches : n[2] \in voided}}

(* What the worker matches with is what the database holds: every object   *)
(* in the stacks and the object being processed equal their row, and only  *)
(* open orders rest.                                                       *)
MemoryMirrorsDatabase ==
    /\ \A o \in OrderIds \ Disturbed : InStack(stack, o) =>
          stack[o].row = order[o] /\ order[o].state = "OPENED"
    /\ cur.phase \in {"market", "match"} /\ cur.obj.id \notin voided => cur.obj = order[cur.obj.id]

(* Between tasks no resting buy meets a resting sell of the same book:     *)
(* process and update_order leave nothing that could have been executed.   *)
(* An order left by a void fill may stay with nothing to execute.          *)
BookUncrossed ==
    cur = Idle =>
        \A b, s \in OrderIds \ voided :
            /\ InStack(stack, b) /\ stack[b].row.op = "BUY"
            /\ InStack(stack, s) /\ stack[s].row.op = "SELL"
            /\ SameBook(stack[b].row, stack[s].row)
            => stack[b].row.price < stack[s].row.price

(* A market sell that went ahead because the book could take all of it has *)
(* nothing left once its matches are made.                                 *)
MarketSellsFill ==
    cur.phase = "match" /\ cur.todo = {} /\ cur.obj.market /\ cur.obj.op = "SELL"
        => cur.obj.left = 0

(* Two orders are matched at most once, so ExecutionResult's unique_together *)
(* never makes execute raise in the middle of an incoming order; unless a    *)
(* fill of one of them was void and left no ExecutionResult.                 *)
MatchedOnce ==
    cur.phase = "match" =>
        \A r \in cur.todo : {r, cur.obj.id} \cap voided = {} =>
            <<cur.obj.id, r>> \notin matches /\ <<r, cur.obj.id>> \notin matches

(* A cancelled order, or a limit order that is closed, is never touched    *)
(* again: no late task, stale object or restart fills or refunds it; but   *)
(* after a void fill the object goes on being filled.                      *)
FinalRowsStay ==
    [][\A o \in OrderIds \ voided :
        order[o].state = "CANCELED" \/ (order[o].state = "CLOSED" /\ ~order[o].market)
            => order'[o] = order[o]]_vars

(* A resting order is filled only while no order of its side of the book   *)
(* has a better price, or the same price and a smaller id; but an order    *)
(* that had a void fill may rest with nothing left.                        *)
PriceTimePriority ==
    [][\A o \in OrderIds, n \in OrderIds \ voided :
        /\ cur.phase = "match" /\ InStack(stack, o) /\ InStack(stack, n)
        /\ stack[o].row.op = stack[n].row.op /\ SameBook(stack[o].row, stack[n].row)
        /\ order'[o].left # order[o].left
        => ~Before(stack[n].row, stack[o].row)]_vars

(* An open limit order does not stay out of the book for ever.             *)
OpenOrdersGetBooked ==
    \A o \in OrderIds :
        order[o].state = "OPENED" /\ ~order[o].market
            ~> InStack(stack, o) \/ order[o].state # "OPENED"

(* A cancel request that was accepted ends with the order not open, even   *)
(* when fills and a restart come first.                                    *)
CancelsAreServed ==
    \A o \in OrderIds :
        (\E i \in 1 .. Len(queue) : queue[i].type = "cancel" /\ queue[i].row.id = o)
            ~> order[o].state # "OPENED"

(* A market order never stays open: it is filled or cancelled at once.     *)
MarketOrdersEnd ==
    \A o \in OrderIds :
        order[o].state = "OPENED" /\ order[o].market ~> order[o].state # "OPENED"

==============================================================================

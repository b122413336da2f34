----------------------------- MODULE SpecialOrders -----------------------------
(***************************************************************************)
(* Stop-limit and over-the-counter orders of a pair.  The stack worker     *)
(* creates a stop-limit order without putting it into the book; after each *)
(* match the stop_limits process looks at the price of the matched order's *)
(* last ExecutionResult and sends the orders whose stop it reached to the  *)
(* worker.  otc_bulk_update changes the prices of all EXTERNAL orders and  *)
(* processes them again.                                                   *)
(*                                                                         *)
(* Market orders and updates by users are left to OrderBook; EXTERNAL      *)
(* orders are the limit orders of the users in Otc.                        *)
(***************************************************************************)
EXTENDS OrderBook, SequencesExt

CONSTANTS
    Stops,         \* stop prices of a request
    Otc,           \* users whose limit orders follow the external price
    OtcPrices,     \* what the external price and otc_percent lead to
    OtcLimit,      \* otc_limit, by operation
    MaxRepricings, \* bound: runs of otc_bulk_update
    SpecialRaces   \* what the code leaves to timing (SpecialRaceKinds)

(* "late":  a stop order is sent although a cancel of it waits in the      *)
(*          queue, or by an order that was cancelled since its last match. *)
(* "again": a stop order that a restart left out of the book is sent while *)
(*          its place_order key is still there, or one the worker has, too *)
(*          deep in the book to be published, after its key has expired.   *)
(* "unmarked": the worker restarts between the sending of a stop order and *)
(*          the writing of its in_stack.                                   *)
(* "early": prices are updated while an EXTERNAL order has yet to be       *)
(*          placed.                                                        *)
SpecialRaceKinds == {"late", "again", "unmarked", "early"}

ASSUME SpecialAssumption ==
    /\ Stops \subseteq Nat \ {0} /\ OtcPrices \subseteq Nat \ {0}
    /\ Otc \subseteq Users /\ OtcLimit \in [{"BUY", "SELL"} -> Nat \ {0}]
    /\ MaxRepricings \in Nat
    /\ SpecialRaces \subseteq SpecialRaceKinds

VARIABLES
    stop,        \* database: Order.stop, 0 for none
    inStack,     \* database: orders whose row says in_stack
    loaded,      \* objects of the worker, and snapshots sent to it, that say so
    lastPrice,   \* database: price of the order's last ExecutionResult, or 0
    traded,      \* history: prices of matches
    toLook,      \* the stop_limits queue: orders whose last price to look at
    marking,     \* orders sent, their in_stack not yet written
    repricings

stopVars == <<stop, inStack, loaded, lastPrice, traded, toLook, marking>>
specialVars == <<vars, stopVars, repricings>>

IsStop(o) == stop[o] # 0
Open(o) == order[o].state = "OPENED" /\ order[o].left > 0
Waiting(type, o) == \E i \in 1 .. Len(queue) : queue[i].type = type /\ queue[i].row.id = o
Processed(o) == cur.phase # "idle" /\ cur.obj.id = o
Tracked(o) ==
    \/ InStack(stack, o) \/ o \in boot \/ Processed(o)
    \/ Waiting("place", o) \/ \E x \in unsent : x.id = o

-----------------------------------------------------------------------------
(* What the steps of OrderBook do to in_stack and to the last price.       *)

(* Rows a step saves from the worker's objects after a fill. *)
FilledIn == {m[1] : m \in matches' \ matches}
CanceledIn == {o \in OrderIds : order'[o].state = "CANCELED" /\ order[o].state # "CANCELED"}

(* A cancelled order's last ExecutionResult carries the order's own price. *)
LastPrices(price) ==
    [o \in OrderIds |-> IF o \in CanceledIn THEN order'[o].price
                        ELSE IF o \in FilledIn THEN price ELSE lastPrice[o]]

(* save writes every column of the object, in_stack as it was loaded. *)
SavedInStack(S) == (inStack \ S) \cup (S \cap loaded)

CreateLimitOrder ==
    /\ CreateOrder
    /\ LET new == {o \in OrderIds : order'[o] # order[o]}
       IN  inStack' = inStack \cup new /\ loaded' = loaded \cup new
    /\ UNCHANGED <<stop, lastPrice, traded, toLook, marking, repricings>>

CancelTask ==
    /\ CancelOrderTask
    /\ lastPrice' = LastPrices(0)
    /\ UNCHANGED <<stop, inStack, loaded, traded, toLook, marking, repricings>>

MatchPrice == stack[CHOOSE r \in cur.todo : Best(r)].row.price

MatchNext ==
    /\ Match
    /\ lastPrice' = LastPrices(MatchPrice)
    /\ traded' = traded \cup {MatchPrice}
    /\ toLook' = toLook \cup {o \in cur.todo : Best(o)}
    /\ inStack' = SavedInStack(FilledIn \cup CanceledIn)
    /\ UNCHANGED <<stop, loaded, marking, repricings>>

FinishMatch ==
    /\ Finish
    /\ lastPrice' = LastPrices(0)
    /\ toLook' = toLook \cup {cur.obj.id}
    /\ inStack' = SavedInStack(CanceledIn)
    /\ UNCHANGED <<stop, loaded, traded, marking, repricings>>

(* A plausible bug: all open orders are loaded. *)
RestartWithAll == Restart /\ UNCHANGED <<stopVars, repricings>>

(* A plausible bug: only orders nothing of which is filled are loaded. *)
RestartWithUnfilled ==
    /\ restarts < MaxRestarts
    /\ unsent = {} /\ marking = {}
    /\ \A i \in 1 .. Len(queue) : queue[i].type # "place"
    /\ restarts' = restarts + 1
    /\ stack' = [o \in OrderIds |-> NoEntry]
    /\ cur' = Idle
    /\ boot' = {o \in inStack : Open(o) /\ order[o].left = order[o].qty}
    /\ loaded' = inStack
    /\ UNCHANGED <<dbVars, unsent, queue, onCancel, onPlace, updates, duplicates,
                   stop, inStack, lastPrice, traded, toLook, marking, repricings>>

(* load_opened_orders asks for in_stack. *)
RestartInStack ==
    /\ restarts < MaxRestarts
    /\ BusyRestart \/ (unsent = {} /\ \A i \in 1 .. Len(queue) : queue[i].type # "place")
    /\ "unmarked" \in SpecialRaces \/ marking = {}
    /\ restarts' = restarts + 1
    /\ stack' = [o \in OrderIds |-> NoEntry]
    /\ cur' = Idle
    /\ boot' = {o \in inStack : Open(o)}
    /\ loaded' = inStack
    /\ UNCHANGED <<dbVars, unsent, queue, onCancel, onPlace, updates, duplicates,
                   stop, inStack, lastPrice, traded, toLook, marking, repricings>>

AtRest == cur = Idle /\ boot = {}

-----------------------------------------------------------------------------
(* Stop-limit orders.                                                      *)

(* The worker serves the request; place_order is not sent. *)
CreateStopOrder ==
    \E u \in Users, op \in {"BUY", "SELL"}, p \in Prices, q \in Quantities,
       s \in Stops, o \in OrderIds :
        /\ AtRest /\ Room /\ Free(o)
        /\ CreateRow([id |-> o, user |-> u, op |-> op, market |-> FALSE, price |-> p,
                      qty |-> q, left |-> q, cost |-> 0, state |-> "OPENED"])
        /\ stop' = [stop EXCEPT ![o] = s]
        /\ UNCHANGED <<unsent, queue, stack, cur, boot, onCancel, onPlace, counts,
                       inStack, loaded, lastPrice, traded, toLook, marking, repricings>>

(* The stop of o against the price at which an order of the operation op   *)
(* was executed: a sell triggers buys from below, a buy sells from above.  *)
Reaches(o, op, price) ==
    order[o].op # op /\ IF op = "SELL" THEN stop[o] <= price ELSE stop[o] >= price

Triggered(n) ==
    {o \in OrderIds : /\ IsStop(o) /\ Open(o) /\ lastPrice[n] # 0
                      /\ Reaches(o, order[n].op, lastPrice[n])}

InTime(n, T) ==
    /\ "late" \in SpecialRaces \/ (order[n].state # "CANCELED" /\ \A o \in T : ~Waiting("cancel", o))
    /\ "again" \in SpecialRaces \/ \A o \in T : o \in onPlace => Tracked(o)

(* stop_limit_processor: what the published book shows is left out, which  *)
(* may be an older or a shortened one.  The rows are sent as they are.     *)
TriggerStops(n) ==
    \E shown \in SUBSET {o \in OrderIds : InStack(stack, o)} :
        LET T == Triggered(n) \ shown
            row(o) == [type |-> "place", row |-> order[o]]
        IN  /\ n \in toLook /\ marking = {} /\ InTime(n, T)
            /\ shown \subseteq Triggered(n)
            /\ toLook' = toLook \ {n}
            /\ queue' = queue \o SetToSeq({row(o) : o \in T})
            /\ loaded' = (loaded \ {o \in T : ~Tracked(o)}) \cup (T \cap inStack)
            /\ marking' = T
            /\ UNCHANGED <<dbVars, unsent, stack, cur, boot, onCancel, onPlace, counts,
                           stop, inStack, lastPrice, traded, repricings>>

(* bulk_update of in_stack, after all of them were sent. *)
MarkStops ==
    /\ marking # {}
    /\ inStack' = inStack \cup marking
    /\ marking' = {}
    /\ UNCHANGED <<vars, stop, loaded, lastPrice, traded, toLook, repricings>>

(* The key of place_order lives for _place_order_delay seconds.  That is     *)
(* much longer than it takes until the published book shows an order, but    *)
(* the book is published only STACK_EXPORT_LIMIT orders deep.                *)
PlaceKeyExpires ==
    \E o \in onPlace :
        /\ IsStop(o) /\ Open(o) /\ ("again" \in SpecialRaces \/ ~Tracked(o))
        /\ onPlace' = onPlace \ {o}
        /\ UNCHANGED <<dbVars, unsent, queue, stack, cur, boot, onCancel, counts,
                       stopVars, repricings>>

-----------------------------------------------------------------------------
(* otc_bulk_update.                                                        *)

External == {o \in OrderIds : order[o].user \in Otc /\ ~IsStop(o) /\ order[o].state = "OPENED"}

OtcPrice(x, p) ==
    IF x.op = "BUY" THEN Least(p, OtcLimit["BUY"])
    ELSE IF p < OtcLimit["SELL"] THEN OtcLimit["SELL"] ELSE p

(* The rows are read once; the price is kept in the phase's object. *)
OtcBulkUpdate ==
    \E p \in OtcPrices :
        /\ AtRest /\ repricings < MaxRepricings /\ External # {}
        /\ "early" \in SpecialRaces \/ \A o \in External : InStack(stack, o)
        /\ cur' = [phase |-> "reprice", obj |-> [NoRow EXCEPT !.price = p], todo |-> External]
        /\ repricings' = repricings + 1
        /\ UNCHANGED <<dbVars, unsent, queue, stack, boot, onCancel, onPlace, counts, stopVars>>

(* _update_order of one of them; what it raises is logged and passed over. *)
RepriceOrder ==
    \E o \in cur.todo :
        LET x == order[o]
            y == [x EXCEPT !.price = OtcPrice(x, cur.obj.price)]
        IN  /\ cur.phase = "reprice"
            /\ cur' = [cur EXCEPT !.todo = @ \ {o}]
            /\ IF y = x \/ UpdateRefused(x, y)
               THEN UNCHANGED <<order, amount, held, boot>>
               ELSE /\ order' = [order EXCEPT ![o] = y]
                    /\ amount' = Credited(x.user, Only(HeldIn(x), -Charge(x, y)))
                    /\ held' = [held EXCEPT ![o] = @ + Charge(x, y)]
                    /\ boot' = boot \cup {o}
            /\ UNCHANGED <<matches, fees, voided, unsent, queue, stack, onCancel, onPlace,
                           counts, stopVars, repricings>>

(* A plausible bug: the orders are processed again without being removed. *)
ReloadKeepsStack ==
    /\ cur.phase = "reprice" /\ cur.todo = {}
    /\ cur' = Idle
    /\ UNCHANGED <<dbVars, unsent, queue, stack, boot, onCancel, onPlace, counts,
                   stopVars, repricings>>

(* The updated orders leave the stack and are then processed one by one,   *)
(* as load_opened_orders does with those of the database.                  *)
ReloadRepriced ==
    /\ cur.phase = "reprice" /\ cur.todo = {}
    /\ stack' = [o \in OrderIds |-> IF o \in boot /\ order[o].user \notin Bots
                                    THEN Removed(stack, o)[o] ELSE stack[o]]
    /\ loaded' = (loaded \ boot) \cup (boot \cap inStack)
    /\ cur' = Idle
    /\ UNCHANGED <<dbVars, unsent, queue, boot, onCancel, onPlace, counts,
                   stop, inStack, lastPrice, traded, toLook, marking, repricings>>

-----------------------------------------------------------------------------

SpecialInit ==
    /\ Init
    /\ stop = [o \in OrderIds |-> 0]
    /\ inStack = {} /\ loaded = {} /\ marking = {} /\ toLook = {} /\ traded = {}
    /\ lastPrice = [o \in OrderIds |-> 0]
    /\ repricings = 0

SpecialNext ==
    \/ CreateLimitOrder \/ CreateStopOrder
    \/ (RequestCancel \/ SendPlaceOrder \/ CancelKeyExpires) /\ UNCHANGED <<stopVars, repricings>>
    \/ (PlaceOrderTask \/ LoadOpenedOrder \/ MatchFails) /\ UNCHANGED <<stopVars, repricings>>
    \/ CancelTask \/ MatchNext \/ FinishMatch \/ RestartInStack
    \/ \E n \in OrderIds : TriggerStops(n)
    \/ MarkStops \/ PlaceKeyExpires
    \/ OtcBulkUpdate \/ RepriceOrder \/ ReloadRepriced
    \/ Quiescent /\ UNCHANGED <<stopVars, repricings>>

SpecialSpec == SpecialInit /\ [][SpecialNext]_specialVars

-----------------------------------------------------------------------------
(* Properties.                                                             *)

(* A stop-limit order does not reach the book, and nothing of it is        *)
(* filled, before the market traded at its stop or beyond: neither by a    *)
(* restart nor by a look at an older or a cancelled order                  *)
(* (stop_limit_processor, load_opened_orders, create_stop_limit_order).    *)
StopsWaitForTheirPrice ==
    \A o \in OrderIds :
        /\ IsStop(o)
        /\ InStack(stack, o) \/ o \in boot \/ Processed(o) \/ order[o].left < order[o].qty
        => \E p \in traded : IF order[o].op = "BUY" THEN stop[o] <= p ELSE stop[o] >= p

(* An open order whose row says in_stack is in the book or on its way      *)
(* there, through triggers, partial fills, updates of all EXTERNAL prices  *)
(* and a restart (load_opened_orders, bulk_update, otc_bulk_update).       *)
InStackAreTracked == \A o \in inStack : Open(o) => Tracked(o) \/ o \in marking

(* While it is not changing all EXTERNAL prices, the worker matches with   *)
(* what the database holds, after triggers from snapshots and after those  *)
(* changes too (stop_limit_processor, otc_bulk_update).                    *)
BookMirrorsDatabase == cur.phase # "reprice" => MemoryMirrorsDatabase

================================================================================

------------------------------ MODULE OrderReverts ------------------------------
(***************************************************************************)
(* An administrator reverts finished orders: every transaction of an order *)
(* is booked the other way round, and so is what its executions brought to *)
(* and took from the owners of the orders it was matched with.             *)
(*                                                                         *)
(* A revert is one database transaction.                                   *)
(***************************************************************************)
EXTENDS OrderBook

CONSTANTS
    MaxReverts,  \* bound: orders reverted in a behaviour
    RevertRaces  \* what the code leaves to the administrator (RevertRaceKinds)

(* "both": an order is reverted although one it was matched with was, and  *)
(*         their match is undone a second time.                            *)
(* "busy": a market buy is reverted while the worker is still filling it.  *)
RevertRaceKinds == {"both", "busy"}

ASSUME RevertAssumption == MaxReverts \in Nat /\ RevertRaces \subseteq RevertRaceKinds

VARIABLES
    own,  \* database: sum of the transactions a revert finds, by order and currency
    deal  \* database: gross amount and fee of the ExecutionResults, by matches

revertVars == <<vars, own, deal>>

Reverted == {o \in OrderIds : order[o].state = "REVERT"}

PlusIn(sums, c, n) == [sums EXCEPT ![c] = @ + n]

-----------------------------------------------------------------------------
(* What OrderBook's steps book for each order.                             *)

(* Hold, extra charge, refund and what close_market returns all concern    *)
(* the held currency. *)
HoldsBooked ==
    /\ own' = [o \in OrderIds |->
                  PlusIn(own[o], HeldIn(order'[o]), held[o] - held'[o])]
    /\ UNCHANGED deal

(* A plausible bug: the cacheback of a fill is left out. *)
BookedForNoCacheback(x, q, p) ==
    IF Void(x, q, p) THEN Only(HeldIn(x), VoidRefund(x, q, p))
    ELSE Only(GainedIn(x), Gross(x, q, p) - FeeOf(x, q, p))

(* A void fill leaves no ExecutionResult: its cacheback is not found.      *)
BookedFor(x, q, p) ==
    IF Void(x, q, p) THEN Only(HeldIn(x), VoidRefund(x, q, p))
    ELSE PlusIn(Only(GainedIn(x), Gross(x, q, p) - FeeOf(x, q, p)),
                HeldIn(x), Cacheback(x, q, p))

Summed(a, b) == [c \in Currencies |-> a[c] + b[c]]

FillBooked ==
    \E r \in cur.todo :
        LET x == cur.obj
            y == stack[r].row
            p == y.price
            q == FillQuantity(x, y)
            of(z) == [gross |-> Gross(z, q, p), fee |-> FeeOf(z, q, p)]
        IN  /\ Best(r)
            /\ own' = [own EXCEPT
                    ![x.id] = Summed(@, BookedFor(x, q, p)),
                    ![r] = PlusIn(Summed(@, BookedFor(y, q, p)),
                                  "base", DustRefund(Filled(y, q, p)))]
            /\ deal' = [m \in matches' |->
                    IF m \in matches THEN deal[m] ELSE of(IF m[1] = r THEN y ELSE x)]

-----------------------------------------------------------------------------
(* revert_orders_balance.                                                  *)

Executed(o) == \E m \in matches : m[1] = o

Partners(o) == {n \in OrderIds : <<o, n>> \in matches \/ <<n, o>> \in matches}

(* revert: what it asks of each order. *)
Revertable(o) ==
    /\ order[o].state \in {"CLOSED", "CANCELED"}
    /\ Executed(o)

(* Bound and timing: see RevertRaceKinds. *)
Sensible(S) ==
    /\ Cardinality(S \cup Reverted) <= MaxReverts
    /\ "both" \in RevertRaces \/ \A o \in S : Partners(o) \cap (S \cup Reverted) = {}
    /\ "busy" \in RevertRaces \/ cur.phase = "idle" \/ cur.obj.id \notin S

(* The order's own transactions are booked back. *)
OwnUndone(o, u, c) == IF order[o].user = u THEN -own[o][c] ELSE 0

(* The gross and the net amounts of the ExecutionResults. *)
GrossOf == [m \in matches |-> deal[m].gross]
NetOf == [m \in matches |-> deal[m].gross - deal[m].fee]

(* What the order was paid for goes back, fee included, to those that paid. *)
ReturnedToMatched(o, u, c) ==
    SumFunctionOnSet(GrossOf, {m \in matches : /\ m[1] = o /\ order[m[2]].user = u
                                               /\ GainedIn(order[m[1]]) = c})

(* What those the order paid received is taken from them, net of their fee. *)
TakenFromMatched(o, u, c) ==
    SumFunctionOnSet(NetOf, {m \in matches : /\ m[2] = o /\ order[m[1]].user = u
                                             /\ GainedIn(order[m[1]]) = c})

(* _revert: what becomes of the balance of u in c. *)
Undone(o, u, c) == OwnUndone(o, u, c) + ReturnedToMatched(o, u, c) - TakenFromMatched(o, u, c)

(* The fees in c of the matches of M. *)
FeesOf(c, M) ==
    SumFunctionOnSet([m \in matches |-> IF GainedIn(order[m[1]]) = c THEN deal[m].fee ELSE 0], M)

(* All orders of the selection or none: a balance that cannot pay rolls    *)
(* the transaction back. *)
RevertOrders(S) ==
    LET after == [u \in Users |-> [c \in Currencies |->
                    amount[u][c] + SumFunction([o \in S |-> Undone(o, u, c)])]]
    IN  /\ S # {} /\ \A o \in S : Revertable(o)
        /\ Sensible(S)
        /\ \A u \in Users, c \in Currencies : after[u][c] >= 0
        /\ amount' = after
        /\ order' = [o \in OrderIds |->
                IF o \in S THEN [order[o] EXCEPT !.state = "REVERT"] ELSE order[o]]
        /\ held' = [o \in OrderIds |-> IF o \in S THEN 0 ELSE held[o]]
        /\ fees' = [c \in Currencies |->
                fees[c] - FeesOf(c, {m \in matches : m[1] \in S \/ m[2] \in S})]
        /\ UNCHANGED <<matches, voided, unsent, queue, stack, cur, boot,
                       onCancel, onPlace, counts, own, deal>>

-----------------------------------------------------------------------------
RevertInit ==
    /\ Init
    /\ own = [o \in OrderIds |-> Only("base", 0)]
    /\ deal = <<>>

RevertNext ==
    \/ /\ Web \/ SendPlaceOrder \/ Restart \/ Redeliver \/ CancelKeyExpires \/ Quiescent
       /\ HoldsBooked
    \/ /\ PlaceOrderTask \/ CancelOrderTask \/ UpdateOrderTask \/ MarketOrderTask
          \/ MarketExecute \/ MatchFails \/ Finish \/ LoadOpenedOrder
       /\ HoldsBooked
    \/ Match /\ FillBooked
    \/ \E S \in SUBSET OrderIds : RevertOrders(S)

RevertSpec == RevertInit /\ [][RevertNext]_revertVars

-----------------------------------------------------------------------------
(* Properties.                                                             *)

LiveMatches == {m \in matches : m[1] \notin Reverted /\ m[2] \notin Reverted}

(* What the match m, of m[1] with m[2], brought to the user u and cost him: *)
(* the owner of m[1] was paid what the owner of m[2] gave.                  *)
Brought(m, u, c) ==
    (IF order[m[1]].user = u /\ GainedIn(order[m[1]]) = c THEN NetOf[m] ELSE 0)
    - (IF order[m[2]].user = u /\ GainedIn(order[m[1]]) = c THEN GrossOf[m] ELSE 0)

Traded(u, c) == SumFunctionOnSet([m \in matches |-> Brought(m, u, c)], LiveMatches)

Holds(u, c) ==
    SumFunction([o \in OrderIds |->
        IF order[o].user = u /\ HeldIn(order[o]) = c THEN held[o] ELSE 0])

(* No fill paid less than its fee. *)
FeesWithin == \A m \in matches : deal[m].fee <= deal[m].gross

(* Each user has, in balance and holds, the initial funds and what the     *)
(* matches that stand brought and cost, to the unit, and the fees of these *)
(* are all that was collected: with cachebacks, refunds, market orders in  *)
(* parts, restarts and reverts of any sets of orders (_execute,            *)
(* close_market, cancel_order, _revert).                                   *)
RevertsUndo ==
    voided = {} /\ FeesWithin => \A c \in Currencies :
        /\ \A u \in Users : amount[u][c] + Holds(u, c) = Funds[u][c] + Traded(u, c)
        /\ fees[c] = FeesOf(c, LiveMatches)

================================================================================

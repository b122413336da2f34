--------------------------- MODULE SpecialOrdersInv ---------------------------
(***************************************************************************)
(* The inductive invariants behind the properties of SpecialOrders.        *)
(***************************************************************************)
EXTENDS SpecialOrders, OrderBookInv

-----------------------------------------------------------------------------
(* Behind StopsWaitForTheirPrice.                                          *)

SpecialTypeOK ==
    /\ stop \in [OrderIds -> Nat] /\ lastPrice \in [OrderIds -> Nat]
    /\ traded \subseteq Nat
    /\ inStack \subseteq OrderIds /\ loaded \subseteq OrderIds /\ marking \subseteq OrderIds
    /\ \A o \in inStack \cup loaded \cup marking : order[o].state # "NONE"
    /\ cur.phase = "reprice" =>
           /\ cur.obj.price \in OtcPrices /\ cur.obj.id = 0
           /\ \A o \in cur.todo : order[o].state # "NONE"

(* Market orders and updates by users are left to OrderBook. *)
OnlyLimits ==
    /\ \A o \in OrderIds : ~order[o].market
    /\ cur.phase # "market" /\ ~cur.obj.market
    /\ \A i \in 1 .. Len(queue) : queue[i].type \in {"place", "cancel"}

Reached(o) == \E p \in traded : IF order[o].op = "BUY" THEN stop[o] <= p ELSE stop[o] >= p

(* A stop order that was sent, or whose row or objects say so. *)
SentOut(o) ==
    \/ InStack(stack, o) \/ o \in boot \/ Processed(o) \/ order[o].left < order[o].qty
    \/ Waiting("place", o) \/ o \in inStack \cup loaded \cup marking

StopsInv ==
    /\ \A x \in unsent : ~IsStop(x.id)
    /\ \A o \in OrderIds : IsStop(o) =>
          order[o].state # "NONE" /\ (SentOut(o) => Reached(o))
    /\ \A o \in OrderIds : lastPrice[o] # 0 =>
          lastPrice[o] \in traded \/ order[o].state = "CANCELED"
    /\ cur.phase = "reprice" => \A o \in cur.todo : ~IsStop(o)

SpecialTypeInv == TypeInv /\ SpecialTypeOK /\ OnlyLimits /\ StopsInv

-----------------------------------------------------------------------------
(* Behind InStackAreTracked and BookMirrorsDatabase, while no fill netted  *)
(* to nothing.                                                             *)

WorkerHas(o) == InStack(stack, o) \/ o \in boot \/ Processed(o)

(* A place_order of an order given before is for one the worker has; and a *)
(* stop order the worker has was given.                                    *)
GivenInv ==
    /\ \A o \in onPlace : Waiting("place", o) /\ Open(o) => WorkerHas(o)
    /\ \A o \in OrderIds : IsStop(o) /\ WorkerHas(o) => o \in onPlace

TrackedInv == \A o \in inStack \cup marking : Open(o) => Tracked(o)

(* While prices are changed, the orders concerned rest. *)
RepriceInv ==
    cur.phase = "reprice" =>
        \A o \in cur.todo \cup boot : InStack(stack, o) /\ order[o].user \in Otc

SoundInv == MirrorInv /\ MatchingInv /\ GivenInv /\ TrackedInv /\ RepriceInv

SpecialInv == SpecialTypeInv /\ (voided = {} => SoundInv)

===============================================================================

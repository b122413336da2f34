---------------------------- MODULE OrderBookInv ----------------------------
(***************************************************************************)
(* The inductive invariant behind OrderBook!TypeOK.  TypeOK alone is not   *)
(* inductive: that no quantity, cost or balance falls below zero rests on  *)
(* where the objects the worker handles come from.  Each part is stated    *)
(* for given values of the variables it relates.                           *)
(***************************************************************************)
EXTENDS OrderBook

Exists(ord, o) == o \in OrderIds /\ ord[o].id = o

(* x is an object of the row ord[x.id]. *)
Stored(ord, x) == Exists(ord, x.id) /\ ord[x.id].op = x.op

(* An order that was created; only a market order may have no price. *)
Created(x) == x.state # "NONE" /\ (x.market \/ x.price > 0)
Limit(x) == ~x.market /\ Created(x)

RowsOK(ord) == \A o \in OrderIds : ord[o] = NoRow \/ (ord[o].id = o /\ Created(ord[o]))

UnsentOK(ord, u) == \A x \in u : Stored(ord, x) /\ Limit(x)

MessageOK(ord, m) ==
    /\ m.type # "market" => Exists(ord, m.row.id)
    /\ m.type = "place" => Stored(ord, m.row) /\ Limit(m.row)
    /\ m.type = "update" => m.row.price > 0

QueueOK(ord, q) == \A i \in 1 .. Len(q) : MessageOK(ord, q[i])

EntryOK(ord, st, o) ==
    st[o].row.id = o /\ Stored(ord, st[o].row) /\ Limit(st[o].row)

StackOK(ord, st) == \A o \in OrderIds : InStack(st, o) => EntryOK(ord, st, o)

TodoOK(st, c) ==
    \A o \in c.todo : /\ InStack(st, o)
                      /\ st[o].row.op # c.obj.op
                      /\ PriceMatch(c.obj, st[o].row.price)

CurOK(ord, st, c) ==
    /\ c.phase \in {"market", "match"} => Stored(ord, c.obj) /\ Created(c.obj)
    /\ c.phase = "match" => TodoOK(st, c)

(* Every object the worker or the queue holds stems from an existing row, a  *)
(* limit order has a price, and the orders still to be matched rest on the   *)
(* other side at a price the incoming order accepts.                         *)
TypeInv ==
    /\ TypeOK
    /\ RowsOK(order)
    /\ UnsentOK(order, unsent)
    /\ QueueOK(order, queue)
    /\ StackOK(order, stack)
    /\ CurOK(order, stack, cur)
    /\ \A o \in boot : Exists(order, o)

-----------------------------------------------------------------------------
(* The inductive invariant behind MemoryMirrorsDatabase, HoldCovers,       *)
(* FinalRowsStay and MatchedOnce.  Void fills are left out order by order: *)
(* nothing is said of the objects and rows of orders in voided.            *)

Unsent == {x.id : x \in unsent}
Sent(o, n) == \E k \in 1 .. n : queue[k].type = "place" /\ queue[k].row.id = o
Working(o) == cur.phase \in {"market", "match"} /\ cur.obj.id = o

(* A row: what is open has something left, unless it buys for a cost, and  *)
(* what is closed has nothing.                                             *)
RowSound(x) ==
    x.state # "NONE" /\ ~MarketBuy(x) =>
        /\ x.cost = 0
        /\ x.state = "OPENED" => x.left > 0
        /\ x.state = "CLOSED" => x.left = 0

(* A match ends one of the two orders. *)
PairEnds(m) ==
    /\ order[m[1]].state # "NONE" /\ order[m[2]].state # "NONE"
    /\ m[1] \in voided \/ m[2] \in voided
       \/ order[m[1]].state # "OPENED" \/ order[m[2]].state # "OPENED"

RowsInv ==
    /\ \A o \in OrderIds \ voided : RowSound(order[o]) /\ held[o] >= Claim(order[o])
    /\ \A o \in voided \cup onPlace : order[o].state # "NONE"
    /\ \A m \in matches : PairEnds(m)

(* The snapshot of an order the worker has not been given is its row.      *)
NewOrder(x) ==
    /\ order[x.id] = x /\ x.state = "OPENED"
    /\ x.id \notin voided \cup boot /\ ~InStack(stack, x.id) /\ ~Working(x.id)

SnapshotsInv ==
    /\ \A x \in unsent : NewOrder(x) /\ x.id \notin onPlace /\ ~Sent(x.id, Len(queue))
    /\ \A i \in 1 .. Len(queue) :
           queue[i].type = "place" /\ queue[i].row.id \notin onPlace => NewOrder(queue[i].row)

(* What is asked of an order comes after its place_order, if there is one  *)
(* to come; an order that had a void fill was given before.                *)
NeverSent(o) == o \notin Unsent /\ ~Sent(o, Len(queue))
After(o, n) == o \in onPlace \cup voided \/ order[o].market \/ Sent(o, n) \/ NeverSent(o)

RequestsInv ==
    /\ \A i \in 1 .. Len(queue) :
           queue[i].type \in {"cancel", "update"} => After(queue[i].row.id, i - 1)
    /\ \A i \in 1 .. Len(queue) :
           /\ queue[i].type = "market" /\ queue[i].row.op = "SELL" =>
                  queue[i].row.cost = 0 /\ queue[i].row.qty > 0
           /\ queue[i].type = "update" => MaxUpdates > 0

(* A resting order: it is open, and its object is its row, except that     *)
(* what is left may be less after execute raised.  While prices of many    *)
(* rows are changed, those that have been are still to be processed.       *)
RestsSound(o) ==
    /\ stack[o].key = stack[o].row.price /\ ~Working(o)
    /\ o \in boot => cur.phase = "reprice"
    /\ o \notin voided \cup boot =>
           /\ order[o].state = "OPENED" /\ stack[o].row.left <= order[o].left
           /\ stack[o].row = [order[o] EXCEPT !.left = stack[o].row.left]
    /\ o \notin Disturbed \cup boot => stack[o].row = order[o]

BookSound == \A o \in OrderIds : InStack(stack, o) => RestsSound(o)

BootSound == \A o \in boot : ~Working(o) /\ order[o].state = "OPENED"

(* The order being processed is its row.                                   *)
CurSound ==
    cur.phase \in {"market", "match"} /\ cur.obj.id \notin voided =>
        /\ cur.obj = order[cur.obj.id]
        /\ cur.obj.state \in {"OPENED", "CLOSED"}
        /\ cur.phase = "market" => cur.obj.market /\ cur.obj.state = "OPENED"

MemoryInv == BookSound /\ BootSound /\ CurSound /\ MatchedOnce

MirrorInv == TypeInv /\ RowsInv /\ SnapshotsInv /\ RequestsInv /\ MemoryInv

-----------------------------------------------------------------------------
(* The inductive invariant behind PriceTimePriority, BookUncrossed and     *)
(* MarketSellsFill.                                                        *)

(* The orders of T that are matched before r. *)
Ahead(st, T, r) == {n \in T : Before(st[n].row, st[r].row)}

SameSide(x, y) == x.op = y.op /\ SameBook(x, y)

(* What comes before an order to be matched does not cover the incoming    *)
(* order x, so that it will be used up; and every better order of its side *)
(* is among T, what is still to be matched.  Orders in v had a void fill.  *)
BestFirst(x, st, T, v) ==
    \A r \in T :
        /\ Offered(x, st, Ahead(st, T, r)) < Wanted(x)
        /\ \A n \in OrderIds \ v :
              /\ InStack(st, n) /\ SameSide(st[n].row, st[r].row)
              /\ Before(st[n].row, st[r].row)
              => n \in T

(* What is still to be matched covers the incoming order, unless there is  *)
(* no other offer it could have been matched with.                         *)
Covers(x, st, T) == Offered(x, st, T) >= x.left
Enough(x, st, T, v) ==
    /\ x.market /\ x.op = "SELL" => Covers(x, st, T)
    /\ ~x.market => Covers(x, st, T) \/ Offers(x, st) \ v \subseteq T

Uncrossed(st, v) ==
    \A b, s \in OrderIds \ v :
        /\ InStack(st, b) /\ st[b].row.op = "BUY"
        /\ InStack(st, s) /\ st[s].row.op = "SELL"
        /\ SameBook(st[b].row, st[s].row)
        => st[b].row.price < st[s].row.price

MatchingInv ==
    /\ Uncrossed(stack, voided)
    /\ cur.phase = "match" =>
          BestFirst(cur.obj, stack, cur.todo, voided) /\ Enough(cur.obj, stack, cur.todo, voided)

==============================================================================

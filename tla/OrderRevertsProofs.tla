------------------------- MODULE OrderRevertsProofs -------------------------
(***************************************************************************)
(* Theorems of OrderReverts: what an administrator reverts leaves the book *)
(* and the worker's memory as sound as it found them, and every balance is *)
(* what the matches that stand made of the initial funds.                  *)
(***************************************************************************)
EXTENDS OrderRevertsInv, OrderBookProofs

(* No order is reverted beside one it was matched with, nor while the      *)
(* worker is at it.                                                        *)
Considerate == RevertRaces = {}

-----------------------------------------------------------------------------
(* The sums of a revert.                                                   *)

(* There are finitely many matches and orders. *)
LEMMA MatchesAreFinite ==
    ASSUME TypeInv
    PROVE  /\ IsFiniteSet(matches) /\ IsFiniteSet(OrderIds)
           /\ \A M : M \subseteq matches => IsFiniteSet(M)
<1>1. IsFiniteSet(OrderIds)
  BY OrdersAreFinite
<1>2. IsFiniteSet(OrderIds \X OrderIds)
  BY <1>1, FS_Product
<1>3. matches \subseteq OrderIds \X OrderIds
  BY DEF TypeInv, TypeOK
<1> QED BY <1>1, <1>2, <1>3, FS_Subset

(* The amounts of a match. *)
LEMMA DealOfMatch ==
    ASSUME TypeInv, BooksOK, NEW m \in matches
    PROVE  /\ m \in OrderIds \X OrderIds /\ m[1] \in OrderIds /\ m[2] \in OrderIds
           /\ m = <<m[1], m[2]>>
           /\ deal[m].gross \in Nat /\ deal[m].fee \in Nat
           /\ GrossOf[m] = deal[m].gross /\ NetOf[m] = deal[m].gross - deal[m].fee
           /\ GrossOf[m] \in Int /\ NetOf[m] \in Int
<1>1. m \in OrderIds \X OrderIds
  BY DEF TypeInv, TypeOK
<1>2. deal[m] \in [gross : Nat, fee : Nat]
  BY DEF BooksOK
<1> QED BY <1>1, <1>2 DEF GrossOf, NetOf

(* The fees of matches are integers. *)
LEMMA FeesOfIsInt ==
    ASSUME TypeInv, BooksOK, NEW c, NEW M, M \subseteq matches
    PROVE  FeesOf(c, M) \in Int
<1> DEFINE f == [m \in matches |-> IF GainedIn(order[m[1]]) = c THEN deal[m].fee ELSE 0]
<1>1. \A m \in M : f[m] \in Int
  BY DealOfMatch
<1>2. IsFiniteSet(M)
  BY MatchesAreFinite
<1> HIDE DEF f
<1>3. SumFunctionOnSet(f, M) \in Int
  BY <1>1, <1>2, SumIsInt
<1> QED BY <1>3 DEF FeesOf, f

(* What a revert takes back is an integer. *)
LEMMA UndoneIsInt ==
    ASSUME TypeInv, BooksOK, NEW o \in OrderIds, NEW u, NEW c \in Currencies
    PROVE  /\ OwnUndone(o, u, c) \in Int /\ ReturnedToMatched(o, u, c) \in Int
           /\ TakenFromMatched(o, u, c) \in Int /\ Undone(o, u, c) \in Int
<1>1. OwnUndone(o, u, c) \in Int
  BY DEF OwnUndone, BooksOK
<1> DEFINE R == {m \in matches : m[1] = o /\ order[m[2]].user = u /\ GainedIn(order[m[1]]) = c}
           T == {m \in matches : m[2] = o /\ order[m[1]].user = u /\ GainedIn(order[m[1]]) = c}
<1>2. IsFiniteSet(R) /\ IsFiniteSet(T)
  BY MatchesAreFinite
<1>3. (\A m \in R : GrossOf[m] \in Int) /\ (\A m \in T : NetOf[m] \in Int)
  BY DealOfMatch
<1>4. ReturnedToMatched(o, u, c) = SumFunctionOnSet(GrossOf, R)
  BY DEF ReturnedToMatched
<1>5. TakenFromMatched(o, u, c) = SumFunctionOnSet(NetOf, T)
  BY DEF TakenFromMatched
<1> HIDE DEF R, T
<1>6. SumFunctionOnSet(GrossOf, R) \in Int /\ SumFunctionOnSet(NetOf, T) \in Int
  BY <1>2, <1>3, SumIsInt
<1> QED BY <1>1, <1>4, <1>5, <1>6 DEF Undone

-----------------------------------------------------------------------------
(* A revert seen from the worker.                                          *)

(* The rows after a revert. *)
LEMMA RowsAfterRevert ==
    ASSUME TypeInv, NEW S \in SUBSET OrderIds, RevertOrders(S)
    PROVE  /\ order' \in [OrderIds -> Row] /\ held' \in [OrderIds -> Int]
           /\ \A o \in OrderIds \ S : order'[o] = order[o] /\ held'[o] = held[o]
           /\ \A o \in S : /\ order[o].state \in {"CLOSED", "CANCELED"}
                           /\ order'[o].state = "REVERT" /\ held'[o] = 0
           /\ \A o \in OrderIds :
                 /\ order'[o].id = order[o].id /\ order'[o].user = order[o].user
                 /\ order'[o].op = order[o].op /\ order'[o].market = order[o].market
                 /\ order'[o].price = order[o].price /\ order'[o].cost = order[o].cost
                 /\ order'[o].left = order[o].left
<1>1. order \in [OrderIds -> Row] /\ held \in [OrderIds -> Int]
  BY DEF TypeInv, TypeOK
<1>2. \A x \in Row : LET y == [x EXCEPT !.state = "REVERT"]
                     IN  /\ y \in Row /\ y.state = "REVERT"
                         /\ y.id = x.id /\ y.user = x.user /\ y.op = x.op
                         /\ y.market = x.market /\ y.price = x.price /\ y.cost = x.cost
                         /\ y.left = x.left
  BY DEF Row
<1>3. /\ order' = [o \in OrderIds |->
                IF o \in S THEN [order[o] EXCEPT !.state = "REVERT"] ELSE order[o]]
      /\ held' = [o \in OrderIds |-> IF o \in S THEN 0 ELSE held[o]]
      /\ \A o \in S : order[o].state \in {"CLOSED", "CANCELED"}
  BY DEF RevertOrders, Revertable
<1> QED BY <1>1, <1>2, <1>3

(* A revert leaves the types, and the origin of every object, as they were. *)
LEMMA RevertTypes ==
    ASSUME TypeInv, BooksOK, NEW S \in SUBSET OrderIds, RevertOrders(S)
    PROVE  TypeInv' /\ BooksOK'
<1>1. /\ order' \in [OrderIds -> Row] /\ held' \in [OrderIds -> Int]
      /\ \A o \in S : order[o].state # "NONE" /\ order'[o].state = "REVERT"
      /\ \A o \in OrderIds \ S : order'[o] = order[o]
      /\ \A o \in OrderIds :
             /\ order'[o].id = order[o].id /\ order'[o].op = order[o].op
             /\ order'[o].market = order[o].market /\ order'[o].price = order[o].price
  BY RowsAfterRevert
<1>2. /\ UNCHANGED <<matches, voided, unsent, queue, stack, cur, boot,
                     onCancel, onPlace, counts, own, deal>>
      /\ \A u \in Users, c \in Currencies :
            amount[u][c] + SumFunction([o \in S |-> Undone(o, u, c)]) >= 0
      /\ amount' = [u \in Users |-> [c \in Currencies |->
                      amount[u][c] + SumFunction([o \in S |-> Undone(o, u, c)])]]
      /\ fees' = [c \in Currencies |->
                      fees[c] - FeesOf(c, {m \in matches : m[1] \in S \/ m[2] \in S})]
  BY DEF RevertOrders
<1>3. amount' \in [Users -> [Currencies -> Nat]]
  <2>1. ASSUME NEW u \in Users, NEW c \in Currencies
        PROVE  amount[u][c] + SumFunction([o \in S |-> Undone(o, u, c)]) \in Nat
    <3> DEFINE f == [o \in S |-> Undone(o, u, c)]
    <3>1. /\ IsFiniteSet(S) /\ DOMAIN f = S
          /\ \A o \in S : f[o] \in Int
      BY UndoneIsInt, OrdersAreFinite
    <3>2. amount[u][c] \in Nat
      BY DEF TypeInv, TypeOK
    <3>3. amount[u][c] + SumFunction(f) >= 0
      BY <1>2
    <3> HIDE DEF f
    <3>4. SumFunction(f) \in Int
      BY <3>1, SumIsInt DEF SumFunction
    <3>5. amount[u][c] + SumFunction(f) \in Nat
      BY <3>2, <3>3, <3>4
    <3> QED BY <3>5 DEF f
  <2> QED BY <1>2, <2>1
<1>4. fees' \in [Currencies -> Int]
  <2>1. \A c \in Currencies : FeesOf(c, {m \in matches : m[1] \in S \/ m[2] \in S}) \in Int
    BY FeesOfIsInt
  <2>2. fees \in [Currencies -> Int]
    BY DEF TypeInv, TypeOK
  <2> QED BY <1>2, <2>1, <2>2
<1>5. TypeOK'
  BY <1>1, <1>2, <1>3, <1>4 DEF TypeInv, TypeOK, counts
<1>6. \A o : Exists(order, o) => Exists(order', o)
  BY <1>1 DEF Exists
<1>7. \A x : Stored(order, x) => Stored(order', x)
  BY <1>1, <1>6 DEF Stored, Exists
<1>8. RowsOK(order')
  <2>1. RowsOK(order)
    BY DEF TypeInv
  <2>2. NoRow.state = "NONE"
    BY DEF NoRow
  <2> QED BY <1>1, <2>1, <2>2 DEF RowsOK, Created
<1>9. UnsentOK(order', unsent) /\ QueueOK(order', queue)
  BY <1>6, <1>7 DEF TypeInv, UnsentOK, QueueOK, MessageOK
<1>10. StackOK(order', stack) /\ CurOK(order', stack, cur)
  BY <1>7 DEF TypeInv, StackOK, EntryOK, CurOK
<1>11. \A o \in boot : Exists(order', o)
  BY <1>6 DEF TypeInv
<1>12. TypeInv'
  BY <1>2, <1>5, <1>8, <1>9, <1>10, <1>11 DEF TypeInv
<1> QED BY <1>2, <1>12 DEF BooksOK

(* What is open stays as it is, and what a revert empties nothing rests on. *)
LEMMA RevertMirror ==
    ASSUME Considerate, MirrorInv, BooksOK, NEW S \in SUBSET OrderIds, RevertOrders(S)
    PROVE  MirrorInv' /\ (MatchingInv => MatchingInv')
<1>1. /\ TypeInv /\ RowsInv /\ SnapshotsInv /\ RequestsInv
      /\ BookSound /\ BootSound /\ CurSound /\ MatchedOnce
  BY MirrorParts
<1>2. TypeInv' /\ BooksOK'
  BY <1>1, RevertTypes
<1>3. /\ \A o \in OrderIds \ S : order'[o] = order[o] /\ held'[o] = held[o]
      /\ \A o \in S : /\ order[o].state \in {"CLOSED", "CANCELED"}
                      /\ order'[o].state = "REVERT" /\ held'[o] = 0
      /\ \A o \in OrderIds : /\ order'[o].op = order[o].op /\ order'[o].cost = order[o].cost
                             /\ order'[o].market = order[o].market
  BY <1>1, RowsAfterRevert
<1>4. UNCHANGED <<matches, voided, unsent, queue, stack, cur, boot, onCancel, onPlace, counts>>
  BY DEF RevertOrders
<1>5. cur.phase = "idle" \/ cur.obj.id \notin S
  BY DEF RevertOrders, Sensible, Considerate
<1>6. /\ \A o \in OrderIds : order[o].state = "OPENED" => order'[o] = order[o]
      /\ \A o \in OrderIds : order'[o].state = "NONE" <=> order[o].state = "NONE"
      /\ \A o \in OrderIds : order'[o].state = "OPENED" => order[o].state = "OPENED"
  BY <1>3
<1>7. /\ \A x \in unsent : x.id \in OrderIds
      /\ \A i \in 1 .. Len(queue) : queue[i].type # "market" => queue[i].row.id \in OrderIds
      /\ matches \subseteq OrderIds \X OrderIds /\ boot \subseteq OrderIds
      /\ cur.phase \in {"market", "match"} => cur.obj.id \in OrderIds
  BY <1>1 DEF TypeInv, TypeOK, UnsentOK, QueueOK, MessageOK, CurOK, Stored, Exists
<1>8. RowsInv'
  <2>1. ASSUME NEW o \in OrderIds \ voided PROVE RowSound(order'[o]) /\ held'[o] >= Claim(order'[o])
    <3>1. RowSound(order[o]) /\ held[o] >= Claim(order[o])
      BY <1>1 DEF RowsInv
    <3>2. CASE o \in S
      BY <1>3, <3>1, <3>2 DEF RowSound, Claim, MarketBuy
    <3> QED BY <1>3, <3>1, <3>2
  <2>2. \A o \in voided \cup onPlace : order'[o].state # "NONE"
    BY <1>1, <1>6 DEF RowsInv, TypeInv, TypeOK
  <2>3. \A m \in matches : PairEnds(m)'
    BY <1>1, <1>4, <1>6, <1>7 DEF RowsInv, PairEnds
  <2> QED BY <1>4, <2>1, <2>2, <2>3 DEF RowsInv
<1>9. \A x : x.id \in OrderIds /\ NewOrder(x) => NewOrder(x)'
  BY <1>4, <1>6 DEF NewOrder, InStack, Working
<1>10. SnapshotsInv'
  BY <1>1, <1>4, <1>7, <1>9 DEF SnapshotsInv, Sent
<1>11. \A o \in OrderIds : \A n : After(o, n) => After(o, n)'
  BY <1>3, <1>4 DEF After, NeverSent, Unsent, Sent
<1>12. RequestsInv'
  BY <1>1, <1>4, <1>6, <1>7, <1>11 DEF RequestsInv, Unsent
<1>13. BookSound'
  <2>1. Disturbed' = Disturbed /\ voided \subseteq Disturbed
    BY <1>4 DEF Disturbed
  <2>2. ASSUME NEW o \in OrderIds, InStack(stack, o), RestsSound(o) PROVE RestsSound(o)'
    <3>1. o \notin voided => order'[o] = order[o]
      BY <1>1, <1>6, <2>2 DEF RestsSound, BootSound
    <3> QED BY <1>4, <2>1, <2>2, <3>1 DEF RestsSound, Working
  <2> QED BY <1>1, <1>4, <2>2 DEF BookSound
<1>14. BootSound'
  BY <1>1, <1>4, <1>6, <1>7 DEF BootSound, Working
<1>15. CurSound'
  BY <1>1, <1>3, <1>4, <1>5, <1>7 DEF CurSound
<1>16. MatchedOnce'
  BY <1>1, <1>4 DEF MatchedOnce
<1>17. MatchingInv => MatchingInv'
  BY <1>4, MatchingUntouched
<1> QED BY <1>2, <1>8, <1>10, <1>12, <1>13, <1>14, <1>15, <1>16, <1>17 DEF MirrorInv, MemoryInv

-----------------------------------------------------------------------------
(* What the steps other than a match do to holds and balances.             *)

NotMatch ==
    \/ Web \/ SendPlaceOrder \/ Restart \/ Redeliver \/ CancelKeyExpires \/ Quiescent
    \/ PlaceOrderTask \/ CancelOrderTask \/ UpdateOrderTask \/ MarketOrderTask
    \/ MarketExecute \/ MatchFails \/ Finish \/ LoadOpenedOrder

(* Only the hold of o changes, and the balance of its owner with it. *)
OneHold(o) ==
    /\ \A n \in OrderIds \ {o} : order'[n] = order[n] /\ held'[n] = held[n]
    /\ order[o].state # "NONE" => order'[o].user = order[o].user /\ order'[o].op = order[o].op
    /\ order[o].state # "REVERT" /\ order'[o].state \notin {"NONE", "REVERT"}
    /\ held'[o] \in Int
    /\ amount' = Credited(order'[o].user, Only(HeldIn(order'[o]), held[o] - held'[o]))
    /\ UNCHANGED <<matches, fees, voided>>

HoldMoves == UNCHANGED dbVars \/ \E o \in OrderIds : OneHold(o)

(* create_order holds what it takes from the balance. *)
LEMMA CreateMovesHold ==
    ASSUME TypeInv, NEW x \in Row, x.id \in OrderIds, order[x.id].state = "NONE",
           held[x.id] = 0, x.state = "OPENED", CreateRow(x)
    PROVE  OneHold(x.id)
<1>1. /\ order \in [OrderIds -> Row] /\ held \in [OrderIds -> Int]
      /\ order' = [order EXCEPT ![x.id] = x] /\ held' = [held EXCEPT ![x.id] = Refund(x)]
      /\ amount' = Credited(x.user, Only(HeldIn(x), -Refund(x)))
      /\ UNCHANGED <<matches, fees, voided>>
  BY DEF TypeInv, TypeOK, CreateRow
<1>2. Refund(x) \in Nat
  BY RefundIsNat
<1>3. order'[x.id] = x /\ held'[x.id] = Refund(x)
  BY <1>1
<1>4. held[x.id] - held'[x.id] = -Refund(x)
  BY <1>2, <1>3
<1>5. amount' = Credited(order'[x.id].user, Only(HeldIn(order'[x.id]), held[x.id] - held'[x.id]))
  BY <1>1, <1>3, <1>4
<1> QED BY <1>1, <1>2, <1>3, <1>5 DEF OneHold

(* _cancel_order gives back what is held. *)
LEMMA CancelMovesHold ==
    ASSUME TypeInv, NEW x, x.id \in OrderIds, x = order[x.id], x.state = "OPENED", CancelRow(x)
    PROVE  OneHold(x.id)
<1> DEFINE y == [x EXCEPT !.state = "CANCELED"]
<1>1. /\ order \in [OrderIds -> Row] /\ held \in [OrderIds -> Int] /\ x \in Row
      /\ order' = [order EXCEPT ![x.id] = y] /\ held' = [held EXCEPT ![x.id] = @ - Refund(x)]
      /\ amount' = Credited(x.user, Only(HeldIn(x), Refund(x)))
      /\ UNCHANGED <<matches, fees, voided>>
  BY DEF TypeInv, TypeOK, CancelRow
<1>2. y.user = x.user /\ y.op = x.op /\ y.state = "CANCELED"
  BY <1>1 DEF Row
<1>3. Refund(x) \in Nat /\ HeldIn(y) = HeldIn(x)
  BY <1>1, <1>2, RefundIsNat DEF HeldIn
<1> HIDE DEF y
<1>4. order'[x.id] = y /\ held'[x.id] = held[x.id] - Refund(x)
  BY <1>1
<1>5. held[x.id] - held'[x.id] = Refund(x) /\ held'[x.id] \in Int
  BY <1>1, <1>3, <1>4
<1>6. amount' = Credited(order'[x.id].user, Only(HeldIn(order'[x.id]), held[x.id] - held'[x.id]))
  BY <1>1, <1>2, <1>3, <1>4, <1>5
<1> QED BY <1>1, <1>2, <1>4, <1>5, <1>6 DEF OneHold

(* No order has a hold before it exists. *)
NoneHeld == \A o \in OrderIds : order[o].state = "NONE" => held[o] = 0

(* A limit order is created with its hold. *)
LEMMA CreateOrderMoves == TypeInv /\ NoneHeld /\ CreateOrder => HoldMoves
<1> SUFFICES ASSUME TypeInv, NoneHeld, CreateOrder PROVE HoldMoves
  OBVIOUS
<1>1. PICK u \in Users, op \in {"BUY", "SELL"}, p \in Prices, q \in Quantities, o \in OrderIds :
        LET x == [id |-> o, user |-> u, op |-> op, market |-> FALSE, price |-> p,
                  qty |-> q, left |-> q, cost |-> 0, state |-> "OPENED"]
        IN  Free(o) /\ CreateRow(x)
  BY ZenonT(60) DEF CreateOrder
<1> DEFINE x == [id |-> o, user |-> u, op |-> op, market |-> FALSE, price |-> p,
                 qty |-> q, left |-> q, cost |-> 0, state |-> "OPENED"]
<1>2. x.id = o /\ Free(o) /\ CreateRow(x) /\ x.state = "OPENED"
  BY <1>1
<1>3. x \in Row
  <2>1. q \in Nat /\ p \in Nat
    BY OrderBookAssumption
  <2> QED BY <2>1 DEF Row, OrderIds
<1> HIDE DEF x
<1>4. order[o].state = "NONE" /\ held[o] = 0
  BY <1>2 DEF Free, NoneHeld
<1> QED BY <1>2, <1>3, <1>4, CreateMovesHold DEF HoldMoves

(* A market order is created with its hold. *)
LEMMA MarketOrderMoves == MirrorInv /\ NoneHeld /\ MarketOrderTask => HoldMoves
<1> SUFFICES ASSUME MirrorInv, NoneHeld, MarketOrderTask PROVE HoldMoves
  OBVIOUS
<1> DEFINE m == Head(queue).row
<1>1. PICK o \in OrderIds :
        LET x == [m EXCEPT !.id = o, !.market = TRUE, !.left = m.qty, !.state = "OPENED"]
        IN  Free(o) /\ (UNCHANGED dbVars \/ CreateRow(x))
  BY DEF MarketOrderTask
<1> DEFINE x == [m EXCEPT !.id = o, !.market = TRUE, !.left = m.qty, !.state = "OPENED"]
<1>2. Free(o) /\ (UNCHANGED dbVars \/ CreateRow(x))
  BY <1>1
<1>3. m \in Row
  <2>1. Take("market")
    BY DEF MarketOrderTask
  <2> QED BY <2>1, TaskFinds
<1> HIDE DEF m
<1>4. x \in Row /\ x.id = o /\ x.state = "OPENED"
  <2>1. m.qty \in Nat /\ o \in 0 .. MaxOrders
    BY <1>3, RowFields DEF OrderIds
  <2> QED BY <1>3, <2>1 DEF Row
<1> HIDE DEF x
<1>5. order[o].state = "NONE" /\ held[o] = 0 /\ TypeInv
  BY <1>2, MirrorParts DEF Free, NoneHeld
<1> QED BY <1>2, <1>4, <1>5, CreateMovesHold DEF HoldMoves

(* cancel_order of the worker gives the hold back. *)
LEMMA CancelOrderMoves == MirrorInv /\ CancelOrderTask => HoldMoves
<1> SUFFICES ASSUME MirrorInv, CancelOrderTask PROVE HoldMoves
  OBVIOUS
<1> DEFINE x == order[Head(queue).row.id]
<1>1. UNCHANGED dbVars \/ (x.state = "OPENED" /\ CancelRow(x))
  BY DEF CancelOrderTask
<1>2. x.id \in OrderIds /\ x = order[x.id] /\ TypeInv
  <2>1. Take("cancel")
    BY DEF CancelOrderTask
  <2> QED BY <2>1, TaskFinds, MirrorParts
<1> HIDE DEF x
<1> QED BY <1>1, <1>2, CancelMovesHold DEF HoldMoves

(* update_order changes the hold by what it charges. *)
LEMMA UpdateOrderMoves == MirrorInv /\ UpdateOrderTask => HoldMoves
<1> SUFFICES ASSUME MirrorInv, UpdateOrderTask PROVE HoldMoves
  OBVIOUS
<1> DEFINE m == Head(queue).row
           x == order[m.id]
           y == Updated(x, m)
<1>1. \/ UNCHANGED dbVars
      \/ /\ ~UpdateRefused(x, y)
         /\ order' = [order EXCEPT ![x.id] = y]
         /\ amount' = Credited(x.user, Only(HeldIn(x), -Charge(x, y)))
         /\ held' = [held EXCEPT ![x.id] = @ + Charge(x, y)]
         /\ UNCHANGED <<matches, fees, voided>>
  BY DEF UpdateOrderTask
<1>2. TypeInv /\ DatabaseOK /\ Take("update")
  BY MirrorParts, TypeParts DEF UpdateOrderTask
<1>3. m \in Row /\ Exists(order, m.id) /\ m.price > 0
  BY <1>2, TakeKeepsProcesses DEF MessageOK
<1>4. x \in Row /\ Stored(order, x) /\ x = order[x.id] /\ x.id \in OrderIds
  BY <1>2, <1>3, TypeParts DEF DatabaseOK, Exists, Stored
<1>5. y.user = x.user /\ y.op = x.op /\ y.state = x.state
  BY <1>4 DEF Updated, Row
<1>6. HeldIn(y) = HeldIn(x)
  BY <1>5 DEF HeldIn
<1> HIDE DEF m, x
<1> SUFFICES ASSUME ~UpdateRefused(x, y),
                    order' = [order EXCEPT ![x.id] = y],
                    amount' = Credited(x.user, Only(HeldIn(x), -Charge(x, y))),
                    held' = [held EXCEPT ![x.id] = @ + Charge(x, y)],
                    UNCHANGED <<matches, fees, voided>>
             PROVE  OneHold(x.id)
  BY <1>1, <1>4 DEF HoldMoves
<1>7. Charge(x, y) \in Int /\ x.state = "OPENED"
  BY <1>2, <1>3, <1>4, UpdateIsTyped DEF UpdateRefused
<1> HIDE DEF y
<1>8. order \in [OrderIds -> Row] /\ held \in [OrderIds -> Int]
  BY <1>2 DEF DatabaseOK
<1>9. order'[x.id] = y /\ held'[x.id] = held[x.id] + Charge(x, y)
  BY <1>4, <1>8
<1>10. held[x.id] - held'[x.id] = -Charge(x, y) /\ held'[x.id] \in Int
  BY <1>4, <1>7, <1>8, <1>9
<1>11. amount' = Credited(order'[x.id].user, Only(HeldIn(order'[x.id]), held[x.id] - held'[x.id]))
  BY <1>5, <1>6, <1>9, <1>10
<1> QED BY <1>4, <1>5, <1>7, <1>8, <1>9, <1>10, <1>11 DEF OneHold

(* market_execute cancels what the book cannot serve. *)
LEMMA MarketExecuteMoves == MirrorInv /\ voided = {} /\ MarketExecute => HoldMoves
<1> SUFFICES ASSUME MirrorInv, voided = {}, MarketExecute PROVE HoldMoves
  OBVIOUS
<1>1. PICK x : x = cur.obj
  OBVIOUS
<1>2. cur.phase = "market" /\ (UNCHANGED dbVars \/ CancelRow(x))
  BY <1>1 DEF MarketExecute
<1>3. x.id \in OrderIds /\ x = order[x.id]
  BY <1>1, <1>2, WorkIsSound
<1>4. x.state = "OPENED" /\ TypeInv
  BY <1>1, <1>2, MirrorParts DEF CurSound
<1> QED BY <1>2, <1>3, <1>4, CancelMovesHold DEF HoldMoves

(* The end of a match closes or books the order. *)
LEMMA FinishMoves == MirrorInv /\ voided = {} /\ Finish => HoldMoves
<1> SUFFICES ASSUME MirrorInv, voided = {}, Finish PROVE HoldMoves
  OBVIOUS
<1>1. PICK x : x = cur.obj
  OBVIOUS
<1> DEFINE y == [x EXCEPT !.state = "CLOSED", !.cost = 0]
<1>2. /\ cur.phase = "match"
      /\ \/ UNCHANGED dbVars
         \/ x.state = "OPENED" /\ CancelRow(x)
         \/ /\ x.market /\ x.cost > 0
            /\ order' = [order EXCEPT ![x.id] = y]
            /\ amount' = Credited(x.user, Only("quote", x.cost))
            /\ held' = [held EXCEPT ![x.id] = @ - x.cost]
            /\ UNCHANGED <<matches, fees, voided>>
  BY <1>1 DEF Finish, CloseMarket
<1>3. /\ x \in Row /\ x.id \in OrderIds /\ x = order[x.id] /\ x.state \in {"OPENED", "CLOSED"}
      /\ order \in [OrderIds -> Row] /\ held \in [OrderIds -> Int]
  BY <1>1, <1>2, WorkIsSound
<1>4. TypeInv /\ RowSound(x)
  BY <1>3, MirrorParts DEF RowsInv
<1>5. CASE x.state = "OPENED" /\ CancelRow(x)
  BY <1>3, <1>4, <1>5, CancelMovesHold DEF HoldMoves
<1>6. CASE /\ x.market /\ x.cost > 0
           /\ order' = [order EXCEPT ![x.id] = y]
           /\ amount' = Credited(x.user, Only("quote", x.cost))
           /\ held' = [held EXCEPT ![x.id] = @ - x.cost]
           /\ UNCHANGED <<matches, fees, voided>>
  <2>1. x.cost \in Nat /\ MarketBuy(x)
    BY <1>3, <1>4, <1>6, RowFields DEF RowSound, MarketBuy
  <2>2. y.user = x.user /\ y.op = x.op /\ y.state = "CLOSED"
    BY <1>3 DEF Row
  <2>3. HeldIn(y) = "quote"
    BY <2>1, <2>2 DEF HeldIn, MarketBuy
  <2> HIDE DEF y
  <2>4. order'[x.id] = y /\ held'[x.id] = held[x.id] - x.cost
    BY <1>3, <1>6
  <2>5. held[x.id] - held'[x.id] = x.cost /\ held'[x.id] \in Int
    BY <1>3, <2>1, <2>4
  <2>6. amount' = Credited(order'[x.id].user, Only(HeldIn(order'[x.id]), held[x.id] - held'[x.id]))
    BY <1>6, <2>2, <2>3, <2>4, <2>5
  <2>7. OneHold(x.id)
    BY <1>3, <1>6, <2>2, <2>4, <2>5, <2>6 DEF OneHold
  <2> QED BY <1>3, <2>7 DEF HoldMoves
<1> QED BY <1>2, <1>5, <1>6 DEF HoldMoves

(* A step that is no match moves one hold at most. *)
LEMMA NotMatchMoves == MirrorInv /\ NoneHeld /\ voided = {} /\ NotMatch => HoldMoves
<1> SUFFICES ASSUME MirrorInv, NoneHeld, voided = {}, NotMatch PROVE HoldMoves
  OBVIOUS
<1>1. TypeInv
  BY MirrorParts
<1>2. CASE RequestCancel \/ RequestUpdate \/ RequestMarket
  BY <1>2 DEF RequestCancel, RequestUpdate, RequestMarket, HoldMoves
<1>3. CASE SendPlaceOrder \/ Restart \/ Redeliver \/ CancelKeyExpires \/ Quiescent
  BY <1>3 DEF SendPlaceOrder, Restart, Redeliver, CancelKeyExpires, Quiescent, vars, HoldMoves
<1>4. CASE PlaceOrderTask \/ MatchFails \/ LoadOpenedOrder
  BY <1>4 DEF PlaceOrderTask, MatchFails, LoadOpenedOrder, HoldMoves
<1> QED BY <1>1, <1>2, <1>3, <1>4, CreateOrderMoves, MarketOrderMoves, CancelOrderMoves,
           UpdateOrderMoves, MarketExecuteMoves, FinishMoves DEF NotMatch, Web

(* ExecutionResults are made by matches only. *)
LEMMA NotMatchNoResult == NotMatch => matches' = matches /\ voided' = voided
<1> SUFFICES ASSUME NotMatch PROVE matches' = matches /\ voided' = voided
  OBVIOUS
<1>0. /\ UNCHANGED dbVars => matches' = matches /\ voided' = voided
      /\ \A x : CreateRow(x) \/ CancelRow(x) => matches' = matches /\ voided' = voided
  BY DEF dbVars, CreateRow, CancelRow
<1>1. CASE CreateOrder
  <2>1. \E x : CreateRow(x)
    BY <1>1 DEF CreateOrder
  <2> QED BY <1>0, <2>1
<1>2. CASE RequestCancel \/ RequestUpdate \/ RequestMarket
  BY <1>0, <1>2 DEF RequestCancel, RequestUpdate, RequestMarket
<1>3. CASE SendPlaceOrder \/ Restart \/ Redeliver \/ CancelKeyExpires \/ Quiescent
  BY <1>0, <1>3 DEF SendPlaceOrder, Restart, Redeliver, CancelKeyExpires, Quiescent, vars
<1>4. CASE PlaceOrderTask \/ MatchFails \/ LoadOpenedOrder
  BY <1>0, <1>4 DEF PlaceOrderTask, MatchFails, LoadOpenedOrder
<1>5. CASE CancelOrderTask \/ MarketExecute
  BY <1>0, <1>5 DEF CancelOrderTask, MarketExecute
<1>6. CASE UpdateOrderTask
  BY <1>0, <1>6 DEF UpdateOrderTask
<1>7. CASE MarketOrderTask
  <2>1. UNCHANGED dbVars \/ \E x : CreateRow(x)
    BY <1>7 DEF MarketOrderTask
  <2> QED BY <1>0, <2>1
<1>8. CASE Finish
  BY <1>0, <1>8 DEF Finish, CloseMarket
<1> QED BY <1>1, <1>2, <1>3, <1>4, <1>5, <1>6, <1>7, <1>8 DEF NotMatch, Web

-----------------------------------------------------------------------------
(* What a match does to the holds, the balances and the books.             *)

(* In a fill that is not void the order o is paid g, less the fee f, and r *)
(* of its hold comes back; the other order has to pay g.                   *)
Gain(o, c, g, f, r) ==
    (IF c = GainedIn(order[o]) THEN g - f ELSE 0) + (IF c = HeldIn(order[o]) THEN r ELSE 0)

(* a and b are matched. *)
Matched(a, b, ga, fa, ra, gb, fb, rb) ==
    /\ a # b /\ order[a].op # order[b].op
    /\ \A o \in {a, b} :
          /\ order[o].state \notin {"NONE", "REVERT"} /\ order'[o].state \notin {"NONE", "REVERT"}
          /\ order'[o].user = order[o].user /\ order'[o].op = order[o].op
    /\ \A o \in OrderIds \ {a, b} : order'[o] = order[o] /\ held'[o] = held[o] /\ own'[o] = own[o]
    /\ held'[a] = held[a] - gb - ra /\ held'[b] = held[b] - ga - rb
    /\ \A c \in Currencies : /\ own'[a][c] = own[a][c] + Gain(a, c, ga, fa, ra)
                             /\ own'[b][c] = own[b][c] + Gain(b, c, gb, fb, rb)
    /\ <<a, b>> \notin matches /\ <<b, a>> \notin matches
    /\ matches' = matches \cup {<<a, b>>, <<b, a>>}
    /\ \A m \in matches : deal'[m] = deal[m]
    /\ deal'[<<a, b>>].gross = ga /\ deal'[<<a, b>>].fee = fa
    /\ deal'[<<b, a>>].gross = gb /\ deal'[<<b, a>>].fee = fb
    /\ fa <= ga /\ fb <= gb =>
          \A u \in Users, c \in Currencies :
              amount'[u][c] = amount[u][c]
                  + (IF u = order[a].user THEN Gain(a, c, ga, fa, ra) ELSE 0)
                  + (IF u = order[b].user THEN Gain(b, c, gb, fb, rb) ELSE 0)
    /\ \A c \in Currencies :
          fees'[c] = fees[c] + (IF c = GainedIn(order[a]) THEN fa ELSE 0)
                             + (IF c = GainedIn(order[b]) THEN fb ELSE 0)

(* The best order is one. *)
LEMMA BestIsOne ==
    ASSUME TypeInv, cur.phase = "match", NEW r \in OrderIds, NEW s \in OrderIds, Best(r), Best(s)
    PROVE  r = s
<1> SUFFICES ASSUME r # s PROVE FALSE
  OBVIOUS
<1>1. Before(stack[r].row, stack[s].row) /\ Before(stack[s].row, stack[r].row)
  BY DEF Best
<1>2. r \in cur.todo /\ s \in cur.todo
  BY DEF Best
<1>3. TodoOK(stack, cur) /\ StackOK(order, stack) /\ stack \in Stacks /\ cur \in Works
  BY DEF TypeInv, TypeOK, CurOK, Stacks, Works
<1>4. stack[r].row \in Row /\ stack[s].row \in Row /\ cur.obj \in Row
      /\ stack[r].row.op # cur.obj.op /\ stack[s].row.op # cur.obj.op
  BY <1>2, <1>3 DEF TodoOK, Stacks, Works
<1>5. stack[r].row.op = stack[s].row.op
  BY <1>4, RowFields
<1> QED BY <1>1, <1>4, <1>5, BeforeIsOrder

(* The amounts of a fill. *)
LEMMA FillAmounts ==
    ASSUME NEW x \in Row, NEW y \in Row, NEW q \in Nat, NEW p \in Nat, x.op # y.op,
           x.op = "BUY" /\ ~x.market => p <= x.price
    PROVE  /\ Gross(x, q, p) \in Nat /\ FeeOf(x, q, p) \in Nat /\ Cacheback(x, q, p) \in Nat
           /\ ~Void(x, q, p) => /\ Released(x, q, p) = Cacheback(x, q, p) + Gross(y, q, p)
                                /\ \A c \in Currencies :
                                     /\ BookedFor(x, q, p)[c] =
                                           (IF c = GainedIn(x) THEN Gross(x, q, p) - FeeOf(x, q, p) ELSE 0)
                                           + (IF c = HeldIn(x) THEN Cacheback(x, q, p) ELSE 0)
                                     /\ FeeOf(x, q, p) <= Gross(x, q, p) =>
                                           Credit(x, q, p)[c] = BookedFor(x, q, p)[c]
<1>1. Gross(x, q, p) \in Nat /\ FeeOf(x, q, p) \in Nat
  BY GrossAndFee
<1>2. Cacheback(x, q, p) \in Nat
  <2>1. CASE x.op = "BUY" /\ ~x.market
    <3>1. x.price - p \in Nat
      BY <2>1, RowFields
    <3> QED BY <2>1, <3>1, ValueIsNat DEF Cacheback
  <2> QED BY <2>1 DEF Cacheback
<1>3. ASSUME ~Void(x, q, p) PROVE Released(x, q, p) = Cacheback(x, q, p) + Gross(y, q, p)
  BY <1>3, RowFields DEF Released, Gross
<1>4. ASSUME ~Void(x, q, p), NEW c \in Currencies
      PROVE  BookedFor(x, q, p)[c] =
                 (IF c = GainedIn(x) THEN Gross(x, q, p) - FeeOf(x, q, p) ELSE 0)
                 + (IF c = HeldIn(x) THEN Cacheback(x, q, p) ELSE 0)
  <2> DEFINE g == Gross(x, q, p) - FeeOf(x, q, p)
             b == Cacheback(x, q, p)
             h == HeldIn(x)
  <2>1. BookedFor(x, q, p) = [Only(GainedIn(x), g) EXCEPT ![h] = @ + b]
    BY <1>4 DEF BookedFor, PlusIn
  <2>2. g \in Int /\ b \in Int /\ h \in Currencies
    BY <1>1, <1>2, HeldInCurrency
  <2> HIDE DEF g, b, h
  <2>3. BookedFor(x, q, p)[c] = (IF c = GainedIn(x) THEN g ELSE 0) + (IF c = h THEN b ELSE 0)
    BY <2>1, <2>2 DEF Only
  <2> QED BY <2>3 DEF g, b, h
<1>5. ASSUME ~Void(x, q, p), NEW c \in Currencies, FeeOf(x, q, p) <= Gross(x, q, p)
      PROVE  Credit(x, q, p)[c] = BookedFor(x, q, p)[c]
  <2>1. Abs(Gross(x, q, p) - FeeOf(x, q, p)) = Gross(x, q, p) - FeeOf(x, q, p)
    BY <1>1, <1>5 DEF Abs
  <2>2. VoidRefund(x, q, p) = 0
    BY <1>5 DEF VoidRefund, VoidCancels
  <2>3. Credit(x, q, p)[c] =
            (IF c = GainedIn(x) THEN Abs(Gross(x, q, p) - FeeOf(x, q, p)) ELSE 0)
            + (IF c = HeldIn(x) THEN Cacheback(x, q, p) + VoidRefund(x, q, p) ELSE 0)
    BY <1>5 DEF Credit
  <2> QED BY <1>1, <1>2, <1>4, <1>5, <2>1, <2>2, <2>3
<1> QED BY <1>1, <1>2, <1>3, <1>4, <1>5

(* A match, as _execute books it. *)
LEMMA MatchMoves ==
    ASSUME MirrorInv, BooksOK, Match, FillBooked, voided' = {}
    PROVE  \E a, b \in OrderIds, ga, fa, ra, gb, fb, rb \in Nat :
               Matched(a, b, ga, fa, ra, gb, fb, rb)
<1>1. PICK r \in OrderIds : Best(r) /\ Execute(r)
  BY DEF Match
<1>2. cur.phase = "match" /\ cur.phase # "idle"
  BY DEF Match
<1>3. PICK x, y : x = cur.obj /\ y = stack[r].row
  OBVIOUS
<1>4. PICK p, q : p = y.price /\ q = FillQuantity(x, y)
  OBVIOUS
<1> DEFINE x1 == Filled(x, q, p)
           y1 == Filled(y, q, p)
           y2 == [y1 EXCEPT !.state = "CANCELED"]
           y3 == IF DustCancels(y1) THEN y2 ELSE Saved(y, q, p)
           of(z) == [gross |-> Gross(z, q, p), fee |-> FeeOf(z, q, p)]
           net(z) == IF Void(z, q, p) THEN {} ELSE {z.id}
<1>5. /\ order' = [order EXCEPT ![x.id] = Saved(x, q, p), ![r] = y3]
      /\ held' = [held EXCEPT
            ![x.id] = @ - Released(x, q, p),
            ![r] = @ - Released(y, q, p) - DustRefund(y1)]
      /\ amount' = [u \in Users |-> [c \in Currencies |->
            amount[u][c]
            + (IF u = x.user THEN Credit(x, q, p)[c] ELSE 0)
            + (IF u = y.user THEN Credit(y, q, p)[c] + Only("base", DustRefund(y1))[c]
               ELSE 0)]]
      /\ matches' = matches \cup (net(x) \X {r}) \cup (net(y) \X {x.id})
      /\ voided' = voided \cup {z \in {x.id, r} : Void(IF z = r THEN y ELSE x, q, p)}
      /\ fees' = [c \in Currencies |->
            fees[c]
            + (IF c = GainedIn(x) /\ ~Void(x, q, p) THEN FeeOf(x, q, p) ELSE 0)
            + (IF c = GainedIn(y) /\ ~Void(y, q, p) THEN FeeOf(y, q, p) ELSE 0)]
      /\ ~ExecuteFails(x, y, q)
  BY <1>1, <1>3, <1>4 DEF Execute
<1>6. TypeInv /\ voided = {}
  BY <1>5, MirrorParts
<1>7. /\ x \in Row /\ x.id # r /\ y \in Row /\ y.id = r /\ q \in Nat /\ p \in Nat
      /\ x.op = "BUY" /\ ~x.market => p <= x.price
      /\ x1 \in Row /\ y1 \in Row
      /\ order \in [OrderIds -> Row] /\ held \in [OrderIds -> Int]
      /\ amount \in [Users -> [Currencies -> Nat]] /\ fees \in [Currencies -> Int]
  BY <1>1, <1>2, <1>3, <1>4, <1>6, FillIsSound DEF TypeInv, TypeOK
<1>8. x.id \in OrderIds /\ x = order[x.id] /\ x.state \in {"OPENED", "CLOSED"}
  BY <1>2, <1>3, <1>6, WorkIsSound
<1>9. y = order[r] /\ y.state = "OPENED" /\ x.op # y.op
  <2>1. r \in cur.todo /\ TodoOK(stack, cur)
    BY <1>1, <1>2, <1>6 DEF Best, TypeInv, CurOK
  <2>2. InStack(stack, r) /\ x.op # y.op
    BY <1>3, <2>1 DEF TodoOK
  <2>3. r \notin Disturbed /\ r \notin voided
    BY <1>6 DEF Disturbed
  <2>4. RestsSound(r)
    BY <2>2, MirrorParts DEF BookSound
  <2>5. cur.phase # "reprice"
    BY <1>2
  <2> QED BY <1>3, <2>2, <2>3, <2>4, <2>5 DEF RestsSound
<1>10. ~Void(x, q, p) /\ ~Void(y, q, p)
  BY <1>5, <1>7
<1>11. /\ x1.user = x.user /\ x1.op = x.op /\ x1.state \in {"CLOSED", x.state}
       /\ y1.user = y.user /\ y1.op = y.op /\ y1.state \in {"CLOSED", y.state}
       /\ y1.left \in Nat
  BY <1>7, FilledFields, RowFields
<1>12. y2.user = y1.user /\ y2.op = y1.op /\ y2.state = "CANCELED"
  BY <1>7 DEF Row
<1>13. Saved(x, q, p) = x1 /\ Saved(y, q, p) = y1
  BY <1>10 DEF Saved
<1>14. /\ y3.user = y.user /\ y3.op = y.op /\ y3.state \in {"CLOSED", "OPENED", "CANCELED"}
  BY <1>9, <1>11, <1>12, <1>13
<1> DEFINE d == DustRefund(y1)
<1>15. d \in Nat /\ (d = 0 \/ HeldIn(y) = "base")
  BY <1>11 DEF DustRefund, DustCancels, IsDust, HeldIn
<1> DEFINE ga == Gross(x, q, p)
           fa == FeeOf(x, q, p)
           ra == Cacheback(x, q, p)
           gb == Gross(y, q, p)
           fb == FeeOf(y, q, p)
           rb == Cacheback(y, q, p) + d
<1>16. /\ ga \in Nat /\ fa \in Nat /\ ra \in Nat
       /\ Released(x, q, p) = ra + gb
       /\ \A c \in Currencies :
            /\ BookedFor(x, q, p)[c] = (IF c = GainedIn(x) THEN ga - fa ELSE 0)
                                       + (IF c = HeldIn(x) THEN ra ELSE 0)
            /\ fa <= ga => Credit(x, q, p)[c] = BookedFor(x, q, p)[c]
  BY <1>7, <1>9, <1>10, FillAmounts
<1>17. /\ gb \in Nat /\ fb \in Nat /\ Cacheback(y, q, p) \in Nat
       /\ Released(y, q, p) = Cacheback(y, q, p) + ga
       /\ \A c \in Currencies :
            /\ BookedFor(y, q, p)[c] = (IF c = GainedIn(y) THEN gb - fb ELSE 0)
                                       + (IF c = HeldIn(y) THEN Cacheback(y, q, p) ELSE 0)
            /\ fb <= gb => Credit(y, q, p)[c] = BookedFor(y, q, p)[c]
  <2>1. y.op = "BUY" /\ ~y.market => p <= y.price
    BY <1>4, <1>7
  <2>2. y.op # x.op
    BY <1>9
  <2> QED BY <1>7, <1>10, <2>1, <2>2, FillAmounts
<1>18. /\ own' = [own EXCEPT
            ![x.id] = Summed(@, BookedFor(x, q, p)),
            ![r] = PlusIn(Summed(@, BookedFor(y, q, p)), "base", d)]
       /\ deal' = [m \in matches' |->
            IF m \in matches THEN deal[m] ELSE of(IF m[1] = r THEN y ELSE x)]
  <2>1. PICK s \in cur.todo :
        LET z == stack[s].row
            k == z.price
            n == FillQuantity(x, z)
            to(w) == [gross |-> Gross(w, n, k), fee |-> FeeOf(w, n, k)]
        IN  /\ Best(s)
            /\ own' = [own EXCEPT
                    ![x.id] = Summed(@, BookedFor(x, n, k)),
                    ![s] = PlusIn(Summed(@, BookedFor(z, n, k)),
                                  "base", DustRefund(Filled(z, n, k)))]
            /\ deal' = [m \in matches' |->
                    IF m \in matches THEN deal[m] ELSE to(IF m[1] = s THEN z ELSE x)]
    BY <1>3, ZenonT(60) DEF FillBooked
  <2>2. s \in OrderIds
    BY <1>6 DEF TypeInv, TypeOK
  <2>3. s = r
    BY <1>1, <1>2, <1>6, <2>1, <2>2, BestIsOne
  <2> QED BY <1>3, <1>4, <2>1, <2>3
<1> HIDE DEF x1, y1, y2, y3, d, ga, fa, ra, gb, fb
<1>19. rb \in Nat
  BY <1>15, <1>17
<1>20. <<x.id, r>> \notin matches /\ <<r, x.id>> \notin matches
  BY <1>4, <1>5, <1>7, <1>10 DEF ExecuteFails
<1>21. matches' = matches \cup {<<x.id, r>>, <<r, x.id>>}
  BY <1>5, <1>7, <1>10
<1>22. /\ \A m \in matches : deal'[m] = deal[m]
       /\ deal'[<<x.id, r>>] = of(x) /\ deal'[<<r, x.id>>] = of(y)
  BY <1>7, <1>18, <1>20, <1>21
<1>23. /\ order'[x.id] = x1 /\ order'[r] = y3
       /\ \A o \in OrderIds \ {x.id, r} : order'[o] = order[o] /\ held'[o] = held[o]
       /\ held'[x.id] = held[x.id] - Released(x, q, p)
       /\ held'[r] = held[r] - Released(y, q, p) - d
  BY <1>5, <1>7, <1>8, <1>13 DEF d
<1>24. held'[x.id] = held[x.id] - gb - ra /\ held'[r] = held[r] - ga - rb
  BY <1>7, <1>8, <1>15, <1>16, <1>17, <1>23
<1>25. /\ \A o \in OrderIds \ {x.id, r} : own'[o] = own[o]
       /\ own'[x.id] = Summed(own[x.id], BookedFor(x, q, p))
       /\ own'[r] = PlusIn(Summed(own[r], BookedFor(y, q, p)), "base", d)
  BY <1>7, <1>8, <1>18 DEF BooksOK
<1>26. ASSUME NEW c \in Currencies
       PROVE  own'[x.id][c] = own[x.id][c] + Gain(x.id, c, ga, fa, ra)
  <2>1. Gain(x.id, c, ga, fa, ra) = BookedFor(x, q, p)[c]
    BY <1>8, <1>16 DEF Gain
  <2> QED BY <1>25, <2>1 DEF Summed
<1>27. ASSUME NEW c \in Currencies
       PROVE  /\ Gain(r, c, gb, fb, rb) = BookedFor(y, q, p)[c] + (IF c = "base" THEN d ELSE 0)
              /\ own'[r][c] = own[r][c] + Gain(r, c, gb, fb, rb)
  <2>1. Gain(r, c, gb, fb, rb) = BookedFor(y, q, p)[c] + (IF c = "base" THEN d ELSE 0)
    <3>1. (IF c = HeldIn(y) THEN rb ELSE 0) =
              (IF c = HeldIn(y) THEN Cacheback(y, q, p) ELSE 0) + (IF c = "base" THEN d ELSE 0)
      <4>1. CASE d = 0
        BY <1>17, <4>1
      <4>2. CASE HeldIn(y) = "base"
        BY <1>15, <1>17, <4>2
      <4> QED BY <1>15, <4>1, <4>2
    <3>2. BookedFor(y, q, p)[c] = (IF c = GainedIn(y) THEN gb - fb ELSE 0)
                                  + (IF c = HeldIn(y) THEN Cacheback(y, q, p) ELSE 0)
      BY <1>17
    <3>3. Gain(r, c, gb, fb, rb) = (IF c = GainedIn(y) THEN gb - fb ELSE 0)
                                   + (IF c = HeldIn(y) THEN rb ELSE 0)
      BY <1>9 DEF Gain
    <3> QED BY <1>15, <1>17, <3>1, <3>2, <3>3
  <2>2. Summed(own[r], BookedFor(y, q, p))
          = [k \in Currencies |-> own[r][k] + BookedFor(y, q, p)[k]]
    BY DEF Summed
  <2>3. own'[r][c] = own[r][c] + BookedFor(y, q, p)[c] + (IF c = "base" THEN d ELSE 0)
    <3>1. own[r][c] \in Int /\ BookedFor(y, q, p)[c] \in Int
      BY <1>17 DEF BooksOK
    <3> QED BY <1>25, <2>2, <3>1 DEF PlusIn, Currencies
  <2>4. own[r][c] \in Int /\ BookedFor(y, q, p)[c] \in Int
    BY <1>17 DEF BooksOK
  <2> QED BY <1>15, <2>1, <2>3, <2>4
<1>28. ASSUME fa <= ga, fb <= gb, NEW u \in Users, NEW c \in Currencies
       PROVE  amount'[u][c] = amount[u][c]
                  + (IF u = order[x.id].user THEN Gain(x.id, c, ga, fa, ra) ELSE 0)
                  + (IF u = order[r].user THEN Gain(r, c, gb, fb, rb) ELSE 0)
  <2>1. Gain(x.id, c, ga, fa, ra) = Credit(x, q, p)[c]
    BY <1>8, <1>16, <1>28 DEF Gain
  <2>2. Gain(r, c, gb, fb, rb) = Credit(y, q, p)[c] + Only("base", d)[c]
    BY <1>17, <1>27, <1>28 DEF Only
  <2>3. amount'[u][c] = amount[u][c]
            + (IF u = x.user THEN Credit(x, q, p)[c] ELSE 0)
            + (IF u = y.user THEN Credit(y, q, p)[c] + Only("base", d)[c] ELSE 0)
    BY <1>5 DEF d
  <2> QED BY <1>8, <1>9, <2>1, <2>2, <2>3
<1>29. \A c \in Currencies :
          fees'[c] = fees[c] + (IF c = GainedIn(order[x.id]) THEN fa ELSE 0)
                             + (IF c = GainedIn(order[r]) THEN fb ELSE 0)
  BY <1>5, <1>8, <1>9, <1>10 DEF fa, fb
<1>30. /\ deal'[<<x.id, r>>].gross = ga /\ deal'[<<x.id, r>>].fee = fa
       /\ deal'[<<r, x.id>>].gross = gb /\ deal'[<<r, x.id>>].fee = fb
  BY <1>22 DEF ga, fa, gb, fb
<1>31. \A o \in {x.id, r} :
          /\ order[o].state \notin {"NONE", "REVERT"} /\ order'[o].state \notin {"NONE", "REVERT"}
          /\ order'[o].user = order[o].user /\ order'[o].op = order[o].op
  BY <1>8, <1>9, <1>11, <1>14, <1>23
<1>32. Matched(x.id, r, ga, fa, ra, gb, fb, rb)
  <2> HIDE DEF rb, of
  <2> QED BY <1>7, <1>8, <1>9, <1>20, <1>21, <1>22, <1>23, <1>24, <1>25, <1>26, <1>27, <1>28, <1>29,
             <1>30, <1>31 DEF Matched
<1> HIDE DEF rb
<1> QED BY <1>8, <1>16, <1>17, <1>19, <1>32

(* The sums stay sums of integers. *)
LEMMA SumsAreTyped ==
    ASSUME NEW s \in [Currencies -> Int], NEW c \in Currencies, NEW n \in Int,
           NEW t \in [Currencies -> Int]
    PROVE  PlusIn(s, c, n) \in [Currencies -> Int] /\ Summed(s, t) \in [Currencies -> Int]
  BY DEF PlusIn, Summed

(* A step that moves holds keeps what is booked for each order. *)
LEMMA HoldsAreBooked ==
    ASSUME TypeInv, TypeInv', BooksOK, HoldsBooked, matches' = matches
    PROVE  BooksOK'
<1>1. held \in [OrderIds -> Int] /\ held' \in [OrderIds -> Int]
  BY DEF TypeInv, TypeOK
<1>2. ASSUME NEW o \in OrderIds
      PROVE  PlusIn(own[o], HeldIn(order'[o]), held[o] - held'[o]) \in [Currencies -> Int]
  <2>1. PICK c, n : c = HeldIn(order'[o]) /\ n = held[o] - held'[o]
    OBVIOUS
  <2>2. n \in Int
    BY <1>1, <2>1
  <2>3. own[o] \in [Currencies -> Int]
    BY DEF BooksOK
  <2>4. c \in Currencies
    BY <2>1, HeldInCurrency
  <2>5. PlusIn(own[o], c, n) \in [Currencies -> Int]
    BY <2>2, <2>3, <2>4, SumsAreTyped
  <2> QED BY <2>1, <2>5
<1>3. own' \in [OrderIds -> [Currencies -> Int]] /\ deal' = deal
  BY <1>2 DEF HoldsBooked
<1> QED BY <1>3 DEF BooksOK

(* A fill adds what its match brought to both orders. *)
LEMMA FillsAreBooked ==
    ASSUME TypeInv, BooksOK, Match, FillBooked
    PROVE  BooksOK'
<1>1. PICK r \in cur.todo :
        LET x == cur.obj
            y == stack[r].row
            p == y.price
            q == FillQuantity(x, y)
            of(z) == [gross |-> Gross(z, q, p), fee |-> FeeOf(z, q, p)]
        IN  /\ Best(r)
            /\ own' = [own EXCEPT
                    ![x.id] = Summed(@, BookedFor(x, q, p)),
                    ![r] = PlusIn(Summed(@, BookedFor(y, q, p)),
                                  "base", DustRefund(Filled(y, q, p)))]
            /\ deal' = [m \in matches' |->
                    IF m \in matches THEN deal[m] ELSE of(IF m[1] = r THEN y ELSE x)]
  BY DEF FillBooked
<1>2. PICK x, y : x = cur.obj /\ y = stack[r].row
  OBVIOUS
<1>3. PICK p, q : p = y.price /\ q = FillQuantity(x, y)
  OBVIOUS
<1> DEFINE y1 == Filled(y, q, p)
           of(z) == [gross |-> Gross(z, q, p), fee |-> FeeOf(z, q, p)]
<1>4. /\ Best(r)
      /\ own' = [own EXCEPT
                ![x.id] = Summed(@, BookedFor(x, q, p)),
                ![r] = PlusIn(Summed(@, BookedFor(y, q, p)), "base", DustRefund(y1))]
      /\ deal' = [m \in matches' |->
                IF m \in matches THEN deal[m] ELSE of(IF m[1] = r THEN y ELSE x)]
  BY <1>1, <1>2, <1>3
<1>5. r \in OrderIds /\ cur.phase = "match" /\ order \in [OrderIds -> Row]
  BY DEF TypeInv, TypeOK, Match
<1>6. /\ x \in Row /\ y \in Row /\ q \in Nat /\ p \in Nat /\ y1 \in Row
      /\ x.op = "BUY" /\ ~x.market => p <= x.price
      /\ x.id \in OrderIds /\ y.id \in OrderIds /\ x.id # r
  BY <1>2, <1>3, <1>4, <1>5, FillIsSound DEF Stored, Exists
<1>7. ASSUME NEW z \in {x, y} PROVE BookedFor(z, q, p) \in [Currencies -> Int]
  <2>1. Gross(z, q, p) \in Nat /\ FeeOf(z, q, p) \in Nat
    BY <1>6, GrossAndFee
  <2>2. VoidRefund(z, q, p) \in Int
    BY <1>5, <1>6, RefundIsNat DEF VoidRefund
  <2>3. Cacheback(z, q, p) \in Int
    <3>1. CASE z.op = "BUY" /\ ~z.market
      <4>0. p <= z.price
        <5>1. CASE z = x
          BY <1>6, <3>1, <5>1
        <5>2. CASE z = y
          BY <1>3, <1>6, <5>2
        <5> QED BY <5>1, <5>2
      <4>2. z \in Row
        BY <1>6
      <4>1. z.price - p \in Nat
        BY <1>6, <4>0, <4>2, RowFields
      <4>3. Value(q, z.price - p) \in Nat
        BY <1>6, <4>1, ValueIsNat
      <4> QED BY <3>1, <4>3 DEF Cacheback
    <3> QED BY <3>1 DEF Cacheback
  <2>4. \A c, n \in Int : Only(c, n) \in [Currencies -> Int]
    BY DEF Only
  <2>5. Only(HeldIn(z), VoidRefund(z, q, p)) \in [Currencies -> Int]
    BY <2>2 DEF Only
  <2>6. Only(GainedIn(z), Gross(z, q, p) - FeeOf(z, q, p)) \in [Currencies -> Int]
    BY <2>1 DEF Only
  <2>7. PlusIn(Only(GainedIn(z), Gross(z, q, p) - FeeOf(z, q, p)), HeldIn(z), Cacheback(z, q, p))
            \in [Currencies -> Int]
    BY <2>3, <2>6, HeldInCurrency, SumsAreTyped
  <2> QED BY <2>5, <2>7 DEF BookedFor
<1>8. DustRefund(y1) \in Int
  BY <1>6, RowFields DEF DustRefund
<1>9. /\ Summed(own[x.id], BookedFor(x, q, p)) \in [Currencies -> Int]
      /\ PlusIn(Summed(own[r], BookedFor(y, q, p)), "base", DustRefund(y1)) \in [Currencies -> Int]
  <2>1. own[x.id] \in [Currencies -> Int] /\ own[r] \in [Currencies -> Int] /\ "base" \in Currencies
    BY <1>5, <1>6 DEF BooksOK, Currencies
  <2>2. BookedFor(x, q, p) \in [Currencies -> Int] /\ BookedFor(y, q, p) \in [Currencies -> Int]
    BY <1>7
  <2>3. Summed(own[r], BookedFor(y, q, p)) \in [Currencies -> Int]
    BY <2>1, <2>2 DEF Summed
  <2> QED BY <1>8, <2>1, <2>2, <2>3 DEF Summed, PlusIn
<1>10. own' \in [OrderIds -> [Currencies -> Int]]
  <2> DEFINE a == Summed(own[x.id], BookedFor(x, q, p))
             b == PlusIn(Summed(own[r], BookedFor(y, q, p)), "base", DustRefund(y1))
  <2>1. own' = [own EXCEPT ![x.id] = a, ![r] = b]
    BY <1>4, <1>6
  <2>2. a \in [Currencies -> Int] /\ b \in [Currencies -> Int]
    BY <1>9
  <2> HIDE DEF a, b
  <2> QED BY <1>5, <1>6, <2>1, <2>2 DEF BooksOK
<1>11. \A z \in {x, y} : of(z) \in [gross : Nat, fee : Nat]
  BY <1>6, GrossAndFee
<1>12. deal' \in [matches' -> [gross : Nat, fee : Nat]]
  <2> HIDE DEF of
  <2> QED BY <1>4, <1>11 DEF BooksOK
<1> QED BY <1>10, <1>12 DEF BooksOK

-----------------------------------------------------------------------------
(* The matches a step finds.                                               *)

SameOwners ==
    \A n \in OrderIds : order[n].state # "NONE" =>
        order'[n].user = order[n].user /\ order'[n].op = order[n].op

(* What a match came to is settled. *)
LEMMA OldMatch ==
    ASSUME TypeInv, RowsInv, BooksOK, SameOwners,
           NEW m \in matches, m \in matches', deal'[m] = deal[m]
    PROVE  /\ \A u, c : Brought(m, u, c)' = Brought(m, u, c) /\ Brought(m, u, c) \in Int
           /\ \A o, c : BookedBy(m, o, c)' = BookedBy(m, o, c) /\ BookedBy(m, o, c) \in Int
           /\ order'[m[1]].op = order[m[1]].op /\ order'[m[2]].op = order[m[2]].op
           /\ order[m[1]].state # "NONE" /\ order[m[2]].state # "NONE"
<1>1. /\ m[1] \in OrderIds /\ m[2] \in OrderIds
      /\ GrossOf[m] \in Int /\ NetOf[m] \in Int
      /\ GrossOf[m] = deal[m].gross /\ NetOf[m] = deal[m].gross - deal[m].fee
  BY DealOfMatch
<1>2. order[m[1]].state # "NONE" /\ order[m[2]].state # "NONE"
  BY DEF RowsInv, PairEnds
<1>3. /\ order'[m[1]].user = order[m[1]].user /\ order'[m[1]].op = order[m[1]].op
      /\ order'[m[2]].user = order[m[2]].user /\ order'[m[2]].op = order[m[2]].op
  BY <1>1, <1>2 DEF SameOwners
<1>4. GrossOf'[m] = GrossOf[m] /\ NetOf'[m] = NetOf[m]
  BY <1>1 DEF GrossOf, NetOf
<1>5. GainedIn(order'[m[1]]) = GainedIn(order[m[1]])
  BY <1>3 DEF GainedIn
<1>6. \A u, c : Brought(m, u, c)' = Brought(m, u, c) /\ Brought(m, u, c) \in Int
  BY <1>1, <1>3, <1>4, <1>5 DEF Brought
<1>7. \A o, c : BookedBy(m, o, c)' = BookedBy(m, o, c) /\ BookedBy(m, o, c) \in Int
  BY <1>1, <1>4, <1>5 DEF BookedBy
<1> QED BY <1>2, <1>3, <1>6, <1>7

(* No match is made and no order is reverted. *)
LEMMA MatchesStand ==
    ASSUME TypeInv, RowsInv, BooksOK, SameOwners, matches' = matches, deal' = deal,
           \A n \in OrderIds : order'[n].state = "REVERT" <=> order[n].state = "REVERT"
    PROVE  /\ \A u, c : Traded(u, c)' = Traded(u, c)
           /\ \A o, c : Booked(o, c)' = Booked(o, c)
           /\ \A c : FeesOf(c, LiveMatches)' = FeesOf(c, LiveMatches)
           /\ PairsOppose => PairsOppose'
<1>1. Reverted' = Reverted
  BY DEF Reverted
<1>2. LiveMatches' = LiveMatches /\ LiveMatches \subseteq matches
  BY <1>1 DEF LiveMatches
<1>3. \A m \in matches : /\ \A u, c : Brought(m, u, c)' = Brought(m, u, c)
                         /\ \A o, c : BookedBy(m, o, c)' = BookedBy(m, o, c)
                         /\ order'[m[1]].op = order[m[1]].op /\ order'[m[2]].op = order[m[2]].op
  BY OldMatch
<1>4. ASSUME NEW u, NEW c PROVE Traded(u, c)' = Traded(u, c)
  <2>1. [m \in matches |-> Brought(m, u, c)]' = [m \in matches |-> Brought(m, u, c)]
    BY <1>3
  <2> QED BY <1>2, <2>1 DEF Traded
<1>5. ASSUME NEW o, NEW c PROVE Booked(o, c)' = Booked(o, c)
  <2>1. [m \in matches |-> BookedBy(m, o, c)]' = [m \in matches |-> BookedBy(m, o, c)]
    BY <1>3
  <2> QED BY <2>1 DEF Booked
<1>6. ASSUME NEW c PROVE FeesOf(c, LiveMatches)' = FeesOf(c, LiveMatches)
  <2>1. \A m \in matches : GainedIn(order'[m[1]]) = GainedIn(order[m[1]])
    BY <1>3 DEF GainedIn
  <2>2. [m \in matches |-> IF GainedIn(order[m[1]]) = c THEN deal[m].fee ELSE 0]'
          = [m \in matches |-> IF GainedIn(order[m[1]]) = c THEN deal[m].fee ELSE 0]
    BY <2>1
  <2> QED BY <1>2, <2>2 DEF FeesOf
<1>7. PairsOppose => PairsOppose'
  BY <1>3 DEF PairsOppose
<1> QED BY <1>4, <1>5, <1>6, <1>7

(* A hold that changes is paid from the balance, or back to it. *)
LEMMA OneHoldKeeps ==
    ASSUME TypeInv, TypeInv', RowsInv, BooksOK, HoldsBooked, NEW o \in OrderIds, OneHold(o),
           PairsOppose, OwnInv, Balanced
    PROVE  PairsOppose' /\ OwnInv' /\ Balanced'
<1>1. /\ order \in [OrderIds -> Row] /\ held \in [OrderIds -> Int]
      /\ amount \in [Users -> [Currencies -> Nat]] /\ fees \in [Currencies -> Int]
      /\ order' \in [OrderIds -> Row] /\ held' \in [OrderIds -> Int]
      /\ own \in [OrderIds -> [Currencies -> Int]]
  BY DEF TypeInv, TypeOK, BooksOK
<1>2. /\ \A n \in OrderIds \ {o} : order'[n] = order[n] /\ held'[n] = held[n]
      /\ order[o].state # "NONE" => order'[o].user = order[o].user /\ order'[o].op = order[o].op
      /\ order[o].state # "REVERT" /\ order'[o].state \notin {"NONE", "REVERT"}
      /\ amount' = Credited(order'[o].user, Only(HeldIn(order'[o]), held[o] - held'[o]))
      /\ UNCHANGED <<matches, fees, voided>>
  BY DEF OneHold
<1>3. /\ \A u, c : Traded(u, c)' = Traded(u, c)
      /\ \A n, c : Booked(n, c)' = Booked(n, c)
      /\ \A c : FeesOf(c, LiveMatches)' = FeesOf(c, LiveMatches)
      /\ PairsOppose'
  <2>1. SameOwners
    BY <1>2 DEF SameOwners
  <2>2. \A n \in OrderIds : order'[n].state = "REVERT" <=> order[n].state = "REVERT"
    BY <1>2
  <2>3. matches' = matches /\ deal' = deal
    BY <1>2 DEF HoldsBooked
  <2> QED BY <2>1, <2>2, <2>3, MatchesStand
<1> DEFINE h == HeldIn(order'[o])
           d == held[o] - held'[o]
<1>4. d \in Int /\ h \in Currencies
  BY <1>1, HeldInCurrency
<1>5. \A c \in Currencies : HoldIn(o, c) \in Int /\ HoldIn(o, c)' \in Int
                            /\ HoldIn(o, c)' - HoldIn(o, c) = (IF c = h THEN -d ELSE 0)
  <2>1. CASE order[o].state = "NONE"
    <3>1. held[o] = 0
      BY <2>1 DEF OwnInv
    <3> QED BY <1>1, <3>1 DEF HoldIn
  <2>2. CASE order[o].state # "NONE"
    <3>1. HeldIn(order'[o]) = HeldIn(order[o])
      BY <1>2, <2>2 DEF HeldIn
    <3> QED BY <1>1, <3>1 DEF HoldIn
  <2> QED BY <2>1, <2>2
<1>6. OwnInv'
  <2>1. /\ \A n \in OrderIds \ {o} : own'[n] = own[n]
        /\ own'[o] = PlusIn(own[o], h, d)
    <3>1. own' = [n \in OrderIds |-> PlusIn(own[n], HeldIn(order'[n]), held[n] - held'[n])]
      BY DEF HoldsBooked
    <3>2. ASSUME NEW n \in OrderIds \ {o} PROVE own'[n] = own[n]
      <4>1. held[n] - held'[n] = 0
        BY <1>1, <1>2
      <4>2. own'[n] = PlusIn(own[n], HeldIn(order'[n]), 0)
        BY <3>1, <4>1
      <4>3. own[n] \in [Currencies -> Int]
        BY <1>1
      <4>4. \A s \in [Currencies -> Int] : \A c : [s EXCEPT ![c] = @ + 0] = s
        OBVIOUS
      <4> QED BY <4>2, <4>3, <4>4 DEF PlusIn
    <3> QED BY <3>1, <3>2
  <2> HIDE DEF h, d
  <2>2. \A c \in Currencies : own'[o][c] = own[o][c] + (IF c = h THEN d ELSE 0)
    BY <1>1, <1>4, <2>1 DEF PlusIn
  <2>3. \A n \in OrderIds \ {o}, c \in Currencies : HoldIn(n, c)' = HoldIn(n, c)
    BY <1>2 DEF HoldIn
  <2>4. ASSUME NEW c \in Currencies PROVE own'[o][c] + HoldIn(o, c)' = Booked(o, c)'
    <3>1. own[o][c] + HoldIn(o, c) = Booked(o, c)
      BY <1>2 DEF OwnInv
    <3>2. HoldIn(o, c)' = HoldIn(o, c) - (IF c = h THEN d ELSE 0)
      BY <1>4, <1>5
    <3>3. own[o][c] \in Int
      BY <1>1
    <3> QED BY <1>3, <1>4, <1>5, <2>2, <3>1, <3>2, <3>3
  <2> QED BY <1>2, <1>3, <2>1, <2>3, <2>4 DEF OwnInv
<1>7. ASSUME NEW u \in Users, NEW c \in Currencies
      PROVE  amount'[u][c] + Holds(u, c)' = amount[u][c] + Holds(u, c)
  <2> DEFINE f == [n \in OrderIds |->
                     IF order[n].user = u /\ HeldIn(order[n]) = c THEN held[n] ELSE 0]
             g == [n \in OrderIds |->
                     IF order'[n].user = u /\ HeldIn(order'[n]) = c THEN held'[n] ELSE 0]
  <2>1. /\ IsFiniteSet(OrderIds) /\ DOMAIN f = OrderIds /\ DOMAIN g = OrderIds
        /\ \A n \in OrderIds : f[n] \in Int /\ g[n] \in Int
        /\ \A n \in OrderIds \ {o} : g[n] = f[n]
    BY <1>1, <1>2, OrdersAreFinite
  <2>2. g[o] - f[o] = IF u = order'[o].user /\ c = h THEN -d ELSE 0
    <3>1. CASE order[o].state = "NONE"
      <4>1. held[o] = 0
        BY <3>1 DEF OwnInv
      <4>2. f[o] = 0
        BY <4>1
      <4>3. d = -held'[o] /\ held'[o] \in Int
        BY <1>1, <4>1
      <4> QED BY <4>2, <4>3
    <3>2. CASE order[o].state # "NONE"
      <4>1. HeldIn(order'[o]) = HeldIn(order[o])
        BY <1>2, <3>2 DEF HeldIn
      <4> QED BY <1>1, <1>2, <3>2, <4>1
    <3> QED BY <3>1, <3>2
  <2>3. amount'[u][c] = amount[u][c] + (IF u = order'[o].user /\ c = h THEN d ELSE 0)
    <3> HIDE DEF d, h
    <3>1. amount[u][c] \in Int /\ amount \in [Users -> [Currencies -> Nat]]
      BY <1>1
    <3>2. PICK w : w = order'[o].user
      OBVIOUS
    <3>3. amount' = Credited(w, Only(h, d))
      BY <1>2, <3>2 DEF h, d
    <3>4. Only(h, d)[c] = IF c = h THEN d ELSE 0
      BY DEF Only
    <3>5. PICK k : k = Only(h, d)
      OBVIOUS
    <3>6. amount'[u][c] = IF u = w THEN amount[u][c] + k[c] ELSE amount[u][c]
      BY <3>1, <3>3, <3>5 DEF Credited
    <3> QED BY <1>4, <3>1, <3>2, <3>4, <3>5, <3>6
  <2>4. Holds(u, c) = SumFunctionOnSet(f, OrderIds) /\ Holds(u, c)' = SumFunctionOnSet(g, OrderIds)
    BY DEF Holds, SumFunction
  <2> HIDE DEF f, g, h, d
  <2>5. SumFunctionOnSet(g, OrderIds) = SumFunctionOnSet(f, OrderIds) + (g[o] - f[o])
    BY <2>1, SumChanged
  <2>6. SumFunctionOnSet(f, OrderIds) \in Int /\ amount[u][c] \in Int
    BY <1>1, <2>1, SumIsInt
  <2> QED BY <1>4, <2>2, <2>3, <2>4, <2>5, <2>6
<1>8. Balanced'
  BY <1>2, <1>3, <1>7 DEF Balanced
<1> QED BY <1>3, <1>6, <1>8

(* A step that moves holds keeps the money invariant. *)
LEMMA HoldMovesKeeps ==
    ASSUME TypeInv, TypeInv', RowsInv, BooksOK, HoldsBooked, HoldMoves,
           PairsOppose, OwnInv, Balanced
    PROVE  PairsOppose' /\ OwnInv' /\ Balanced'
<1>1. CASE UNCHANGED dbVars
  <2>1. UNCHANGED <<order, amount, held, matches, fees>>
    BY <1>1 DEF dbVars
  <2>2. own' = own /\ deal' = deal
    <3>1. own \in [OrderIds -> [Currencies -> Int]] /\ held \in [OrderIds -> Int]
      BY DEF BooksOK, TypeInv, TypeOK
    <3>2. \A s \in [Currencies -> Int] : \A c : [s EXCEPT ![c] = @ + 0] = s
      OBVIOUS
    <3>3. \A o \in OrderIds : PlusIn(own[o], HeldIn(order'[o]), 0) = own[o] /\ held[o] - held'[o] = 0
      BY <2>1, <3>1, <3>2 DEF PlusIn
    <3> QED BY <3>1, <3>3 DEF HoldsBooked
  <2>3. /\ \A u, c : Traded(u, c)' = Traded(u, c)
        /\ \A n, c : Booked(n, c)' = Booked(n, c)
        /\ \A c : FeesOf(c, LiveMatches)' = FeesOf(c, LiveMatches)
        /\ PairsOppose'
    BY <2>1, <2>2, MatchesStand DEF SameOwners
  <2>4. /\ \A u, c : Holds(u, c)' = Holds(u, c)
        /\ \A n, c : HoldIn(n, c)' = HoldIn(n, c)
    BY <2>1 DEF Holds, HoldIn
  <2> QED BY <2>1, <2>2, <2>3, <2>4 DEF OwnInv, Balanced
<1>2. ASSUME NEW o \in OrderIds, OneHold(o) PROVE PairsOppose' /\ OwnInv' /\ Balanced'
  BY <1>2, OneHoldKeeps
<1> QED BY <1>1, <1>2 DEF HoldMoves

(* A match moves what was held, and what it brings stands. *)
LEMMA MatchedKeeps ==
    ASSUME TypeInv, TypeInv', RowsInv, BooksOK, BooksOK', NEW a \in OrderIds, NEW b \in OrderIds,
           NEW ga \in Nat, NEW fa \in Nat, NEW ra \in Nat, NEW gb \in Nat, NEW fb \in Nat, NEW rb \in Nat,
           Matched(a, b, ga, fa, ra, gb, fb, rb), FeesWithin', PairsOppose, OwnInv, Balanced
    PROVE  PairsOppose' /\ OwnInv' /\ Balanced'
<1> DEFINE m1 == <<a, b>>
           m2 == <<b, a>>
           A == GainedIn(order[a])
           B == GainedIn(order[b])
<1>1. /\ order \in [OrderIds -> Row] /\ held \in [OrderIds -> Int]
      /\ amount \in [Users -> [Currencies -> Nat]] /\ fees \in [Currencies -> Int]
      /\ order' \in [OrderIds -> Row] /\ held' \in [OrderIds -> Int]
      /\ own \in [OrderIds -> [Currencies -> Int]] /\ own' \in [OrderIds -> [Currencies -> Int]]
  BY DEF TypeInv, TypeOK, BooksOK
<1>2. /\ a # b /\ order[a].op # order[b].op
      /\ \A o \in {a, b} :
          /\ order[o].state \notin {"NONE", "REVERT"} /\ order'[o].state \notin {"NONE", "REVERT"}
          /\ order'[o].user = order[o].user /\ order'[o].op = order[o].op
      /\ \A o \in OrderIds \ {a, b} : order'[o] = order[o] /\ held'[o] = held[o] /\ own'[o] = own[o]
      /\ held'[a] = held[a] - gb - ra /\ held'[b] = held[b] - ga - rb
      /\ \A c \in Currencies : /\ own'[a][c] = own[a][c] + Gain(a, c, ga, fa, ra)
                               /\ own'[b][c] = own[b][c] + Gain(b, c, gb, fb, rb)
      /\ m1 \notin matches /\ m2 \notin matches /\ matches' = matches \cup {m1, m2}
      /\ \A m \in matches : deal'[m] = deal[m]
      /\ deal'[m1].gross = ga /\ deal'[m1].fee = fa /\ deal'[m2].gross = gb /\ deal'[m2].fee = fb
  BY DEF Matched
<1>3. fa <= ga /\ fb <= gb
  BY <1>2 DEF FeesWithin
<1>4. /\ \A u \in Users, c \in Currencies :
              amount'[u][c] = amount[u][c]
                  + (IF u = order[a].user THEN Gain(a, c, ga, fa, ra) ELSE 0)
                  + (IF u = order[b].user THEN Gain(b, c, gb, fb, rb) ELSE 0)
      /\ \A c \in Currencies :
              fees'[c] = fees[c] + (IF c = A THEN fa ELSE 0) + (IF c = B THEN fb ELSE 0)
  BY <1>3 DEF Matched
<1>5. /\ HeldIn(order[a]) = B /\ HeldIn(order[b]) = A /\ A # B
      /\ HeldIn(order'[a]) = B /\ HeldIn(order'[b]) = A
      /\ GainedIn(order'[a]) = A /\ GainedIn(order'[b]) = B
  <2>1. order[a].op \in {"BUY", "SELL"} /\ order[b].op \in {"BUY", "SELL"}
    BY <1>1, RowFields
  <2> QED BY <1>2, <2>1 DEF HeldIn, GainedIn
<1>6. SameOwners
  BY <1>2 DEF SameOwners
<1>7. m1 # m2 /\ m1[1] = a /\ m1[2] = b /\ m2[1] = b /\ m2[2] = a /\ m1 \in matches' /\ m2 \in matches'
  BY <1>2
<1>8. IsFiniteSet(matches) /\ IsFiniteSet(LiveMatches) /\ LiveMatches \subseteq matches
  BY MatchesAreFinite DEF LiveMatches
<1>9. \A m \in matches : /\ m[1] \in OrderIds /\ m[2] \in OrderIds /\ m \in matches'
                         /\ deal[m].fee \in Nat /\ deal[m].gross \in Nat
  BY <1>2, DealOfMatch
<1>10. LiveMatches' = LiveMatches \cup {m1, m2}
  <2>1. \A o \in OrderIds : o \in Reverted' <=> o \in Reverted
    BY <1>2 DEF Reverted
  <2>2. a \notin Reverted' /\ b \notin Reverted'
    BY <1>2 DEF Reverted
  <2>3. \A m : m \in LiveMatches' <=> m \in matches' /\ m[1] \notin Reverted' /\ m[2] \notin Reverted'
    BY DEF LiveMatches
  <2> HIDE DEF m1, m2
  <2> QED BY <1>2, <1>7, <1>9, <2>1, <2>2, <2>3 DEF LiveMatches
<1>11. /\ GrossOf'[m1] = ga /\ NetOf'[m1] = ga - fa /\ GrossOf'[m2] = gb /\ NetOf'[m2] = gb - fb
  BY <1>2, <1>7 DEF GrossOf, NetOf
<1>12. \A m \in matches :
          /\ \A u, c : Brought(m, u, c)' = Brought(m, u, c) /\ Brought(m, u, c) \in Int
          /\ \A o, c : BookedBy(m, o, c)' = BookedBy(m, o, c) /\ BookedBy(m, o, c) \in Int
          /\ order'[m[1]].op = order[m[1]].op /\ order'[m[2]].op = order[m[2]].op
  BY <1>2, <1>6, <1>9, OldMatch
<1>13. PairsOppose'
  <2>1. m1[1] # m1[2] /\ order'[m1[1]].op # order'[m1[2]].op
        /\ m2[1] # m2[2] /\ order'[m2[1]].op # order'[m2[2]].op
    BY <1>2, <1>7
  <2> HIDE DEF m1, m2
  <2> QED BY <1>2, <1>12, <2>1 DEF PairsOppose
<1> HIDE DEF m1, m2, A, B
<1>14. ASSUME NEW u \in Users, NEW c \in Currencies
       PROVE  amount'[u][c] + Holds(u, c)' = Funds[u][c] + Traded(u, c)'
  <2> DEFINE f == [m \in matches |-> Brought(m, u, c)]
             g == [m \in matches |-> Brought(m, u, c)]'
             of == [n \in OrderIds |->
                     IF order[n].user = u /\ HeldIn(order[n]) = c THEN held[n] ELSE 0]
             og == [n \in OrderIds |->
                     IF order'[n].user = u /\ HeldIn(order'[n]) = c THEN held'[n] ELSE 0]
             ua == u = order[a].user
             ub == u = order[b].user
  <2>1. /\ Brought(m1, u, c)' = (IF ua /\ A = c THEN ga - fa ELSE 0) - (IF ub /\ A = c THEN ga ELSE 0)
        /\ Brought(m2, u, c)' = (IF ub /\ B = c THEN gb - fb ELSE 0) - (IF ua /\ B = c THEN gb ELSE 0)
    BY <1>2, <1>5, <1>7, <1>11 DEF Brought
  <2>2. Brought(m1, u, c)' \in Int /\ Brought(m2, u, c)' \in Int
    BY <2>1
  <2>3. Traded(u, c)' = Traded(u, c) + (Brought(m1, u, c)' + Brought(m2, u, c)') /\ Traded(u, c) \in Int
    <3>1. /\ \A m \in LiveMatches : f[m] \in Int /\ g[m] = f[m]
          /\ g[m1] = Brought(m1, u, c)' /\ g[m2] = Brought(m2, u, c)'
      BY <1>7, <1>8, <1>9, <1>12
    <3>2. Traded(u, c) = SumFunctionOnSet(f, LiveMatches)
          /\ Traded(u, c)' = SumFunctionOnSet(g, LiveMatches \cup {m1, m2})
      BY <1>10 DEF Traded
    <3>3. m1 \notin LiveMatches /\ m2 \notin LiveMatches
      BY <1>2, <1>8
    <3> HIDE DEF f, g
    <3>4. SumFunctionOnSet(g, LiveMatches \cup {m1, m2})
             = SumFunctionOnSet(f, LiveMatches) + (g[m1] + g[m2])
      BY <1>7, <1>8, <2>2, <3>1, <3>3, SumOfTwoMore
    <3>5. SumFunctionOnSet(f, LiveMatches) \in Int
      BY <1>8, <3>1, SumIsInt
    <3> QED BY <3>1, <3>2, <3>4, <3>5
  <2>4. Holds(u, c)' = Holds(u, c) + (og[a] - of[a]) + (og[b] - of[b]) /\ Holds(u, c) \in Int
    <3>1. /\ \A n \in OrderIds : of[n] \in Int /\ og[n] \in Int
          /\ \A n \in OrderIds \ {a, b} : og[n] = of[n]
      BY <1>1, <1>2
    <3>2. Holds(u, c) = SumFunctionOnSet(of, OrderIds) /\ Holds(u, c)' = SumFunctionOnSet(og, OrderIds)
      BY DEF Holds, SumFunction
    <3> HIDE DEF of, og
    <3>3. SumFunctionOnSet(og, OrderIds)
             = SumFunctionOnSet(of, OrderIds) + (og[a] - of[a]) + (og[b] - of[b])
      BY <1>2, <3>1, OrdersAreFinite, SumTwoChanged
    <3>4. SumFunctionOnSet(of, OrderIds) \in Int
      BY <3>1, OrdersAreFinite, SumIsInt
    <3> QED BY <3>2, <3>3, <3>4
  <2>5. /\ og[a] - of[a] = (IF ua /\ B = c THEN -gb - ra ELSE 0)
        /\ og[b] - of[b] = (IF ub /\ A = c THEN -ga - rb ELSE 0)
    <3>1. held[a] \in Int /\ held[b] \in Int /\ held'[a] = held[a] - gb - ra /\ held'[b] = held[b] - ga - rb
      BY <1>1, <1>2
    <3> QED BY <1>2, <1>5, <3>1
  <2>6. /\ Gain(a, c, ga, fa, ra) = (IF c = A THEN ga - fa ELSE 0) + (IF c = B THEN ra ELSE 0)
        /\ Gain(b, c, gb, fb, rb) = (IF c = B THEN gb - fb ELSE 0) + (IF c = A THEN rb ELSE 0)
    BY <1>5 DEF Gain, A, B
  <2>7. amount[u][c] + Holds(u, c) = Funds[u][c] + Traded(u, c) /\ amount[u][c] \in Int
    BY <1>1 DEF Balanced
  <2>8. Funds[u][c] \in Int
    BY OrderBookAssumption DEF Currencies
  <2>9. amount'[u][c] = amount[u][c] + (IF ua THEN Gain(a, c, ga, fa, ra) ELSE 0)
                                     + (IF ub THEN Gain(b, c, gb, fb, rb) ELSE 0)
    BY <1>4
  <2> HIDE DEF f, g, of, og, ua, ub
  <2> QED BY <1>5, <2>1, <2>3, <2>4, <2>5, <2>6, <2>7, <2>8, <2>9
<1>15. ASSUME NEW c \in Currencies PROVE fees'[c] = FeesOf(c, LiveMatches)'
  <2> DEFINE f == [m \in matches |-> IF GainedIn(order[m[1]]) = c THEN deal[m].fee ELSE 0]
             g == [m \in matches |-> IF GainedIn(order[m[1]]) = c THEN deal[m].fee ELSE 0]'
  <2>1. /\ \A m \in LiveMatches : f[m] \in Int /\ g[m] = f[m]
        /\ g[m1] = (IF A = c THEN fa ELSE 0) /\ g[m2] = (IF B = c THEN fb ELSE 0)
    <3>1. \A m \in LiveMatches : f[m] \in Int /\ g[m] = f[m]
      BY <1>2, <1>8, <1>9, <1>12 DEF GainedIn
    <3>2. g[m1] = (IF A = c THEN fa ELSE 0) /\ g[m2] = (IF B = c THEN fb ELSE 0)
      BY <1>2, <1>5, <1>7
    <3> QED BY <3>1, <3>2
  <2>2. FeesOf(c, LiveMatches) = SumFunctionOnSet(f, LiveMatches)
        /\ FeesOf(c, LiveMatches)' = SumFunctionOnSet(g, LiveMatches \cup {m1, m2})
    BY <1>10 DEF FeesOf
  <2>3. m1 \notin LiveMatches /\ m2 \notin LiveMatches
    BY <1>2, <1>8
  <2> HIDE DEF f, g
  <2>4. SumFunctionOnSet(g, LiveMatches \cup {m1, m2})
           = SumFunctionOnSet(f, LiveMatches) + (g[m1] + g[m2])
    BY <1>7, <1>8, <2>1, <2>3, SumOfTwoMore
  <2>5. SumFunctionOnSet(f, LiveMatches) \in Int
    BY <1>8, <2>1, SumIsInt
  <2>6. fees[c] = FeesOf(c, LiveMatches)
    BY DEF Balanced
  <2> QED BY <1>4, <2>1, <2>2, <2>4, <2>5, <2>6
<1>16. Balanced'
  BY <1>14, <1>15 DEF Balanced
<1>17. ASSUME NEW o \in OrderIds, NEW c \in Currencies
       PROVE  /\ Booked(o, c)' = Booked(o, c) + (BookedBy(m1, o, c)' + BookedBy(m2, o, c)')
              /\ Booked(o, c) \in Int
              /\ BookedBy(m1, o, c)' = (IF a = o /\ A = c THEN ga - fa ELSE 0)
                                       - (IF b = o /\ A = c THEN ga ELSE 0)
              /\ BookedBy(m2, o, c)' = (IF b = o /\ B = c THEN gb - fb ELSE 0)
                                       - (IF a = o /\ B = c THEN gb ELSE 0)
  <2> DEFINE f == [m \in matches |-> BookedBy(m, o, c)]
             g == [m \in matches |-> BookedBy(m, o, c)]'
  <2>1. /\ BookedBy(m1, o, c)' = (IF a = o /\ A = c THEN ga - fa ELSE 0)
                                 - (IF b = o /\ A = c THEN ga ELSE 0)
        /\ BookedBy(m2, o, c)' = (IF b = o /\ B = c THEN gb - fb ELSE 0)
                                 - (IF a = o /\ B = c THEN gb ELSE 0)
    BY <1>2, <1>5, <1>7, <1>11 DEF BookedBy
  <2>2. BookedBy(m1, o, c)' \in Int /\ BookedBy(m2, o, c)' \in Int
    BY <2>1
  <2>3. /\ \A m \in matches : f[m] \in Int /\ g[m] = f[m]
        /\ g[m1] = BookedBy(m1, o, c)' /\ g[m2] = BookedBy(m2, o, c)'
    BY <1>7, <1>9, <1>12
  <2>4. Booked(o, c) = SumFunctionOnSet(f, matches)
        /\ Booked(o, c)' = SumFunctionOnSet(g, matches \cup {m1, m2})
    BY <1>2 DEF Booked
  <2> HIDE DEF f, g
  <2>5. SumFunctionOnSet(g, matches \cup {m1, m2}) = SumFunctionOnSet(f, matches) + (g[m1] + g[m2])
    BY <1>2, <1>7, <1>8, <2>2, <2>3, SumOfTwoMore
  <2>6. SumFunctionOnSet(f, matches) \in Int
    BY <1>8, <2>3, SumIsInt
  <2> QED BY <2>1, <2>3, <2>4, <2>5, <2>6
<1>18. ASSUME NEW o \in OrderIds, order'[o].state # "REVERT", NEW c \in Currencies
       PROVE  own'[o][c] + HoldIn(o, c)' = Booked(o, c)'
  <2>1. own[o][c] + HoldIn(o, c) = Booked(o, c)
    BY <1>2, <1>18 DEF OwnInv
  <2>2. own[o][c] \in Int /\ held[o] \in Int
    BY <1>1
  <2>3. CASE o \notin {a, b}
    <3>1. own'[o] = own[o] /\ HoldIn(o, c)' = HoldIn(o, c)
      BY <1>2, <2>3 DEF HoldIn
    <3>2. Booked(o, c)' = Booked(o, c)
      BY <1>17, <2>3
    <3> QED BY <2>1, <3>1, <3>2
  <2>4. CASE o = a
    <3>1. HoldIn(o, c)' = HoldIn(o, c) + (IF B = c THEN -gb - ra ELSE 0) /\ HoldIn(o, c) \in Int
      BY <1>2, <1>5, <2>2, <2>4 DEF HoldIn
    <3>2. own'[o][c] = own[o][c] + (IF c = A THEN ga - fa ELSE 0) + (IF c = B THEN ra ELSE 0)
      BY <1>2, <1>5, <2>2, <2>4 DEF Gain, A, B
    <3>3. Booked(o, c)' = Booked(o, c) + ((IF A = c THEN ga - fa ELSE 0) - (IF B = c THEN gb ELSE 0))
      BY <1>2, <1>17, <2>4
    <3>4. Booked(o, c) \in Int
      BY <1>17
    <3> QED BY <2>1, <2>2, <3>1, <3>2, <3>3, <3>4
  <2>5. CASE o = b
    <3>1. HoldIn(o, c)' = HoldIn(o, c) + (IF A = c THEN -ga - rb ELSE 0) /\ HoldIn(o, c) \in Int
      BY <1>2, <1>5, <2>2, <2>5 DEF HoldIn
    <3>2. own'[o][c] = own[o][c] + (IF c = B THEN gb - fb ELSE 0) + (IF c = A THEN rb ELSE 0)
      BY <1>2, <1>5, <2>2, <2>5 DEF Gain, A, B
    <3>3. Booked(o, c)' = Booked(o, c) + ((IF B = c THEN gb - fb ELSE 0) - (IF A = c THEN ga ELSE 0))
      BY <1>2, <1>17, <2>5
    <3>4. Booked(o, c) \in Int
      BY <1>17
    <3> QED BY <2>1, <2>2, <3>1, <3>2, <3>3, <3>4
  <2> QED BY <2>3, <2>4, <2>5
<1>19. OwnInv'
  <2>1. ASSUME NEW o \in OrderIds, o \notin {a, b}
        PROVE  /\ order'[o] = order[o] /\ held'[o] = held[o] /\ own'[o] = own[o]
    BY <1>2, <2>1
  <2> QED BY <1>2, <1>18, <2>1 DEF OwnInv
<1> QED BY <1>13, <1>16, <1>19

-----------------------------------------------------------------------------
(* A revert takes back what the matches of its orders brought.             *)

MatchesOf(o) == {m \in matches : m[1] = o \/ m[2] = o}
Touched(S) == {m \in matches : m[1] \in S \/ m[2] \in S}

HoldOf(o, u, c) == IF order[o].user = u /\ HeldIn(order[o]) = c THEN held[o] ELSE 0
TakenBack(u, c) == [m \in matches |-> -Brought(m, u, c)]

(* What matches brought is an integer. *)
LEMMA BroughtIsInt ==
    ASSUME TypeInv, BooksOK, NEW m \in matches
    PROVE  /\ \A u, c : Brought(m, u, c) \in Int
           /\ \A o, c : BookedBy(m, o, c) \in Int
<1>1. GrossOf[m] \in Int /\ NetOf[m] \in Int
  BY DealOfMatch
<1> QED BY <1>1 DEF Brought, BookedBy

(* What an order's own transactions undo. *)
LEMMA OwnUndoneIs ==
    ASSUME TypeInv, BooksOK, OwnInv, NEW o \in OrderIds, order[o].state # "REVERT",
           NEW u, NEW c \in Currencies
    PROVE  OwnUndone(o, u, c) = HoldOf(o, u, c)
              + SumFunctionOnSet([m \in matches |-> IF order[o].user = u THEN -BookedBy(m, o, c) ELSE 0],
                                 MatchesOf(o))
<1> DEFINE M == MatchesOf(o)
           f == [m \in matches |-> BookedBy(m, o, c)]
           g == [m \in matches |-> IF order[o].user = u THEN -BookedBy(m, o, c) ELSE 0]
<1>1. IsFiniteSet(matches) /\ IsFiniteSet(M) /\ M \subseteq matches
  BY MatchesAreFinite DEF MatchesOf
<1>2. /\ \A m \in matches : f[m] \in Int /\ g[m] = IF order[o].user = u THEN -f[m] ELSE 0
      /\ \A m \in matches \ M : f[m] = 0
  BY BroughtIsInt DEF MatchesOf, BookedBy
<1>3. own[o][c] \in Int /\ held[o] \in Int
  BY DEF TypeInv, TypeOK, BooksOK
<1>4. own[o][c] + HoldIn(o, c) = Booked(o, c)
  BY DEF OwnInv
<1>5. Booked(o, c) = SumFunctionOnSet(f, matches)
  BY DEF Booked
<1> HIDE DEF M, f, g
<1>6. SumFunctionOnSet(f, M) = SumFunctionOnSet(f, matches)
  BY <1>1, <1>2, SumOfRest
<1>7. SumFunctionOnSet(f, M) \in Int
  BY <1>1, <1>2, SumIsInt
<1>8. CASE order[o].user = u
  <2>1. SumFunctionOnSet(g, M) = -SumFunctionOnSet(f, M)
    BY <1>1, <1>2, <1>8, SumOfOpposites
  <2>2. HoldOf(o, u, c) = HoldIn(o, c) /\ HoldIn(o, c) \in Int /\ OwnUndone(o, u, c) = -own[o][c]
    BY <1>3, <1>8 DEF HoldOf, HoldIn, OwnUndone
  <2> QED BY <1>3, <1>4, <1>5, <1>6, <1>7, <2>1, <2>2 DEF M, g
<1>9. CASE order[o].user # u
  <2>1. SumFunctionOnSet(g, M) = 0
    BY <1>1, <1>2, <1>9, SumOfZeros
  <2>2. HoldOf(o, u, c) = 0 /\ OwnUndone(o, u, c) = 0
    BY <1>9 DEF HoldOf, OwnUndone
  <2> QED BY <2>1, <2>2 DEF M, g
<1> QED BY <1>8, <1>9

(* What a revert of o undoes: its hold, and what its matches brought. *)
LEMMA UndoneIs ==
    ASSUME TypeInv, BooksOK, PairsOppose, OwnInv, NEW o \in OrderIds, order[o].state # "REVERT",
           NEW u, NEW c \in Currencies
    PROVE  Undone(o, u, c) = HoldOf(o, u, c) + SumFunctionOnSet(TakenBack(u, c), MatchesOf(o))
<1> DEFINE M == MatchesOf(o)
           R == {m \in matches : m[1] = o /\ order[m[2]].user = u /\ GainedIn(order[m[1]]) = c}
           T == {m \in matches : m[2] = o /\ order[m[1]].user = u /\ GainedIn(order[m[1]]) = c}
           bk == [m \in matches |-> IF order[o].user = u THEN -BookedBy(m, o, c) ELSE 0]
           rt == [m \in matches |-> IF m \in R THEN GrossOf[m] ELSE 0]
           tk == [m \in matches |-> IF m \in T THEN NetOf[m] ELSE 0]
           nt == [m \in matches |-> IF m \in T THEN -NetOf[m] ELSE 0]
           br == [m \in matches |-> bk[m] + rt[m]]
<1>1. /\ IsFiniteSet(matches) /\ IsFiniteSet(M) /\ M \subseteq matches
      /\ R \subseteq M /\ T \subseteq M
  BY MatchesAreFinite DEF MatchesOf
<1>2. \A m \in matches : /\ GrossOf[m] \in Int /\ NetOf[m] \in Int /\ BookedBy(m, o, c) \in Int
                         /\ Brought(m, u, c) \in Int
  BY DealOfMatch, BroughtIsInt
<1>3. \A m \in M : /\ bk[m] \in Int /\ rt[m] \in Int /\ tk[m] \in Int /\ nt[m] \in Int
                   /\ nt[m] = -tk[m] /\ br[m] = bk[m] + rt[m] /\ br[m] \in Int
  <2>1. \A m \in M : m \in matches
    BY <1>1
  <2> HIDE DEF M, R, T
  <2> QED BY <1>2, <2>1
<1>4. ASSUME NEW m \in M PROVE TakenBack(u, c)[m] = br[m] + nt[m]
  <2>1. m \in matches /\ m[1] # m[2] /\ (m[1] = o \/ m[2] = o)
    BY <1>1 DEF PairsOppose, MatchesOf
  <2>2. TakenBack(u, c)[m] = -Brought(m, u, c)
    BY <2>1 DEF TakenBack
  <2>3. GrossOf[m] \in Int /\ NetOf[m] \in Int
    BY <1>2, <2>1
  <2>4. CASE m[1] = o
    <3>1. m[2] # o /\ m \notin T /\ (m \in R <=> order[m[2]].user = u /\ GainedIn(order[m[1]]) = c)
      BY <2>1, <2>4
    <3>2. bk[m] = IF order[o].user = u /\ GainedIn(order[m[1]]) = c THEN -NetOf[m] ELSE 0
      BY <2>1, <2>3, <2>4, <3>1 DEF BookedBy
    <3>3. rt[m] = (IF order[m[2]].user = u /\ GainedIn(order[m[1]]) = c THEN GrossOf[m] ELSE 0) /\ nt[m] = 0
      BY <2>1, <3>1
    <3>4. br[m] = bk[m] + rt[m]
      BY <1>3
    <3> HIDE DEF bk, rt, nt, br
    <3> QED BY <2>2, <2>3, <2>4, <3>2, <3>3, <3>4 DEF Brought
  <2>5. CASE m[2] = o
    <3>1. m[1] # o /\ m \notin R /\ (m \in T <=> order[m[1]].user = u /\ GainedIn(order[m[1]]) = c)
      BY <2>1, <2>5
    <3>2. bk[m] = IF order[o].user = u /\ GainedIn(order[m[1]]) = c THEN GrossOf[m] ELSE 0
      BY <2>1, <2>3, <2>5, <3>1 DEF BookedBy
    <3>3. nt[m] = (IF order[m[1]].user = u /\ GainedIn(order[m[1]]) = c THEN -NetOf[m] ELSE 0) /\ rt[m] = 0
      BY <2>1, <3>1
    <3>4. br[m] = bk[m] + rt[m]
      BY <1>3
    <3> HIDE DEF bk, rt, nt, br
    <3> QED BY <2>2, <2>3, <2>5, <3>2, <3>3, <3>4 DEF Brought
  <2> QED BY <2>1, <2>4, <2>5
<1>5. OwnUndone(o, u, c) = HoldOf(o, u, c) + SumFunctionOnSet(bk, M)
  BY OwnUndoneIs
<1>6. /\ ReturnedToMatched(o, u, c) = SumFunctionOnSet(GrossOf, R)
      /\ TakenFromMatched(o, u, c) = SumFunctionOnSet(NetOf, T)
  BY DEF ReturnedToMatched, TakenFromMatched
<1>7. /\ \A m \in R : GrossOf[m] \in Int /\ rt[m] = GrossOf[m]
      /\ \A m \in M \ R : rt[m] = 0
      /\ \A m \in T : NetOf[m] \in Int /\ tk[m] = NetOf[m]
      /\ \A m \in M \ T : tk[m] = 0
  <2>1. \A m \in M : m \in matches
    BY <1>1
  <2> HIDE DEF M
  <2> QED BY <1>1, <1>2, <2>1
<1>8. HoldOf(o, u, c) \in Int
  BY DEF HoldOf, TypeInv, TypeOK
<1> HIDE DEF M, R, T, bk, rt, tk, nt, br
<1>9. /\ SumFunctionOnSet(GrossOf, R) = SumFunctionOnSet(rt, M)
      /\ SumFunctionOnSet(NetOf, T) = SumFunctionOnSet(tk, M)
  BY <1>1, <1>7, SumOfRest
<1>10. SumFunctionOnSet(nt, M) = -SumFunctionOnSet(tk, M)
  BY <1>1, <1>3, SumOfOpposites
<1>11. SumFunctionOnSet(br, M) = SumFunctionOnSet(bk, M) + SumFunctionOnSet(rt, M)
  BY <1>1, <1>3, SumOfBoth
<1>12. SumFunctionOnSet(TakenBack(u, c), M) = SumFunctionOnSet(br, M) + SumFunctionOnSet(nt, M)
  <2>1. PICK t : t = TakenBack(u, c)
    OBVIOUS
  <2>2. SumFunctionOnSet(t, M) = SumFunctionOnSet(br, M) + SumFunctionOnSet(nt, M)
    BY <1>1, <1>3, <1>4, <2>1, SumOfBoth
  <2> QED BY <2>1, <2>2
<1>13. /\ SumFunctionOnSet(bk, M) \in Int /\ SumFunctionOnSet(rt, M) \in Int
       /\ SumFunctionOnSet(tk, M) \in Int
  BY <1>1, <1>3, SumIsInt
<1> QED BY <1>5, <1>6, <1>8, <1>9, <1>10, <1>11, <1>12, <1>13 DEF Undone, M

(* The matches a revert undoes stand before it, each of one order of S. *)
LEMMA TouchedMatches ==
    ASSUME Considerate, TypeInv, PairsOppose, NEW S \in SUBSET OrderIds, RevertOrders(S)
    PROVE  /\ Touched(S) \subseteq LiveMatches
           /\ LiveMatches' = LiveMatches \ Touched(S)
           /\ Touched(S) = UNION {MatchesOf(o) : o \in S}
           /\ \A o, n \in S : o # n => MatchesOf(o) \cap MatchesOf(n) = {}
<1>1. /\ \A o \in OrderIds \ S : order'[o] = order[o]
      /\ \A o \in S : order[o].state # "REVERT" /\ order'[o].state = "REVERT"
  BY RowsAfterRevert
<1>2. matches' = matches
  BY DEF RevertOrders
<1>3. \A m \in matches : m = <<m[1], m[2]>> /\ m[1] \in OrderIds /\ m[2] \in OrderIds
  BY DEF TypeInv, TypeOK
<1>4. \A o \in S, n \in OrderIds :
          <<o, n>> \in matches \/ <<n, o>> \in matches => n \notin S /\ n \notin Reverted
  BY DEF RevertOrders, Sensible, Considerate, Partners
<1>5. Touched(S) \subseteq LiveMatches
  <2>1. ASSUME NEW m \in Touched(S) PROVE m[1] \notin Reverted /\ m[2] \notin Reverted
    <3>1. m \in matches /\ m = <<m[1], m[2]>> /\ m[1] \in OrderIds /\ m[2] \in OrderIds
      BY <1>3 DEF Touched
    <3>2. \A o \in S : o \notin Reverted
      BY <1>1 DEF Reverted
    <3>3. CASE m[1] \in S
      BY <1>4, <3>1, <3>2, <3>3
    <3>4. CASE m[2] \in S
      BY <1>4, <3>1, <3>2, <3>4
    <3> QED BY <3>3, <3>4 DEF Touched
  <2> QED BY <2>1 DEF Touched, LiveMatches
<1>6. LiveMatches' = LiveMatches \ Touched(S)
  <2>1. Reverted' = Reverted \cup S
    BY <1>1 DEF Reverted
  <2> QED BY <1>2, <2>1 DEF LiveMatches, Touched
<1>7. Touched(S) = UNION {MatchesOf(o) : o \in S}
  BY DEF Touched, MatchesOf
<1>8. ASSUME NEW o \in S, NEW n \in S, o # n, NEW m, m \in MatchesOf(o), m \in MatchesOf(n) PROVE FALSE
  <2>1. m \in matches /\ m = <<m[1], m[2]>> /\ n \in OrderIds
    BY <1>3, <1>8 DEF MatchesOf
  <2>2. <<o, n>> \in matches \/ <<n, o>> \in matches
    BY <1>8, <2>1 DEF MatchesOf
  <2> QED BY <1>4, <2>1, <2>2
<1> QED BY <1>5, <1>6, <1>7, <1>8

(* What the owners hold for the orders, less what is held for those of S. *)
LEMMA HoldsWithout ==
    ASSUME TypeInv, NEW S \in SUBSET OrderIds, RevertOrders(S), NEW u, NEW c
    PROVE  /\ Holds(u, c)' = Holds(u, c) - SumFunctionOnSet([o \in S |-> HoldOf(o, u, c)], S)
           /\ Holds(u, c) \in Int
           /\ SumFunctionOnSet([o \in S |-> HoldOf(o, u, c)], S) \in Int
<1> DEFINE f == [n \in OrderIds |->
                   IF order[n].user = u /\ HeldIn(order[n]) = c THEN held[n] ELSE 0]
           g == [n \in OrderIds |->
                   IF order'[n].user = u /\ HeldIn(order'[n]) = c THEN held'[n] ELSE 0]
           h == [n \in S |-> HoldOf(n, u, c)]
           U == OrderIds \ S
<1>1. /\ IsFiniteSet(OrderIds) /\ IsFiniteSet(S) /\ IsFiniteSet(U)
      /\ U \subseteq OrderIds /\ S \cap U = {} /\ S \cup U = OrderIds /\ OrderIds \ U = S
  BY OrdersAreFinite, FS_Subset
<1>2. /\ \A o \in U : order'[o] = order[o] /\ held'[o] = held[o]
      /\ \A o \in S : held'[o] = 0
  BY RowsAfterRevert
<1>3. held \in [OrderIds -> Int]
  BY DEF TypeInv, TypeOK
<1>4. /\ \A n \in OrderIds : f[n] \in Int
      /\ \A n \in U : g[n] = f[n]
      /\ \A n \in S : g[n] = 0
  BY <1>1, <1>2, <1>3
<1>5. \A n \in S : h[n] = f[n]
  BY <1>1 DEF HoldOf
<1>6. Holds(u, c) = SumFunctionOnSet(f, OrderIds) /\ Holds(u, c)' = SumFunctionOnSet(g, OrderIds)
  BY DEF Holds, SumFunction
<1> HIDE DEF f, g, h, U
<1>7. SumFunctionOnSet(f, S \cup U) = SumFunctionOnSet(f, S) + SumFunctionOnSet(f, U)
  BY <1>1, <1>4, SumOfUnion
<1>8. SumFunctionOnSet(f, U) = SumFunctionOnSet(g, OrderIds)
  BY <1>1, <1>4, SumOfRest
<1>9. SumFunctionOnSet(h, S) = SumFunctionOnSet(f, S)
  BY <1>1, <1>5, SumOfEqual
<1>10. SumFunctionOnSet(f, S) \in Int /\ SumFunctionOnSet(f, U) \in Int
  BY <1>1, <1>4, SumIsInt
<1>11. SumFunctionOnSet(f, OrderIds) = SumFunctionOnSet(f, S) + SumFunctionOnSet(f, U)
  BY <1>1, <1>7
<1>12. SumFunctionOnSet([o \in S |-> HoldOf(o, u, c)], S) = SumFunctionOnSet(h, S)
  BY DEF h
<1> QED BY <1>6, <1>8, <1>9, <1>10, <1>11, <1>12

(* What a revert pays in all: the holds, and what the matches cost. *)
LEMMA UndoneInAll ==
    ASSUME Considerate, TypeInv, BooksOK, PairsOppose, OwnInv,
           NEW S \in SUBSET OrderIds, RevertOrders(S), NEW u, NEW c \in Currencies
    PROVE  /\ SumFunction([o \in S |-> Undone(o, u, c)])
                = SumFunctionOnSet([o \in S |-> HoldOf(o, u, c)], S)
                  - SumFunctionOnSet([m \in matches |-> Brought(m, u, c)], Touched(S))
           /\ SumFunctionOnSet([m \in matches |-> Brought(m, u, c)], Touched(S)) \in Int
<1> DEFINE un == [o \in S |-> Undone(o, u, c)]
           hd == [o \in S |-> HoldOf(o, u, c)]
           M == [o \in S |-> MatchesOf(o)]
           T == Touched(S)
           b == [m \in matches |-> Brought(m, u, c)]
           t == TakenBack(u, c)
           tb == [o \in S |-> SumFunctionOnSet(t, M[o])]
<1>1. /\ IsFiniteSet(S) /\ IsFiniteSet(T) /\ T \subseteq matches
      /\ \A o \in S : M[o] \subseteq matches /\ IsFiniteSet(M[o])
  BY OrdersAreFinite, MatchesAreFinite, FS_Subset DEF Touched, MatchesOf
<1>2. /\ T = UNION {M[o] : o \in S}
      /\ \A o, n \in S : o # n => M[o] \cap M[n] = {}
  <2>1. /\ T = UNION {MatchesOf(o) : o \in S}
        /\ \A o, n \in S : o # n => MatchesOf(o) \cap MatchesOf(n) = {}
    BY TouchedMatches
  <2>2. \A o \in S : M[o] = MatchesOf(o)
    OBVIOUS
  <2> HIDE DEF M, T
  <2> QED BY <2>1, <2>2
<1>3. \A m \in matches : b[m] \in Int /\ t[m] \in Int /\ t[m] = -b[m]
  BY BroughtIsInt DEF TakenBack
<1>4. \A o \in S : order[o].state # "REVERT"
  BY RowsAfterRevert
<1>5. \A o \in S : hd[o] \in Int
  BY DEF HoldOf, TypeInv, TypeOK
<1>6. \A o \in S : un[o] = hd[o] + tb[o]
  BY <1>4, UndoneIs
<1>7. /\ \A o \in S : IsFiniteSet(M[o]) /\ tb[o] = SumFunctionOnSet(t, M[o])
                      /\ \A m \in M[o] : t[m] \in Int
  BY <1>1, <1>3
<1>8. SumFunction([o \in S |-> Undone(o, u, c)]) = SumFunctionOnSet(un, S)
  BY DEF SumFunction
<1> HIDE DEF un, hd, M, T, b, t, tb
<1>9. SumFunctionOnSet(tb, S) = SumFunctionOnSet(t, UNION {M[o] : o \in S})
  BY <1>1, <1>2, <1>7, SumOfSums
<1>10. \A o \in S : tb[o] \in Int
  BY <1>7, SumIsInt
<1>11. SumFunctionOnSet(un, S) = SumFunctionOnSet(hd, S) + SumFunctionOnSet(tb, S)
  BY <1>1, <1>5, <1>6, <1>10, SumOfBoth
<1>12. SumFunctionOnSet(t, T) = -SumFunctionOnSet(b, T)
  BY <1>1, <1>3, SumOfOpposites
<1>13. SumFunctionOnSet(hd, S) \in Int /\ SumFunctionOnSet(b, T) \in Int
  BY <1>1, <1>3, <1>5, SumIsInt
<1> QED BY <1>2, <1>8, <1>9, <1>11, <1>12, <1>13 DEF hd, b, T

(* _revert keeps the money invariant. *)
LEMMA RevertKeeps ==
    ASSUME Considerate, TypeInv, RowsInv, BooksOK, NEW S \in SUBSET OrderIds, RevertOrders(S),
           PairsOppose, OwnInv, Balanced
    PROVE  PairsOppose' /\ OwnInv' /\ Balanced'
<1>1. /\ \A o \in OrderIds \ S : order'[o] = order[o] /\ held'[o] = held[o]
      /\ \A o \in S : /\ order[o].state \in {"CLOSED", "CANCELED"}
                      /\ order'[o].state = "REVERT" /\ held'[o] = 0
      /\ \A o \in OrderIds : order'[o].user = order[o].user /\ order'[o].op = order[o].op
  BY RowsAfterRevert
<1>2. /\ matches' = matches /\ own' = own /\ deal' = deal
      /\ amount' = [u \in Users |-> [c \in Currencies |->
                      amount[u][c] + SumFunction([o \in S |-> Undone(o, u, c)])]]
      /\ fees' = [c \in Currencies |-> fees[c] - FeesOf(c, Touched(S))]
  BY DEF RevertOrders, Touched
<1>3. SameOwners
  BY <1>1 DEF SameOwners
<1>4. \A m \in matches :
          /\ \A u, c : Brought(m, u, c)' = Brought(m, u, c) /\ Brought(m, u, c) \in Int
          /\ \A o, c : BookedBy(m, o, c)' = BookedBy(m, o, c)
          /\ order'[m[1]].op = order[m[1]].op /\ order'[m[2]].op = order[m[2]].op
  BY <1>2, <1>3, OldMatch
<1>5. PairsOppose'
  BY <1>2, <1>4 DEF PairsOppose
<1>6. OwnInv'
  <2>1. ASSUME NEW o, NEW c PROVE Booked(o, c)' = Booked(o, c)
    <3>1. [m \in matches |-> BookedBy(m, o, c)]' = [m \in matches |-> BookedBy(m, o, c)]
      BY <1>2, <1>4
    <3> QED BY <1>2, <3>1 DEF Booked
  <2>2. \A o \in OrderIds \ S, c \in Currencies : HoldIn(o, c)' = HoldIn(o, c)
    BY <1>1 DEF HoldIn
  <2> QED BY <1>1, <1>2, <2>1, <2>2 DEF OwnInv
<1> DEFINE T == Touched(S)
           L == LiveMatches \ T
<1>7. /\ LiveMatches' = L /\ T \cup L = LiveMatches /\ T \cap L = {}
      /\ T \subseteq matches /\ L \subseteq matches /\ IsFiniteSet(T) /\ IsFiniteSet(L)
  <2>1. T \subseteq LiveMatches /\ LiveMatches' = L
    BY TouchedMatches
  <2>2. LiveMatches \subseteq matches
    BY DEF LiveMatches
  <2> QED BY <2>1, <2>2, MatchesAreFinite
<1> HIDE DEF T, L
<1>8. ASSUME NEW u \in Users, NEW c \in Currencies
      PROVE  amount'[u][c] + Holds(u, c)' = Funds[u][c] + Traded(u, c)'
  <2> DEFINE b == [m \in matches |-> Brought(m, u, c)]
             h == SumFunctionOnSet([o \in S |-> HoldOf(o, u, c)], S)
  <2>1. b' = b /\ \A m \in matches : b[m] \in Int
    BY <1>2, <1>4
  <2>2. Traded(u, c) = SumFunctionOnSet(b, LiveMatches) /\ Traded(u, c)' = SumFunctionOnSet(b, L)
    BY <1>7, <2>1 DEF Traded
  <2>3. SumFunction([o \in S |-> Undone(o, u, c)]) = h - SumFunctionOnSet(b, T)
    BY UndoneInAll DEF T
  <2>4. Holds(u, c)' = Holds(u, c) - h /\ Holds(u, c) \in Int /\ h \in Int
    BY HoldsWithout
  <2>5. amount[u][c] + Holds(u, c) = Funds[u][c] + Traded(u, c)
    BY DEF Balanced
  <2>6. amount[u][c] \in Int
    BY DEF TypeInv, TypeOK
  <2>7. amount'[u][c] = amount[u][c] + (h - SumFunctionOnSet(b, T))
    BY <1>2, <2>3
  <2>8. Funds[u][c] \in Int
    BY OrderBookAssumption DEF Currencies
  <2> HIDE DEF b, h
  <2>9. SumFunctionOnSet(b, T \cup L) = SumFunctionOnSet(b, T) + SumFunctionOnSet(b, L)
    <3>1. \A m \in T \cup L : b[m] \in Int
      BY <1>7, <2>1
    <3> QED BY <1>7, <3>1, SumOfUnion
  <2>10. SumFunctionOnSet(b, T) \in Int /\ SumFunctionOnSet(b, L) \in Int
    <3>1. (\A m \in T : b[m] \in Int) /\ (\A m \in L : b[m] \in Int)
      BY <1>7, <2>1
    <3> QED BY <1>7, <3>1, SumIsInt
  <2>11. SumFunctionOnSet(b, LiveMatches) = SumFunctionOnSet(b, T) + SumFunctionOnSet(b, L)
    BY <1>7, <2>9
  <2> QED BY <2>2, <2>4, <2>5, <2>6, <2>7, <2>8, <2>10, <2>11
<1>9. ASSUME NEW c \in Currencies PROVE fees'[c] = FeesOf(c, LiveMatches)'
  <2> DEFINE f == [m \in matches |-> IF GainedIn(order[m[1]]) = c THEN deal[m].fee ELSE 0]
  <2>1. f' = f /\ \A m \in matches : f[m] \in Int
    <3>1. \A m \in matches : deal[m].fee \in Int
      BY DealOfMatch
    <3>2. \A m \in matches : GainedIn(order'[m[1]]) = GainedIn(order[m[1]])
      BY <1>4 DEF GainedIn
    <3> QED BY <1>2, <3>1, <3>2
  <2>2. FeesOf(c, T) = SumFunctionOnSet(f, T) /\ FeesOf(c, LiveMatches) = SumFunctionOnSet(f, LiveMatches)
        /\ FeesOf(c, LiveMatches)' = SumFunctionOnSet(f, L)
    BY <1>7, <2>1 DEF FeesOf
  <2> HIDE DEF f
  <2>3. SumFunctionOnSet(f, T \cup L) = SumFunctionOnSet(f, T) + SumFunctionOnSet(f, L)
    <3>1. \A m \in T \cup L : f[m] \in Int
      BY <1>7, <2>1
    <3> QED BY <1>7, <3>1, SumOfUnion
  <2>4. SumFunctionOnSet(f, T) \in Int /\ SumFunctionOnSet(f, L) \in Int
    <3>1. (\A m \in T : f[m] \in Int) /\ (\A m \in L : f[m] \in Int)
      BY <1>7, <2>1
    <3> QED BY <1>7, <3>1, SumIsInt
  <2>5. fees[c] = FeesOf(c, LiveMatches) /\ fees'[c] = fees[c] - FeesOf(c, T)
    BY <1>2 DEF Balanced, T
  <2>6. SumFunctionOnSet(f, LiveMatches) = SumFunctionOnSet(f, T) + SumFunctionOnSet(f, L)
    BY <1>7, <2>3
  <2> QED BY <2>2, <2>4, <2>5, <2>6
<1> QED BY <1>5, <1>6, <1>8, <1>9 DEF Balanced

-----------------------------------------------------------------------------
(* The invariant.                                                          *)

(* At first nothing is held or matched. *)
LEMMA RevertInitSound == RevertInit => RevertInv
<1> SUFFICES ASSUME RevertInit PROVE RevertInv
  OBVIOUS
<1>1. MirrorInv /\ MatchingInv
  BY MirrorInit, MatchingInit DEF RevertInit
<1>2. /\ order = [o \in OrderIds |-> NoRow] /\ held = [o \in OrderIds |-> 0] /\ matches = {}
      /\ amount = Funds /\ fees = Only("base", 0)
      /\ own = [o \in OrderIds |-> Only("base", 0)] /\ deal = <<>>
  BY DEF RevertInit, Init
<1>3. BooksOK
  <2>1. own \in [OrderIds -> [Currencies -> Int]]
    BY <1>2 DEF Only
  <2>2. deal \in [matches -> [gross : Nat, fee : Nat]]
    BY <1>2
  <2> QED BY <2>1, <2>2 DEF BooksOK
<1>4. \A o, c : Booked(o, c) = 0
  BY <1>2, SumOfNone DEF Booked
<1>5. \A u, c : Traded(u, c) = 0
  BY <1>2, SumOfNone DEF Traded, LiveMatches
<1>6. \A c : FeesOf(c, LiveMatches) = 0
  BY <1>2, SumOfNone DEF FeesOf, LiveMatches
<1>7. ASSUME NEW u, NEW c PROVE Holds(u, c) = 0
  <2> DEFINE f == [o \in OrderIds |->
                     IF order[o].user = u /\ HeldIn(order[o]) = c THEN held[o] ELSE 0]
  <2>1. \A o \in OrderIds : f[o] = 0
    BY <1>2
  <2>2. Holds(u, c) = SumFunctionOnSet(f, OrderIds)
    BY DEF Holds, SumFunction
  <2> HIDE DEF f
  <2> QED BY <2>1, <2>2, OrdersAreFinite, SumOfZeros
<1>8. PairsOppose
  BY <1>2 DEF PairsOppose
<1>9. OwnInv
  BY <1>2, <1>4 DEF OwnInv, HoldIn, Only
<1>10. Balanced
  <2>1. \A u \in Users, c \in Currencies : amount[u][c] + 0 = Funds[u][c] + 0
    BY <1>2
  <2>2. \A c \in Currencies : fees[c] = 0
    BY <1>2 DEF Only
  <2> QED BY <1>5, <1>6, <1>7, <2>1, <2>2 DEF Balanced
<1> QED BY <1>1, <1>3, <1>8, <1>9, <1>10 DEF RevertInv, MoneyInv

(* A match only adds results. *)
LEMMA MatchAdds ==
    ASSUME Match, FillBooked
    PROVE  voided \subseteq voided' /\ matches \subseteq matches' /\ (FeesWithin' => FeesWithin)
<1>1. voided \subseteq voided' /\ matches \subseteq matches'
  BY DEF Match, Execute
<1>2. \A m \in matches : deal'[m] = deal[m]
  BY <1>1 DEF FillBooked
<1> QED BY <1>1, <1>2 DEF FeesWithin

(* Any step of OrderBook but a match keeps the money invariant. *)
LEMMA NotMatchKeepsMoney ==
    ASSUME MirrorInv, TypeInv', BooksOK, MoneyInv, NotMatch, HoldsBooked
    PROVE  BooksOK' /\ MoneyInv'
<1>1. TypeInv /\ RowsInv
  BY MirrorParts
<1>2. matches' = matches /\ voided' = voided /\ deal' = deal
  BY NotMatchNoResult DEF HoldsBooked
<1>3. BooksOK'
  BY <1>1, <1>2, HoldsAreBooked
<1>4. FeesWithin' => FeesWithin
  BY <1>2 DEF FeesWithin
<1>5. ASSUME voided = {}, PairsOppose, OwnInv, Balanced
      PROVE  PairsOppose' /\ OwnInv' /\ Balanced'
  <2>1. NoneHeld
    BY <1>5 DEF OwnInv, NoneHeld
  <2>2. HoldMoves
    BY <1>5, <2>1, NotMatchMoves
  <2> QED BY <1>1, <1>5, <2>2, HoldMovesKeeps
<1> QED BY <1>2, <1>3, <1>4, <1>5 DEF MoneyInv

(* So does a match. *)
LEMMA MatchKeepsMoney ==
    ASSUME MirrorInv, TypeInv', BooksOK, MoneyInv, Match, FillBooked
    PROVE  BooksOK' /\ MoneyInv'
<1>1. TypeInv /\ RowsInv
  BY MirrorParts
<1>2. BooksOK'
  BY <1>1, FillsAreBooked
<1>3. ASSUME voided' = {}, FeesWithin' PROVE PairsOppose' /\ OwnInv' /\ Balanced'
  <2>1. PairsOppose /\ OwnInv /\ Balanced
    BY <1>3, MatchAdds DEF MoneyInv
  <2>2. PICK a, b \in OrderIds, ga, fa, ra, gb, fb, rb \in Nat :
            Matched(a, b, ga, fa, ra, gb, fb, rb)
    BY <1>3, MatchMoves
  <2> QED BY <1>1, <1>2, <1>3, <2>1, <2>2, MatchedKeeps
<1> QED BY <1>2, <1>3 DEF MoneyInv

(* No step of OrderReverts breaks the invariant. *)
LEMMA RevertStep ==
    Orderly /\ Considerate /\ RevertInv /\ [RevertNext]_revertVars => RevertInv'
<1> SUFFICES ASSUME Orderly, Considerate, RevertInv, [RevertNext]_revertVars PROVE RevertInv'
  OBVIOUS
<1>1. MirrorInv /\ MatchingInv /\ BooksOK /\ MoneyInv /\ TypeInv /\ RowsInv
  BY MirrorParts DEF RevertInv
<1>2. CASE NotMatch /\ HoldsBooked
  <2>1. [Next]_vars
    BY <1>2 DEF NotMatch, Next, Worker
  <2>2. MirrorInv' /\ MatchingInv' /\ TypeInv'
    BY <1>1, <2>1, MirrorStep, MatchingStep, TypeNext
  <2>3. BooksOK' /\ MoneyInv'
    BY <1>1, <1>2, <2>2, NotMatchKeepsMoney
  <2> QED BY <2>2, <2>3 DEF RevertInv
<1>3. CASE Match /\ FillBooked
  <2>1. [Next]_vars
    BY <1>3 DEF Next, Worker
  <2>2. MirrorInv' /\ MatchingInv' /\ TypeInv'
    BY <1>1, <2>1, MirrorStep, MatchingStep, TypeNext
  <2>3. BooksOK' /\ MoneyInv'
    BY <1>1, <1>3, <2>2, MatchKeepsMoney
  <2> QED BY <2>2, <2>3 DEF RevertInv
<1>4. ASSUME NEW S \in SUBSET OrderIds, RevertOrders(S) PROVE RevertInv'
  <2>1. MirrorInv' /\ MatchingInv'
    BY <1>1, <1>4, RevertMirror
  <2>2. TypeInv' /\ BooksOK'
    BY <1>1, <1>4, RevertTypes
  <2>3. voided' = voided /\ matches' = matches /\ deal' = deal
    BY <1>4 DEF RevertOrders
  <2>4. MoneyInv'
    <3>1. FeesWithin' => FeesWithin
      BY <2>3 DEF FeesWithin
    <3>2. PairsOppose /\ OwnInv /\ Balanced => PairsOppose' /\ OwnInv' /\ Balanced'
      BY <1>1, <1>4, RevertKeeps
    <3> QED BY <1>1, <2>3, <3>1, <3>2 DEF MoneyInv
  <2> QED BY <2>1, <2>2, <2>4 DEF RevertInv
<1>5. CASE UNCHANGED revertVars
  <2>1. UNCHANGED vars /\ own' = own /\ deal' = deal
    BY <1>5 DEF revertVars
  <2>2. MirrorInv' /\ MatchingInv' /\ TypeInv'
    BY <1>1, <2>1, MirrorStep, MatchingStep, TypeNext
  <2>3. UNCHANGED <<order, amount, held, fees, matches, voided>>
    BY <2>1 DEF vars, dbVars
  <2>4. /\ \A u, c : Holds(u, c)' = Holds(u, c) /\ Traded(u, c)' = Traded(u, c)
        /\ \A o, c : HoldIn(o, c)' = HoldIn(o, c) /\ Booked(o, c)' = Booked(o, c)
        /\ \A c : FeesOf(c, LiveMatches)' = FeesOf(c, LiveMatches)
    <3>1. \A u, c : Traded(u, c)' = Traded(u, c)
      BY <1>1, <2>1, <2>3, MatchesStand DEF SameOwners
    <3>2. \A o, c : Booked(o, c)' = Booked(o, c)
      BY <1>1, <2>1, <2>3, MatchesStand DEF SameOwners
    <3>3. \A c : FeesOf(c, LiveMatches)' = FeesOf(c, LiveMatches)
      BY <1>1, <2>1, <2>3, MatchesStand DEF SameOwners
    <3>4. \A u, c : Holds(u, c)' = Holds(u, c)
      BY <2>3 DEF Holds
    <3>5. \A o, c : HoldIn(o, c)' = HoldIn(o, c)
      BY <2>3 DEF HoldIn
    <3> QED BY <3>1, <3>2, <3>3, <3>4, <3>5
  <2>5. BooksOK' /\ (FeesWithin' => FeesWithin) /\ (PairsOppose => PairsOppose')
    BY <1>1, <2>1, <2>3 DEF BooksOK, FeesWithin, PairsOppose
  <2>6. OwnInv => OwnInv'
    BY <2>1, <2>3, <2>4 DEF OwnInv
  <2>7. Balanced => Balanced'
    BY <2>3, <2>4 DEF Balanced
  <2>8. MoneyInv'
    BY <1>1, <2>3, <2>5, <2>6, <2>7 DEF MoneyInv
  <2> QED BY <2>2, <2>5, <2>8 DEF RevertInv
<1> QED BY <1>2, <1>3, <1>4, <1>5 DEF RevertNext, NotMatch

(* What create_order, _execute, close_market, cancel_order and _revert     *)
(* book leaves the invariant, whatever the orders of the selections.       *)
THEOREM RevertSound == ASSUME Orderly, Considerate PROVE RevertSpec => []RevertInv
<1>1. RevertInit => RevertInv
  BY RevertInitSound
<1>2. RevertInv /\ [RevertNext]_revertVars => RevertInv'
  BY RevertStep
<1> QED BY <1>1, <1>2, PTL DEF RevertSpec

(* Every balance and hold is, to the unit, what the initial funds and the  *)
(* matches that stand come to: _revert takes back what _execute brought.   *)
THEOREM RevertsUndoMatches == ASSUME Orderly, Considerate PROVE RevertSpec => []RevertsUndo
<1>1. RevertInv => RevertsUndo
  BY DEF RevertInv, MoneyInv, Balanced, RevertsUndo
<1> QED BY <1>1, RevertSound, PTL

(* A market sell still sells all it offers when orders of the book are     *)
(* reverted before it is matched.                                          *)
THEOREM MarketSellsFillBesideReverts ==
    ASSUME Orderly, Considerate PROVE RevertSpec => []MarketSellsFill
<1>1. RevertInv => MarketSellsFill
  BY WorkFills DEF RevertInv
<1> QED BY <1>1, RevertSound, PTL

(* Reverts included, what is held for an open order covers its claim.      *)
THEOREM HoldsCoverReverts == ASSUME Orderly, Considerate PROVE RevertSpec => []HoldCovers
<1>1. RevertInv => HoldCovers
  BY MirrorParts DEF RevertInv, RowsInv, HoldCovers
<1> QED BY <1>1, RevertSound, PTL

==============================================================================

--------------------------- MODULE OrderBookProofs ---------------------------
(*****************************************************************************)
(* Theorems of OrderBook for every value of its constants, in three parts:   *)
(* the type invariant; the worker's memory and the database; the order in    *)
(* which orders are matched.                                                 *)
(*****************************************************************************)
EXTENDS OrderBookInv, SumProofs, SequenceTheorems, TLAPS

-----------------------------------------------------------------------------
(***************************************************************************)
(* Theorems of OrderBook for every value of its constants.                 *)
(***************************************************************************)

-----------------------------------------------------------------------------
(* Arithmetic of Money.                                                    *)

(* The quotient of a division by Scale, characterised without division. *)
LEMMA Quotient ==
    ASSUME NEW n \in Nat
    PROVE  /\ n \div Scale \in Nat
           /\ Scale * (n \div Scale) <= n
           /\ n < Scale * (n \div Scale) + Scale
  BY MoneyAssumption, SMTT(30)

(* Rounding down two parts never gives more than rounding down their sum. *)
LEMMA FloorOfSum ==
    ASSUME NEW m \in Nat, NEW n \in Nat
    PROVE  (m \div Scale) + (n \div Scale) <= (m + n) \div Scale
<1> DEFINE x == m \div Scale
           y == n \div Scale
           z == (m + n) \div Scale
<1>1. x \in Nat /\ Scale * x <= m
  BY Quotient
<1>2. y \in Nat /\ Scale * y <= n
  BY Quotient
<1>3. z \in Nat /\ m + n < Scale * z + Scale
  BY Quotient
<1> SUFFICES ASSUME x + y > z PROVE FALSE
  BY <1>1, <1>2, <1>3
<1> HIDE DEF x, y, z
<1>4. x + y >= z + 1
  BY <1>1, <1>2, <1>3
<1>5. Scale * (x + y) >= Scale * (z + 1)
  BY <1>1, <1>2, <1>3, <1>4, MoneyAssumption, SMT
<1>6. Scale * (x + y) = Scale * x + Scale * y
  BY <1>1, <1>2, MoneyAssumption
<1>7. Scale * (z + 1) = Scale * z + Scale
  BY <1>3, MoneyAssumption
<1>8. QED
  BY <1>1, <1>2, <1>3, <1>5, <1>6, <1>7, MoneyAssumption

(* A floor does not fall when its argument grows. *)
LEMMA FloorMonotonic ==
    ASSUME NEW m \in Nat, NEW n \in Nat, m <= n
    PROVE  m \div Scale <= n \div Scale
<1>1. n - m \in Nat /\ m + (n - m) = n
  OBVIOUS
<1>2. (m \div Scale) + ((n - m) \div Scale) <= n \div Scale
  BY <1>1, FloorOfSum
<1>3. QED
  BY <1>1, <1>2, Quotient

(* The floor of what is at most a multiple of Scale. *)
LEMMA FloorOfMultiple ==
    ASSUME NEW n \in Nat, NEW c \in Nat, n <= c * Scale
    PROVE  n \div Scale <= c
<1> DEFINE x == n \div Scale
<1>1. x \in Nat /\ Scale * x <= n
  BY Quotient
<1> SUFFICES ASSUME x > c PROVE FALSE
  BY <1>1
<1> HIDE DEF x
<1>2. Scale * x >= Scale * (c + 1)
  BY <1>1, MoneyAssumption, SMT
<1>3. Scale * (c + 1) = c * Scale + Scale
  BY MoneyAssumption
<1>4. Scale * x \in Nat /\ c * Scale \in Nat
  BY <1>1, MoneyAssumption
<1>5. QED
  BY <1>1, <1>2, <1>3, <1>4, MoneyAssumption

(* A value is a natural number. *)
LEMMA ValueIsNat ==
    ASSUME NEW q \in Nat, NEW p \in Nat
    PROVE  q * p \in Nat /\ Value(q, p) \in Nat
<1>1. q * p \in Nat
  OBVIOUS
<1>2. QED
  BY <1>1, Quotient DEF Value

(* What a cost buys at a price: at least zero, and worth at most the cost. *)
LEMMA BoughtIsAffordable ==
    ASSUME NEW c \in Nat, NEW p \in Nat \ {0}
    PROVE  /\ Bought(c, p) \in Nat
           /\ Bought(c, p) * p <= c * Scale
<1>1. c * Scale \in Nat
  BY MoneyAssumption
<1>2. \A n \in Nat : n \div p \in Nat /\ (n \div p) * p <= n
  BY SMTT(30)
<1>3. QED
  BY <1>1, <1>2 DEF Bought

(* So is a fee. *)
LEMMA FeeIsNat ==
    ASSUME NEW rate \in Nat, NEW n \in Nat
    PROVE  Fee(rate, n) \in Nat
  BY ValueIsNat, MoneyAssumption DEF Fee

(* A sum of the values of two parts of a quantity, or of a price. *)
LEMMA ValueOfParts ==
    ASSUME NEW q \in Nat, NEW left \in Nat, q <= left,
           NEW p \in Nat, NEW price \in Nat, p <= price
    PROVE  Value(q, price - p) + Value(q, p) + Value(left - q, price) <= Value(left, price)
<1>1. price - p \in Nat /\ left - q \in Nat
  OBVIOUS
<1> DEFINE a == q * (price - p)
           b == q * p
           d == (left - q) * price
<1>2. a \in Nat /\ b \in Nat /\ d \in Nat
  BY <1>1
<1>3. a + b = q * price
  BY SMT
<1>4. (a + b) + d = left * price
  <2>1. d = left * price - q * price
    BY SMT
  <2>2. QED
    BY <1>3, <2>1, SMT
<1>5. a + b \in Nat
  BY <1>2
<1> HIDE DEF a, b, d
<1>6. (a \div Scale) + (b \div Scale) <= (a + b) \div Scale
  BY <1>2, FloorOfSum
<1>7. ((a + b) \div Scale) + (d \div Scale) <= ((a + b) + d) \div Scale
  BY <1>2, <1>5, FloorOfSum
<1>8. /\ a \div Scale \in Nat /\ b \div Scale \in Nat /\ d \div Scale \in Nat
      /\ (a + b) \div Scale \in Nat /\ ((a + b) + d) \div Scale \in Nat
  BY <1>2, <1>5, Quotient
<1>9. (a \div Scale) + (b \div Scale) + (d \div Scale) <= (left * price) \div Scale
  BY <1>4, <1>6, <1>7, <1>8
<1>10. QED
  BY <1>9 DEF Value, a, b, d

-----------------------------------------------------------------------------
(* One fill.                                                               *)

(* The fields of a row. *)
LEMMA RowFields ==
    ASSUME NEW x \in Row
    PROVE  /\ x.id \in 0 .. MaxOrders /\ x.user \in Users /\ x.op \in {"BUY", "SELL"}
           /\ x.market \in BOOLEAN /\ x.price \in Nat /\ x.qty \in Nat
           /\ x.left \in Nat /\ x.cost \in Nat
           /\ x.state \in {"NONE", "OPENED", "CLOSED", "CANCELED", "REVERT"}
           /\ FeeRate[x.user] \in Nat
  BY OrderBookAssumption DEF Row

(* A row that differs from another in its price and quantities. *)
LEMMA RowForUpdate ==
    ASSUME NEW x \in Row, NEW p, NEW q, NEW l, NEW y,
           y = [x EXCEPT !.price = p, !.qty = q, !.left = l]
    PROVE  y = [id |-> x.id, user |-> x.user, op |-> x.op, market |-> x.market, price |-> p,
                qty |-> q, left |-> l, cost |-> x.cost, state |-> x.state]
  BY DEF Row

(* A fill takes no more than the resting order has left, than a limit order  *)
(* or market sell has left, or than a market buy can still spend.            *)
LEMMA FillIsBounded ==
    ASSUME NEW x \in Row, NEW y \in Row, y.price > 0
    PROVE  /\ FillQuantity(x, y) \in Nat
           /\ FillQuantity(x, y) <= y.left
           /\ ~MarketBuy(x) => FillQuantity(x, y) <= x.left
           /\ MarketBuy(x) => Value(FillQuantity(x, y), y.price) <= x.cost
<1> DEFINE b == Bought(x.cost, y.price)
           all == y.price * y.left
<1>1. /\ y.price \in Nat \ {0} /\ y.left \in Nat /\ x.left \in Nat /\ x.cost \in Nat
      /\ x.market \in BOOLEAN
  BY RowFields
<1>2. CASE ~MarketBuy(x)
  BY <1>1, <1>2 DEF FillQuantity, Least
<1>3. CASE MarketBuy(x) /\ x.cost * Scale >= all
  <2>1. FillQuantity(x, y) = y.left
    BY <1>3 DEF FillQuantity
  <2>2. all = y.left * y.price /\ all \in Nat
    BY <1>1
  <2> HIDE DEF all
  <2>3. Value(y.left, y.price) <= x.cost
    BY <1>1, <1>3, <2>2, FloorOfMultiple DEF Value
  <2>4. QED
    BY <1>1, <1>3, <2>1, <2>3
<1>4. CASE MarketBuy(x) /\ ~(x.cost * Scale >= all)
  <2>1. FillQuantity(x, y) = b
    BY <1>4 DEF FillQuantity
  <2>2. b \in Nat /\ b * y.price <= x.cost * Scale
    BY <1>1, BoughtIsAffordable
  <2> HIDE DEF b
  <2>3. b * y.price \in Nat /\ x.cost * Scale \in Nat /\ y.price * y.left \in Nat
    BY <1>1, <2>2, MoneyAssumption
  <2>4. b * y.price < y.price * y.left
    BY <1>4, <2>2, <2>3
  <2>5. b <= y.left
    <3> SUFFICES ASSUME b > y.left PROVE FALSE
      BY <1>1, <2>2
    <3>1. y.price * b >= y.price * y.left
      BY <1>1, <2>2, SMT
    <3>2. QED
      BY <1>1, <2>2, <2>3, <2>4, <3>1, SMT
  <2>6. Value(b, y.price) <= x.cost
    BY <1>1, <2>2, <2>3, FloorOfMultiple DEF Value
  <2>7. QED
    BY <1>4, <2>1, <2>2, <2>5, <2>6
<1>5. QED
  BY <1>2, <1>3, <1>4

(* The volume-weighted price is a natural number. *)
LEMMA VwapIsNat ==
    ASSUME NEW x \in Row, NEW q \in Nat, NEW p \in Nat
    PROVE  VwapOf(x, q, p) \in Nat
<1> DEFINE filled == IF x.op = "BUY" THEN x.qty + q ELSE x.qty
           prior  == IF x.price = 0 \/ filled = 0 THEN 0 ELSE filled
           cost   == Value(q, p) + Value(prior, x.price)
<1>1. prior \in Nat
  BY RowFields
<1>2. cost \in Nat
  <2> HIDE DEF prior
  <2>1. x.price \in Nat
    BY RowFields
  <2>2. Value(q, p) \in Nat /\ Value(prior, x.price) \in Nat
    BY <1>1, <2>1, ValueIsNat
  <2>3. QED
    BY <2>2
<1>3. VwapOf(x, q, p) = IF q + prior = 0 THEN 0 ELSE Bought(cost, q + prior)
  BY DEF VwapOf
<1> HIDE DEF prior, cost
<1>4. CASE q + prior = 0
  BY <1>3, <1>4
<1>5. CASE q + prior # 0
  BY <1>1, <1>2, <1>3, <1>5, BoughtIsAffordable
<1>6. QED
  BY <1>4, <1>5

(* A fill within these bounds leaves a row of the same order, and a limit    *)
(* order keeps its price.                                                    *)
LEMMA FilledIsRow ==
    ASSUME NEW x \in Row, NEW q \in Nat, NEW p \in Nat,
           MarketBuy(x) => Value(q, p) <= x.cost,
           ~MarketBuy(x) => q <= x.left
    PROVE  /\ Filled(x, q, p) \in Row
           /\ Filled(x, q, p).id = x.id
           /\ Filled(x, q, p).op = x.op
           /\ Filled(x, q, p).user = x.user
           /\ Filled(x, q, p).market = x.market
           /\ ~x.market => Filled(x, q, p).price = x.price
<1> DEFINE left  == IF MarketBuy(x) THEN 0 ELSE x.left - q
           cost  == IF MarketBuy(x) THEN x.cost - Value(q, p) ELSE x.cost
           qty   == IF MarketBuy(x) THEN x.qty + q ELSE x.qty
           price == IF x.market THEN VwapOf(x, q, p) ELSE x.price
           state == IF left = 0 /\ ~Void(x, q, p) THEN "CLOSED" ELSE x.state
<1>1. Value(q, p) \in Nat /\ VwapOf(x, q, p) \in Nat
  BY ValueIsNat, VwapIsNat
<1>2. left \in Nat /\ cost \in Nat /\ qty \in Nat /\ price \in Nat
  BY <1>1, RowFields
<1>3. state \in {"NONE", "OPENED", "CLOSED", "CANCELED", "REVERT"}
  BY RowFields
<1>4. Filled(x, q, p) = [x EXCEPT !.left = left, !.cost = cost, !.qty = qty,
                                  !.price = price, !.state = state]
  BY DEF Filled
<1>5. ~x.market => price = x.price
  OBVIOUS
<1> HIDE DEF left, cost, qty, price, state
<1>6. Filled(x, q, p) = [id |-> x.id, user |-> x.user, op |-> x.op, market |-> x.market,
                         price |-> price, qty |-> qty, left |-> left, cost |-> cost,
                         state |-> state]
  BY <1>4 DEF Row
<1>7. QED
  BY <1>2, <1>3, <1>5, <1>6, RowFields DEF Row

(* What cancelling gives back. *)
LEMMA RefundIsNat ==
    ASSUME NEW x \in Row
    PROVE  Refund(x) \in Nat
<1>1. Value(x.left, x.price) \in Nat
  BY RowFields, ValueIsNat
<1>2. QED
  BY <1>1, RowFields DEF Refund

(* What a fill is worth before and after the fee. *)
LEMMA GrossAndFee ==
    ASSUME NEW x \in Row, NEW q \in Nat, NEW p \in Nat
    PROVE  Gross(x, q, p) \in Nat /\ FeeOf(x, q, p) \in Nat
<1>1. Gross(x, q, p) \in Nat
  BY RowFields, ValueIsNat DEF Gross
<1>2. FeeOf(x, q, p) \in Nat
  BY <1>1, RowFields, FeeIsNat DEF FeeOf
<1>3. QED
  BY <1>1, <1>2

(* A fill pays its order a natural number of units of either currency, and   *)
(* what it releases is an integer, provided a limit buy is never filled above *)
(* its own price.                                                            *)
LEMMA CreditIsNat ==
    ASSUME NEW x \in Row, NEW q \in Nat, NEW p \in Nat,
           order \in [OrderIds -> Row], x.id \in OrderIds,
           x.op = "BUY" /\ ~x.market => p <= x.price
    PROVE  /\ \A c \in Currencies : Credit(x, q, p)[c] \in Nat
           /\ Released(x, q, p) \in Nat
<1>1. Gross(x, q, p) \in Nat /\ FeeOf(x, q, p) \in Nat /\ Value(q, p) \in Nat
  BY GrossAndFee, ValueIsNat
<1>2. Abs(Gross(x, q, p) - FeeOf(x, q, p)) \in Nat
  BY <1>1 DEF Abs
<1>3. Cacheback(x, q, p) \in Nat
  <2>1. CASE x.op = "BUY" /\ ~x.market
    <3>1. x.price - p \in Nat
      BY <2>1, RowFields
    <3>2. QED
      BY <2>1, <3>1, ValueIsNat DEF Cacheback
  <2>2. CASE ~(x.op = "BUY" /\ ~x.market)
    BY <2>2 DEF Cacheback
  <2>3. QED
    BY <2>1, <2>2
<1>4. VoidRefund(x, q, p) \in Nat
  BY RefundIsNat DEF VoidRefund
<1>5. ASSUME NEW c \in Currencies PROVE Credit(x, q, p)[c] \in Nat
  BY <1>2, <1>3, <1>4 DEF Credit
<1>6. Released(x, q, p) \in Nat
  BY <1>1, <1>3, <1>4 DEF Released
<1>7. QED
  BY <1>5, <1>6

-----------------------------------------------------------------------------
(* The parts of the inductive invariant.                                   *)

(* The columns of the database. *)
DatabaseOK ==
    /\ order \in [OrderIds -> Row]
    /\ amount \in [Users -> [Currencies -> Nat]]
    /\ matches \subseteq OrderIds \X OrderIds
    /\ held \in [OrderIds -> Int]
    /\ fees \in [Currencies -> Int]
    /\ voided \subseteq OrderIds
    /\ RowsOK(order)

Stacks == [OrderIds -> [row : Row, key : Nat]]
Works == [phase : {"idle", "market", "match", "reprice"}, obj : Row, todo : SUBSET OrderIds]

(* What the processes hold besides. *)
ProcessesOK(ord, u, q, b) ==
    /\ u \subseteq Row /\ UnsentOK(ord, u)
    /\ q \in Seq(Message) /\ QueueOK(ord, q)
    /\ b \subseteq OrderIds /\ \A o \in b : Exists(ord, o)

BookOK(ord, st, c) ==
    /\ st \in Stacks /\ StackOK(ord, st)
    /\ c \in Works /\ CurOK(ord, st, c)

CountersOK ==
    /\ onCancel \subseteq OrderIds /\ onPlace \subseteq OrderIds
    /\ updates \in Nat /\ restarts \in Nat /\ duplicates \in Nat

(* The invariant is the conjunction of these parts. *)
LEMMA TypeParts ==
    TypeInv <=> /\ DatabaseOK /\ CountersOK
                /\ ProcessesOK(order, unsent, queue, boot)
                /\ BookOK(order, stack, cur)
  BY DEF TypeInv, TypeOK, DatabaseOK, ProcessesOK, BookOK, CountersOK, Stacks, Works

(* A step never changes the id or the operation of a row that exists. *)
Kept(ord, new) ==
    \A o \in OrderIds : ord[o].id = o => new[o].id = o /\ new[o].op = ord[o].op

(* So what was stored stays stored. *)
LEMMA Carried ==
    ASSUME NEW ord, NEW new, Kept(ord, new)
    PROVE  /\ \A u, q, b : ProcessesOK(ord, u, q, b) => ProcessesOK(new, u, q, b)
           /\ \A st, c : BookOK(ord, st, c) => BookOK(new, st, c)
           /\ \A x : Stored(ord, x) => Stored(new, x)
<1>1. \A o : Exists(ord, o) => Exists(new, o)
  BY DEF Kept, Exists
<1>2. \A x : Stored(ord, x) => Stored(new, x)
  BY DEF Kept, Exists, Stored
<1>3. \A m : MessageOK(ord, m) => MessageOK(new, m)
  BY <1>1, <1>2 DEF MessageOK
<1>4. \A st : StackOK(ord, st) => StackOK(new, st)
  BY <1>2 DEF StackOK, EntryOK
<1>5. \A st, c : CurOK(ord, st, c) => CurOK(new, st, c)
  BY <1>2 DEF CurOK
<1>6. \A u : UnsentOK(ord, u) => UnsentOK(new, u)
  BY <1>2 DEF UnsentOK
<1>7. \A q : QueueOK(ord, q) => QueueOK(new, q)
  BY <1>3 DEF QueueOK
<1>8. \A u, q, b : ProcessesOK(ord, u, q, b) => ProcessesOK(new, u, q, b)
  BY <1>1, <1>6, <1>7 DEF ProcessesOK
<1>9. \A st, c : BookOK(ord, st, c) => BookOK(new, st, c)
  BY <1>4, <1>5 DEF BookOK
<1>10. QED
  BY <1>2, <1>8, <1>9

(* The empty row and the empty entry are well formed. *)
LEMMA EmptyIsTyped == NoRow \in Row /\ NoEntry \in [row : Row, key : Nat] /\ Idle \in Works
<1>1. NoRow \in Row
  BY OrderBookAssumption DEF NoRow, Row
<1>2. QED
  BY <1>1 DEF NoEntry, Idle, Works

(* The head of a queue is a good message and leaves a good queue. *)
LEMMA QueueHead ==
    ASSUME NEW ord, NEW q \in Seq(Message), q # <<>>, QueueOK(ord, q)
    PROVE  /\ Tail(q) \in Seq(Message) /\ QueueOK(ord, Tail(q))
           /\ Head(q) \in Message /\ MessageOK(ord, Head(q))
<1>1. Len(q) \in Nat /\ Len(q) >= 1 /\ Head(q) = q[1] /\ Tail(q) \in Seq(Message)
  BY SMT
<1>2. Head(q) \in Message
  BY SMT
<1>3. Len(Tail(q)) = Len(q) - 1 /\ \A i \in 1 .. Len(Tail(q)) : Tail(q)[i] = q[i + 1]
  BY SMT
<1>4. \A i \in 1 .. Len(Tail(q)) : i + 1 \in 1 .. Len(q)
  BY <1>1, <1>3
<1>5. QueueOK(ord, Tail(q))
  BY <1>3, <1>4 DEF QueueOK
<1>6. MessageOK(ord, Head(q))
  BY <1>1 DEF QueueOK
<1>7. QED
  BY <1>1, <1>2, <1>5, <1>6

(* A good message may be added to a good queue. *)
LEMMA QueueGrows ==
    ASSUME NEW ord, NEW q \in Seq(Message), QueueOK(ord, q),
           NEW m \in Message, MessageOK(ord, m)
    PROVE  Append(q, m) \in Seq(Message) /\ QueueOK(ord, Append(q, m))
<1>1. /\ Append(q, m) \in Seq(Message) /\ Len(Append(q, m)) = Len(q) + 1 /\ Len(q) \in Nat
      /\ \A i \in 1 .. Len(q) : Append(q, m)[i] = q[i]
      /\ Append(q, m)[Len(q) + 1] = m
  BY SMT
<1>2. \A i \in 1 .. Len(q) + 1 : i \in 1 .. Len(q) \/ i = Len(q) + 1
  BY <1>1
<1>3. QED
  BY <1>1, <1>2 DEF QueueOK

(* Or put in front of it. *)
LEMMA QueueDoubled ==
    ASSUME NEW ord, NEW q \in Seq(Message), QueueOK(ord, q),
           NEW m \in Message, MessageOK(ord, m)
    PROVE  (<<m>> \o q) \in Seq(Message) /\ QueueOK(ord, <<m>> \o q)
<1>1. /\ (<<m>> \o q) \in Seq(Message) /\ Len(<<m>> \o q) = Len(q) + 1 /\ Len(q) \in Nat
      /\ (<<m>> \o q)[1] = m
      /\ \A i \in 2 .. Len(q) + 1 : (<<m>> \o q)[i] = q[i - 1]
  BY SMT
<1>2. \A i \in 1 .. Len(q) + 1 : i = 1 \/ (i \in 2 .. Len(q) + 1 /\ i - 1 \in 1 .. Len(q))
  BY <1>1
<1>3. QED
  BY <1>1, <1>2 DEF QueueOK

-----------------------------------------------------------------------------
(* The stacks.                                                             *)

(* Adding a limit order and removing any id keep the stacks good.           *)
LEMMA StackUpdates ==
    ASSUME NEW ord, NEW st \in Stacks, StackOK(ord, st)
    PROVE  /\ \A o : Removed(st, o) \in Stacks /\ StackOK(ord, Removed(st, o))
           /\ \A x \in Row : Stored(ord, x) /\ Limit(x) =>
                 Added(st, x) \in Stacks /\ StackOK(ord, Added(st, x))
<1>1. ASSUME NEW o PROVE Removed(st, o) \in Stacks /\ StackOK(ord, Removed(st, o))
  <2>1. Removed(st, o) \in Stacks
    BY EmptyIsTyped DEF Removed, Stacks
  <2>2. \A n \in OrderIds : Removed(st, o)[n] \in {NoEntry, st[n]}
    BY DEF Removed, Stacks
  <2>3. QED
    BY <2>1, <2>2 DEF StackOK, EntryOK, InStack
<1>2. ASSUME NEW x \in Row, Stored(ord, x), Limit(x)
      PROVE  Added(st, x) \in Stacks /\ StackOK(ord, Added(st, x))
  <2> DEFINE e == [row |-> IF InStack(st, x.id) THEN st[x.id].row ELSE x, key |-> x.price]
  <2>1. x.id \in OrderIds
    BY <1>2 DEF Stored, Exists
  <2>2. e \in [row : Row, key : Nat]
    BY <2>1, RowFields DEF Stacks
  <2>3. Added(st, x) = [st EXCEPT ![x.id] = e]
    BY DEF Added, Stacks
  <2>4. Added(st, x) \in Stacks
    BY <2>2, <2>3 DEF Stacks
  <2>5. EntryOK(ord, Added(st, x), x.id)
    BY <1>2, <2>1, <2>3 DEF StackOK, EntryOK, Stacks
  <2>6. \A n \in OrderIds \ {x.id} : Added(st, x)[n] = st[n]
    BY <2>3 DEF Stacks
  <2>7. QED
    BY <2>4, <2>5, <2>6 DEF StackOK, EntryOK, InStack
<1>3. QED
  BY <1>1, <1>2

(* The offers an incoming order will be matched with.                       *)
LEMMA MatchingAreOffers ==
    ASSUME NEW x, NEW st
    PROVE  \A o \in Matching(x, st) : /\ o \in OrderIds /\ InStack(st, o)
                                       /\ st[o].row.op # x.op /\ PriceMatch(x, st[o].row.price)
<1>1. Matching(x, st) \subseteq Offers(x, st)
  BY DEF Matching
<1>2. QED
  BY <1>1 DEF Offers

(* OrderProcessor.process leaves a good book.                               *)
LEMMA ProcessKeepsBook ==
    ASSUME NEW ord, NEW st \in Stacks, StackOK(ord, st),
           NEW x \in Row, Stored(ord, x), Limit(x), Process(x, st)
    PROVE  BookOK(ord, stack', cur')
<1>1. CASE stack' = st /\ cur' = Idle
  BY <1>1, EmptyIsTyped DEF BookOK, CurOK, Idle
<1>2. CASE stack' = Added(st, x) /\ cur' = Idle
  BY <1>2, EmptyIsTyped, StackUpdates DEF BookOK, CurOK, Idle
<1>3. CASE stack' = st /\ cur' = [phase |-> "match", obj |-> x, todo |-> Matching(x, st)]
  <2>1. Matching(x, st) \subseteq OrderIds
    BY MatchingAreOffers
  <2>2. cur' \in Works
    BY <1>3, <2>1 DEF Works
  <2>3. TodoOK(st, cur')
    BY <1>3, MatchingAreOffers DEF TodoOK
  <2>4. QED
    BY <1>3, <2>2, <2>3 DEF BookOK, CurOK, Limit
<1>4. QED
  BY <1>1, <1>2, <1>3 DEF Process

-----------------------------------------------------------------------------
(* The database.                                                           *)

(* A balance that is charged no more than it has stays a natural number.    *)
LEMMA CreditedIsTyped ==
    ASSUME NEW u \in Users, NEW c \in Currencies, NEW n \in Int,
           amount \in [Users -> [Currencies -> Nat]],
           amount[u][c] + n >= 0
    PROVE  Credited(u, Only(c, n)) \in [Users -> [Currencies -> Nat]]
<1>1. ASSUME NEW k \in Currencies PROVE amount[u][k] + Only(c, n)[k] \in Nat
  BY DEF Only
<1>2. QED
  BY <1>1 DEF Credited

(* What an order is held in and what it gains are currencies of the pair. *)
LEMMA HeldInCurrency == \A x : HeldIn(x) \in Currencies /\ GainedIn(x) \in Currencies
  BY DEF HeldIn, GainedIn, Currencies

(* Inserting a row for a free id. *)
LEMMA CreateKeepsDatabase ==
    ASSUME DatabaseOK, NEW x \in Row, x.id \in OrderIds, Free(x.id), Created(x), CreateRow(x)
    PROVE  DatabaseOK' /\ Kept(order, order') /\ Stored(order', x)
<1>1. order' = [order EXCEPT ![x.id] = x] /\ order \in [OrderIds -> Row]
  BY DEF CreateRow, DatabaseOK
<1>2. order[x.id].id # x.id
  <2>1. order[x.id] = NoRow
    BY DEF DatabaseOK, RowsOK, Free, Created
  <2>2. QED
    BY <2>1 DEF NoRow, OrderIds
<1>3. Kept(order, order') /\ Stored(order', x) /\ RowsOK(order')
  BY <1>1, <1>2 DEF Kept, Stored, Exists, DatabaseOK, RowsOK
<1>4. amount' \in [Users -> [Currencies -> Nat]]
  <2>1. amount[x.user][HeldIn(x)] >= Refund(x) /\ amount \in [Users -> [Currencies -> Nat]]
    BY DEF CreateRow, DatabaseOK
  <2>2. amount[x.user][HeldIn(x)] \in Nat /\ -Refund(x) \in Int
    BY <2>1, RefundIsNat, RowFields, HeldInCurrency
  <2>3. amount[x.user][HeldIn(x)] + (-Refund(x)) >= 0
    BY <2>1, <2>2, RefundIsNat
  <2>4. QED
    BY <2>1, <2>2, <2>3, RowFields, HeldInCurrency, CreditedIsTyped DEF CreateRow
<1>5. held' \in [OrderIds -> Int]
  BY RefundIsNat DEF CreateRow, DatabaseOK
<1>6. QED
  BY <1>1, <1>3, <1>4, <1>5 DEF CreateRow, DatabaseOK

(* Cancelling the order of an object. *)
LEMMA CancelKeepsDatabase ==
    ASSUME DatabaseOK, NEW x \in Row, Stored(order, x), Created(x), CancelRow(x)
    PROVE  DatabaseOK' /\ Kept(order, order')
<1> DEFINE y == [x EXCEPT !.state = "CANCELED"]
<1>1. y \in Row /\ y.id = x.id /\ y.op = x.op /\ Created(y)
  BY DEF Row, Created
<1>2. order' = [order EXCEPT ![x.id] = y] /\ order \in [OrderIds -> Row]
  BY DEF CancelRow, DatabaseOK
<1> HIDE DEF y
<1>3. Kept(order, order') /\ RowsOK(order')
  BY <1>1, <1>2 DEF Kept, Stored, Exists, DatabaseOK, RowsOK
<1>4. amount' \in [Users -> [Currencies -> Nat]]
  <2>1. amount \in [Users -> [Currencies -> Nat]]
    BY DEF DatabaseOK
  <2>2. amount[x.user][HeldIn(x)] \in Nat /\ Refund(x) \in Nat
    BY <2>1, RefundIsNat, RowFields, HeldInCurrency
  <2>3. QED
    BY <2>1, <2>2, RowFields, HeldInCurrency, CreditedIsTyped DEF CancelRow
<1>5. held' \in [OrderIds -> Int]
  BY RefundIsNat DEF CancelRow, DatabaseOK, Stored, Exists
<1>6. QED
  BY <1>1, <1>2, <1>3, <1>4, <1>5 DEF CancelRow, DatabaseOK

-----------------------------------------------------------------------------
(* The actions.                                                            *)

(* A step that does not write to the database. *)
LEMMA DatabaseKept ==
    ASSUME DatabaseOK, UNCHANGED dbVars
    PROVE  DatabaseOK' /\ Kept(order, order') /\ order' = order
  BY DEF DatabaseOK, dbVars, Kept, RowsOK

(* The task that takes the first message of the queue finds a good message   *)
(* and leaves good processes.                                               *)
LEMMA TakeKeepsProcesses ==
    ASSUME NEW type, Take(type), TypeInv
    PROVE  /\ ProcessesOK(order, unsent', queue', boot')
           /\ Head(queue) \in Message /\ MessageOK(order, Head(queue)) /\ Head(queue).type = type
           /\ Head(queue).row \in Row
           /\ updates' \in Nat /\ restarts' \in Nat /\ duplicates' \in Nat
<1>1. queue \in Seq(Message) /\ queue # <<>> /\ QueueOK(order, queue)
  BY TypeParts DEF Take, ProcessesOK
<1>2. /\ Tail(queue) \in Seq(Message) /\ QueueOK(order, Tail(queue))
      /\ Head(queue) \in Message /\ MessageOK(order, Head(queue))
  BY <1>1, QueueHead
<1>3. ProcessesOK(order, unsent', queue', boot')
  BY <1>2, TypeParts DEF Take, ProcessesOK
<1>4. Head(queue).row \in Row
  BY <1>2 DEF Message
<1>5. QED
  BY <1>2, <1>3, <1>4, TypeParts DEF Take, CountersOK, counts

(* A request that enqueues a good message. *)
LEMMA EnqueuedKeepsProcesses ==
    ASSUME TypeInv, NEW t \in {"place", "cancel", "update", "market"}, NEW x \in Row,
           MessageOK(order, [type |-> t, row |-> x]), Enqueued(t, x)
    PROVE  queue' \in Seq(Message) /\ QueueOK(order, queue')
<1>1. [type |-> t, row |-> x] \in Message
  BY DEF Message
<1>2. queue \in Seq(Message) /\ QueueOK(order, queue)
  BY TypeParts DEF ProcessesOK
<1>3. QED
  BY <1>1, <1>2, QueueGrows DEF Enqueued

(* What the steps below show of the next state. *)
NextOK ==
    /\ DatabaseOK' /\ CountersOK'
    /\ ProcessesOK(order', unsent', queue', boot')
    /\ BookOK(order', stack', cur')

(* A new row takes its hold from a balance that covers it. *)
LEMMA CreateOrderStep == TypeInv /\ CreateOrder => NextOK
<1> SUFFICES ASSUME TypeInv, CreateOrder PROVE NextOK
  OBVIOUS
<1>1. PICK u \in Users, op \in {"BUY", "SELL"}, p \in Prices, q \in Quantities, o \in OrderIds :
        LET x == [id |-> o, user |-> u, op |-> op, market |-> FALSE, price |-> p,
                  qty |-> q, left |-> q, cost |-> 0, state |-> "OPENED"]
        IN  /\ Room /\ Free(o)
            /\ CreateRow(x)
            /\ unsent' = unsent \cup {x}
            /\ UNCHANGED <<queue, stack, cur, boot, onCancel, onPlace, counts>>
  BY DEF CreateOrder
<1> DEFINE x == [id |-> o, user |-> u, op |-> op, market |-> FALSE, price |-> p,
                 qty |-> q, left |-> q, cost |-> 0, state |-> "OPENED"]
<1>2. /\ x.id = o /\ Free(x.id) /\ CreateRow(x) /\ unsent' = unsent \cup {x}
      /\ UNCHANGED <<queue, stack, cur, boot, onCancel, onPlace, counts>>
  BY <1>1
<1>3. x \in Row /\ Limit(x)
  BY OrderBookAssumption DEF Row, Limit, Created, OrderIds
<1> HIDE DEF x
<1>4. DatabaseOK' /\ Kept(order, order') /\ Stored(order', x)
  BY <1>2, <1>3, TypeParts, CreateKeepsDatabase DEF Limit
<1>5. ProcessesOK(order', unsent, queue, boot) /\ BookOK(order', stack, cur)
  BY <1>4, TypeParts, Carried
<1>6. ProcessesOK(order', unsent', queue', boot')
  BY <1>2, <1>3, <1>4, <1>5 DEF ProcessesOK, UnsentOK
<1>7. CountersOK'
  BY <1>2, TypeParts DEF CountersOK, counts
<1>8. QED
  BY <1>2, <1>4, <1>5, <1>6, <1>7 DEF NextOK

(* place_order carries the object of an existing limit order. *)
LEMMA SendPlaceOrderStep == TypeInv /\ SendPlaceOrder => NextOK
<1> SUFFICES ASSUME TypeInv, SendPlaceOrder PROVE NextOK
  OBVIOUS
<1>1. PICK x \in unsent :
        /\ Enqueued("place", x)
        /\ unsent' = unsent \ {x}
        /\ UNCHANGED <<dbVars, stack, cur, boot, onCancel, onPlace, counts>>
  BY DEF SendPlaceOrder
<1>2. x \in Row /\ Stored(order, x) /\ Limit(x)
  BY TypeParts DEF ProcessesOK, UnsentOK
<1>3. queue' \in Seq(Message) /\ QueueOK(order, queue')
  BY <1>1, <1>2, EnqueuedKeepsProcesses DEF MessageOK, Stored
<1>4. DatabaseOK' /\ order' = order
  BY <1>1, TypeParts, DatabaseKept
<1>5. ProcessesOK(order, unsent', queue', boot')
  BY <1>1, <1>3, TypeParts DEF ProcessesOK, UnsentOK
<1>6. CountersOK' /\ BookOK(order', stack', cur')
  BY <1>1, <1>4, TypeParts DEF CountersOK, counts
<1>7. QED
  BY <1>4, <1>5, <1>6 DEF NextOK

(* A request about an existing order. *)
LEMMA RequestedOrderExists ==
    ASSUME TypeInv, NEW o \in OrderIds, CanRequest(o)
    PROVE  Exists(order, o)
  BY TypeParts DEF CanRequest, DatabaseOK, RowsOK, NoRow, Exists

(* A cancel names an existing order. *)
LEMMA RequestCancelStep == TypeInv /\ RequestCancel => NextOK
<1> SUFFICES ASSUME TypeInv, RequestCancel PROVE NextOK
  OBVIOUS
<1>1. PICK o \in OrderIds :
        /\ CanRequest(o)
        /\ Enqueued("cancel", [NoRow EXCEPT !.id = o])
        /\ UNCHANGED <<dbVars, unsent, stack, cur, boot, onCancel, onPlace, counts>>
  BY DEF RequestCancel
<1> DEFINE x == [NoRow EXCEPT !.id = o]
<1>2. x \in Row /\ x.id = o
  BY EmptyIsTyped DEF Row, OrderIds
<1>3. Enqueued("cancel", x)
  BY <1>1
<1> HIDE DEF x
<1>4. MessageOK(order, [type |-> "cancel", row |-> x])
  BY <1>1, <1>2, RequestedOrderExists DEF MessageOK
<1>5. queue' \in Seq(Message) /\ QueueOK(order, queue')
  BY <1>2, <1>3, <1>4, EnqueuedKeepsProcesses
<1>6. DatabaseOK' /\ order' = order
  BY <1>1, TypeParts, DatabaseKept
<1>7. QED
  BY <1>1, <1>5, <1>6, TypeParts DEF NextOK, ProcessesOK, CountersOK, counts

(* An update names an existing order and a price above zero. *)
LEMMA RequestUpdateStep == TypeInv /\ RequestUpdate => NextOK
<1> SUFFICES ASSUME TypeInv, RequestUpdate PROVE NextOK
  OBVIOUS
<1>1. PICK o \in OrderIds, p \in Prices, q \in Quantities :
        /\ CanRequest(o)
        /\ updates' = updates + 1
        /\ Enqueued("update", [NoRow EXCEPT !.id = o, !.price = p, !.qty = q])
        /\ UNCHANGED <<dbVars, unsent, stack, cur, boot, onCancel, onPlace, restarts, duplicates>>
  BY DEF RequestUpdate
<1> DEFINE x == [NoRow EXCEPT !.id = o, !.price = p, !.qty = q]
<1>2. x \in Row /\ x.id = o /\ x.price > 0
  <2>1. o \in 0 .. MaxOrders /\ p \in Nat \ {0} /\ q \in Nat
    BY OrderBookAssumption DEF OrderIds
  <2>2. x \in Row
    BY <2>1, EmptyIsTyped DEF Row
  <2>3. x.id = o /\ x.price = p
    BY EmptyIsTyped DEF Row
  <2>4. QED
    BY <2>1, <2>2, <2>3
<1>3. Enqueued("update", x)
  BY <1>1
<1> HIDE DEF x
<1>4. MessageOK(order, [type |-> "update", row |-> x])
  BY <1>1, <1>2, RequestedOrderExists DEF MessageOK
<1>5. queue' \in Seq(Message) /\ QueueOK(order, queue')
  BY <1>2, <1>3, <1>4, EnqueuedKeepsProcesses
<1>6. DatabaseOK' /\ order' = order
  BY <1>1, TypeParts, DatabaseKept
<1>7. QED
  BY <1>1, <1>5, <1>6, TypeParts DEF NextOK, ProcessesOK, CountersOK, counts

(* A market request is a message with no row yet. *)
LEMMA RequestMarketStep == TypeInv /\ RequestMarket => NextOK
<1> SUFFICES ASSUME TypeInv, RequestMarket PROVE NextOK
  OBVIOUS
<1>1. PICK x \in Row : Enqueued("market", x)
  <2>1. ASSUME NEW u \in Users, NEW q \in MarketSells
        PROVE  [NoRow EXCEPT !.user = u, !.op = "SELL", !.qty = q] \in Row
    BY EmptyIsTyped, OrderBookAssumption DEF Row
  <2>2. ASSUME NEW u \in Users, NEW c \in Costs
        PROVE  [NoRow EXCEPT !.user = u, !.op = "BUY", !.cost = c] \in Row
    BY EmptyIsTyped, OrderBookAssumption DEF Row
  <2>3. QED
    BY <2>1, <2>2 DEF RequestMarket
<1>2. MessageOK(order, [type |-> "market", row |-> x])
  BY DEF MessageOK
<1>3. queue' \in Seq(Message) /\ QueueOK(order, queue')
  BY <1>1, <1>2, EnqueuedKeepsProcesses
<1>4. UNCHANGED <<dbVars, unsent, stack, cur, boot, onCancel, onPlace, counts>>
  BY DEF RequestMarket
<1>5. DatabaseOK' /\ order' = order
  BY <1>4, TypeParts, DatabaseKept
<1>6. QED
  BY <1>3, <1>4, <1>5, TypeParts DEF NextOK, ProcessesOK, CountersOK, counts

(* The place_order task puts into the book, or matches, what was sent. *)
LEMMA PlaceOrderStep == TypeInv /\ PlaceOrderTask => NextOK
<1> SUFFICES ASSUME TypeInv, PlaceOrderTask PROVE NextOK
  OBVIOUS
<1> DEFINE x == Head(queue).row
<1>1. /\ Take("place") /\ UNCHANGED <<dbVars, onCancel>>
      /\ UNCHANGED <<stack, cur>> \/ Process(x, stack)
      /\ onPlace' = onPlace \cup {x.id}
  BY DEF PlaceOrderTask
<1>2. /\ ProcessesOK(order, unsent', queue', boot')
      /\ x \in Row /\ Stored(order, x) /\ Limit(x)
      /\ updates' \in Nat /\ restarts' \in Nat /\ duplicates' \in Nat
  BY <1>1, TakeKeepsProcesses DEF MessageOK
<1> HIDE DEF x
<1>3. BookOK(order, stack, cur) /\ stack \in Stacks /\ StackOK(order, stack)
  BY TypeParts DEF BookOK
<1>4. BookOK(order, stack', cur')
  BY <1>1, <1>2, <1>3, ProcessKeepsBook
<1>5. DatabaseOK' /\ order' = order
  BY <1>1, TypeParts, DatabaseKept
<1>6. onPlace' \subseteq OrderIds
  BY <1>1, <1>2, TypeParts DEF CountersOK, Stored, Exists
<1>7. QED
  BY <1>1, <1>2, <1>4, <1>5, <1>6, TypeParts DEF NextOK, CountersOK

(* The cancel_order task returns the hold and empties the entry. *)
LEMMA CancelOrderStep == TypeInv /\ CancelOrderTask => NextOK
<1> SUFFICES ASSUME TypeInv, CancelOrderTask PROVE NextOK
  OBVIOUS
<1> DEFINE x == order[Head(queue).row.id]
<1>1. /\ Take("cancel") /\ UNCHANGED <<cur, onPlace>>
      /\ \/ UNCHANGED <<dbVars, stack, onCancel>>
         \/ /\ stack' = Removed(stack, x.id)
            /\ onCancel' = onCancel \cup {x.id}
            /\ CancelRow(x) \/ UNCHANGED dbVars
  BY DEF CancelOrderTask
<1>2. /\ ProcessesOK(order, unsent', queue', boot')
      /\ Exists(order, Head(queue).row.id)
      /\ updates' \in Nat /\ restarts' \in Nat /\ duplicates' \in Nat
  BY <1>1, TakeKeepsProcesses DEF MessageOK
<1>3. x \in Row /\ Stored(order, x) /\ Created(x)
  BY <1>2, TypeParts DEF DatabaseOK, RowsOK, Exists, Stored, NoRow, OrderIds
<1> HIDE DEF x
<1>4. DatabaseOK' /\ Kept(order, order')
  <2>1. CASE UNCHANGED dbVars
    BY <2>1, TypeParts, DatabaseKept
  <2>2. CASE CancelRow(x)
    BY <2>2, <1>3, TypeParts, CancelKeepsDatabase
  <2>3. QED
    BY <1>1, <2>1, <2>2
<1>5. onCancel' \subseteq OrderIds
  BY <1>1, <1>3, TypeParts DEF CountersOK, counts, Stored, Exists
<1>6. BookOK(order, stack', cur')
  <2>1. BookOK(order, stack, cur) /\ cur = Idle
    BY <1>1, TypeParts DEF Take
  <2>2. Removed(stack, x.id) \in Stacks /\ StackOK(order, Removed(stack, x.id))
    BY <2>1, StackUpdates DEF BookOK
  <2>3. BookOK(order, Removed(stack, x.id), cur)
    BY <2>1, <2>2 DEF BookOK, CurOK, Idle
  <2>4. QED
    BY <1>1, <2>1, <2>3
<1>7. ProcessesOK(order', unsent', queue', boot') /\ BookOK(order', stack', cur')
  BY <1>2, <1>4, <1>6, Carried
<1>8. QED
  BY <1>1, <1>2, <1>4, <1>5, <1>7, TypeParts DEF NextOK, CountersOK, counts

(* The update that _update_order accepts leaves a row and a balance.         *)
LEMMA UpdateIsTyped ==
    ASSUME DatabaseOK, NEW x \in Row, NEW m \in Row, m.price > 0,
           Stored(order, x), x = order[x.id],
           ~UpdateRefused(x, Updated(x, m))
    PROVE  /\ Updated(x, m) \in Row
           /\ Updated(x, m).id = x.id /\ Updated(x, m).op = x.op
           /\ Limit(Updated(x, m))
           /\ Charge(x, Updated(x, m)) \in Int
           /\ amount[x.user][HeldIn(x)] + (-Charge(x, Updated(x, m))) >= 0
<1> DEFINE left == m.qty - (x.qty - x.left)
           y == Updated(x, m)
<1>1. y = [id |-> x.id, user |-> x.user, op |-> x.op, market |-> x.market, price |-> m.price,
           qty |-> m.qty, left |-> left, cost |-> x.cost, state |-> x.state]
  <2>1. y = [x EXCEPT !.price = m.price, !.qty = m.qty, !.left = left]
    BY DEF Updated
  <2> HIDE DEF left, y
  <2>2. QED
    BY <2>1, RowForUpdate
<1>2. x.state = "OPENED" /\ ~x.market
  BY DEF UpdateRefused
<1>3. left \in Int /\ y.left = left
  BY <1>1, RowFields
<1>4. y = x \/ (y.left > 0 /\ ~(amount[x.user][HeldIn(x)] < Charge(x, y)))
  <2> HIDE DEF left, y
  <2>1. ~UpdateRefused(x, y)
    BY DEF y
  <2>2. QED
    BY <1>3, <2>1 DEF UpdateRefused
<1>5. y \in Row
  <2>1. CASE y = x
    BY <2>1
  <2>2. CASE y.left > 0
    <3>1. left \in Nat
      BY <1>3, <2>2
    <3> HIDE DEF left, y
    <3>2. QED
      BY <1>1, <3>1, RowFields DEF Row
  <2>3. QED
    BY <1>4, <2>1, <2>2
<1>6. y.id = x.id /\ y.op = x.op /\ Limit(y)
  BY <1>1, <1>2 DEF Limit, Created
<1>7. Refund(x) \in Nat /\ Refund(y) \in Nat /\ x.qty \in Nat /\ y.qty \in Nat
  BY <1>5, RefundIsNat, RowFields
<1>8. Charge(x, y) \in Int
  BY <1>7 DEF Charge
<1>9. amount[x.user][HeldIn(x)] \in Nat
  BY RowFields, HeldInCurrency DEF DatabaseOK
<1>10. amount[x.user][HeldIn(x)] + (-Charge(x, y)) >= 0
  <2>1. CASE y = x
    BY <2>1, <1>7, <1>9 DEF Charge
  <2>2. CASE ~(amount[x.user][HeldIn(x)] < Charge(x, y))
    BY <2>2, <1>8, <1>9
  <2>3. QED
    BY <1>4, <2>1, <2>2
<1>11. QED
  BY <1>5, <1>6, <1>8, <1>10

(* The update_order task charges no more than the balance. *)
LEMMA UpdateOrderStep == TypeInv /\ UpdateOrderTask => NextOK
<1> SUFFICES ASSUME TypeInv, UpdateOrderTask PROVE NextOK
  OBVIOUS
<1> DEFINE m == Head(queue).row
           x == order[m.id]
           y == Updated(x, m)
           found == InStack(stack, x.id) /\ x.user \notin Bots
           st == IF found THEN Removed(stack, x.id) ELSE stack
<1>1. /\ Take("update") /\ UNCHANGED <<onCancel, onPlace>>
      /\ UpdateRefused(x, y) => stack' = st /\ UNCHANGED <<dbVars, cur>>
      /\ ~UpdateRefused(x, y) =>
            /\ order' = [order EXCEPT ![x.id] = y]
            /\ amount' = Credited(x.user, Only(HeldIn(x), -Charge(x, y)))
            /\ held' = [held EXCEPT ![x.id] = @ + Charge(x, y)]
            /\ UNCHANGED <<matches, fees, voided>>
            /\ Process(y, st) \/ UNCHANGED <<stack, cur>>
  BY DEF UpdateOrderTask
<1>2. /\ ProcessesOK(order, unsent', queue', boot')
      /\ m \in Row /\ Exists(order, m.id) /\ m.price > 0
      /\ updates' \in Nat /\ restarts' \in Nat /\ duplicates' \in Nat
  BY <1>1, TakeKeepsProcesses DEF MessageOK
<1>3. x \in Row /\ Stored(order, x) /\ x = order[x.id]
  BY <1>2, TypeParts DEF DatabaseOK, Exists, Stored
<1>4. BookOK(order, stack, cur) /\ cur = Idle /\ DatabaseOK
  BY <1>1, TypeParts DEF Take
<1>5. st \in Stacks /\ StackOK(order, st)
  BY <1>4, StackUpdates DEF BookOK
<1> HIDE DEF m, x, st, found
<1>6. CASE UpdateRefused(x, y)
  <2>1. DatabaseOK' /\ order' = order
    BY <1>1, <1>4, <1>6, DatabaseKept
  <2>2. BookOK(order, stack', cur')
    BY <1>1, <1>4, <1>5, <1>6 DEF BookOK, CurOK, Idle
  <2>3. QED
    BY <1>1, <1>2, <2>1, <2>2, TypeParts DEF NextOK, CountersOK, counts
<1>7. CASE ~UpdateRefused(x, y)
  <2>1. /\ y \in Row /\ y.id = x.id /\ y.op = x.op /\ Limit(y)
        /\ Charge(x, y) \in Int /\ amount[x.user][HeldIn(x)] + (-Charge(x, y)) >= 0
    BY <1>2, <1>3, <1>4, <1>7, UpdateIsTyped
  <2> HIDE DEF y
  <2>2. /\ order \in [OrderIds -> Row] /\ amount \in [Users -> [Currencies -> Nat]]
        /\ held \in [OrderIds -> Int] /\ RowsOK(order) /\ x.id \in OrderIds
    BY <1>3, <1>4 DEF DatabaseOK, Stored, Exists
  <2>3. order' \in [OrderIds -> Row] /\ RowsOK(order') /\ Kept(order, order')
    BY <1>1, <1>3, <1>7, <2>1, <2>2 DEF RowsOK, Kept, Limit
  <2>4. Stored(order', y)
    BY <1>1, <1>7, <2>1, <2>2 DEF Stored, Exists
  <2>5. amount' \in [Users -> [Currencies -> Nat]]
    <3>1. -Charge(x, y) \in Int
      BY <2>1
    <3>2. QED
      BY <1>1, <1>3, <1>7, <2>1, <2>2, <3>1, RowFields, HeldInCurrency, CreditedIsTyped
  <2>6. held' \in [OrderIds -> Int]
    BY <1>1, <1>7, <2>1, <2>2
  <2>7. DatabaseOK'
    BY <1>1, <1>4, <1>7, <2>3, <2>5, <2>6 DEF DatabaseOK
  <2>8. BookOK(order', st, cur) /\ BookOK(order', stack, cur)
    <3>1. BookOK(order, st, cur)
      BY <1>4, <1>5 DEF BookOK, CurOK, Idle
    <3>2. QED
      BY <1>4, <2>3, <3>1, Carried
  <2>9. BookOK(order', stack', cur')
    <3>1. CASE Process(y, st)
      BY <2>1, <2>4, <2>8, <3>1, ProcessKeepsBook DEF BookOK
    <3>2. CASE UNCHANGED <<stack, cur>>
      BY <2>8, <3>2
    <3>3. QED
      BY <1>1, <1>7, <3>1, <3>2
  <2>10. ProcessesOK(order', unsent', queue', boot')
    BY <1>2, <2>3, Carried
  <2>11. QED
    BY <1>1, <1>2, <2>7, <2>9, <2>10, TypeParts DEF NextOK, CountersOK, counts
<1>8. QED
  BY <1>6, <1>7

(* create_market_order takes a hold the balance covers. *)
LEMMA MarketOrderStep == TypeInv /\ MarketOrderTask => NextOK
<1> SUFFICES ASSUME TypeInv, MarketOrderTask PROVE NextOK
  OBVIOUS
<1> DEFINE m == Head(queue).row
<1>1. PICK o \in OrderIds :
        LET x == [m EXCEPT !.id = o, !.market = TRUE, !.left = m.qty, !.state = "OPENED"]
        IN  /\ Free(o)
            /\ \/ UNCHANGED <<dbVars, cur>>
               \/ CreateRow(x) /\ cur' = [phase |-> "market", obj |-> x, todo |-> {}]
  BY DEF MarketOrderTask
<1> DEFINE x == [m EXCEPT !.id = o, !.market = TRUE, !.left = m.qty, !.state = "OPENED"]
<1>2. Take("market") /\ UNCHANGED <<stack, onCancel, onPlace>>
  BY DEF MarketOrderTask
<1>3. /\ ProcessesOK(order, unsent', queue', boot') /\ m \in Row
      /\ updates' \in Nat /\ restarts' \in Nat /\ duplicates' \in Nat
  BY <1>2, TakeKeepsProcesses
<1>4. /\ Free(o)
      /\ \/ UNCHANGED <<dbVars, cur>>
         \/ CreateRow(x) /\ cur' = [phase |-> "market", obj |-> x, todo |-> {}]
  BY <1>1
<1> HIDE DEF m
<1>5. x \in Row /\ x.id = o /\ x.market /\ x.state = "OPENED"
  <2>1. m.qty \in Nat /\ o \in 0 .. MaxOrders
    BY <1>3, RowFields DEF OrderIds
  <2>2. QED
    BY <1>3, <2>1 DEF Row
<1> HIDE DEF x
<1>6. DatabaseOK /\ BookOK(order, stack, cur)
  BY TypeParts
<1>7. CASE UNCHANGED <<dbVars, cur>>
  <2>1. DatabaseOK' /\ order' = order
    BY <1>6, <1>7, DatabaseKept
  <2>2. QED
    BY <1>2, <1>3, <1>6, <1>7, <2>1, TypeParts DEF NextOK, CountersOK, counts
<1>8. CASE CreateRow(x) /\ cur' = [phase |-> "market", obj |-> x, todo |-> {}]
  <2>1. DatabaseOK' /\ Kept(order, order') /\ Stored(order', x)
    BY <1>4, <1>5, <1>6, <1>8, CreateKeepsDatabase DEF Created
  <2>2. BookOK(order', stack, cur) /\ ProcessesOK(order', unsent', queue', boot')
    BY <1>3, <1>6, <2>1, Carried
  <2>3. BookOK(order', stack', cur')
    BY <1>2, <1>5, <1>8, <2>1, <2>2 DEF BookOK, CurOK, Works, Created
  <2>4. QED
    BY <1>2, <1>3, <2>1, <2>2, <2>3, TypeParts DEF NextOK, CountersOK, counts
<1>9. QED
  BY <1>4, <1>7, <1>8

(* Once the work is over nothing about it is left to show. *)
LEMMA IdleBook ==
    ASSUME NEW ord, NEW st \in Stacks, StackOK(ord, st)
    PROVE  BookOK(ord, st, Idle)
  BY EmptyIsTyped DEF BookOK, CurOK, Idle

(* market_execute matches with offers at any price, or cancels. *)
LEMMA MarketExecuteStep == TypeInv /\ MarketExecute => NextOK
<1> SUFFICES ASSUME TypeInv, MarketExecute PROVE NextOK
  OBVIOUS
<1> DEFINE x == cur.obj
<1>1. /\ cur.phase = "market"
      /\ \/ /\ cur' = [cur EXCEPT !.phase = "match", !.todo = Matching(x, stack)]
            /\ UNCHANGED dbVars
         \/ CancelRow(x) /\ cur' = Idle
      /\ UNCHANGED <<unsent, queue, stack, boot, onCancel, onPlace, counts>>
  BY DEF MarketExecute
<1>2. DatabaseOK /\ ProcessesOK(order, unsent, queue, boot) /\ BookOK(order, stack, cur)
  BY TypeParts
<1>3. x \in Row /\ Stored(order, x) /\ Created(x)
  BY <1>1, <1>2 DEF BookOK, CurOK, Works
<1>4. CountersOK'
  BY <1>1, TypeParts DEF CountersOK, counts
<1>5. CASE /\ cur' = [cur EXCEPT !.phase = "match", !.todo = Matching(x, stack)]
           /\ UNCHANGED dbVars
  <2>1. DatabaseOK' /\ order' = order
    BY <1>2, <1>5, DatabaseKept
  <2>2. cur' = [phase |-> "match", obj |-> x, todo |-> Matching(x, stack)]
    BY <1>2, <1>5 DEF BookOK, Works
  <2>3. Matching(x, stack) \subseteq OrderIds
    BY MatchingAreOffers
  <2> HIDE DEF x
  <2>4. TodoOK(stack, cur')
    BY <2>2, MatchingAreOffers DEF TodoOK
  <2>5. BookOK(order, stack, cur')
    BY <1>2, <1>3, <2>2, <2>3, <2>4 DEF BookOK, CurOK, Works
  <2>6. QED
    BY <1>1, <1>2, <1>4, <2>1, <2>5 DEF NextOK
<1>6. CASE CancelRow(x) /\ cur' = Idle
  <2>1. DatabaseOK' /\ Kept(order, order')
    BY <1>2, <1>3, <1>6, CancelKeepsDatabase
  <2>2. BookOK(order', stack, cur) /\ ProcessesOK(order', unsent, queue, boot)
    BY <1>2, <2>1, Carried
  <2>3. BookOK(order', stack', cur')
    BY <1>1, <1>6, <2>2, IdleBook DEF BookOK
  <2>4. QED
    BY <1>1, <1>4, <2>1, <2>2, <2>3 DEF NextOK
<1>7. QED
  BY <1>1, <1>5, <1>6

(* The object of a resting order may be replaced by one of the same order.   *)
LEMMA ReplacedRow ==
    ASSUME NEW ord, NEW st \in Stacks, StackOK(ord, st),
           NEW r \in OrderIds, NEW z \in Row, z.id = r, Stored(ord, z), Limit(z)
    PROVE  /\ [st EXCEPT ![r].row = z] \in Stacks
           /\ StackOK(ord, [st EXCEPT ![r].row = z])
           /\ \A n \in OrderIds \ {r} : [st EXCEPT ![r].row = z][n] = st[n]
<1> DEFINE new == [st EXCEPT ![r].row = z]
           e == [row |-> z, key |-> st[r].key]
<1>1. st[r] \in [row : Row, key : Nat]
  BY DEF Stacks
<1>2. e \in [row : Row, key : Nat]
  BY <1>1
<1>3. new = [st EXCEPT ![r] = e]
  <2> DEFINE d == [st[r] EXCEPT !.row = z]
  <2>1. d = e
    BY <1>1
  <2>2. new = [st EXCEPT ![r] = d]
    BY DEF Stacks
  <2> HIDE DEF d, e, new
  <2>3. QED
    BY <2>1, <2>2
<1> HIDE DEF new
<1>4. new \in Stacks /\ new[r].row = z /\ \A n \in OrderIds \ {r} : new[n] = st[n]
  BY <1>2, <1>3 DEF Stacks
<1>5. StackOK(ord, new)
  BY <1>4 DEF StackOK, EntryOK, InStack
<1>6. QED
  BY <1>4, <1>5 DEF new

(* The fill of the incoming order with the best resting one: both are        *)
(* different orders, and the fill is bounded by both.                        *)
LEMMA FillIsSound ==
    ASSUME TypeInv, cur.phase = "match", NEW r \in OrderIds, Best(r),
           NEW x, x = cur.obj, NEW y, y = stack[r].row, NEW q, q = FillQuantity(x, y)
    PROVE  /\ x \in Row /\ Stored(order, x) /\ Created(x) /\ x.id # r
           /\ y \in Row /\ Stored(order, y) /\ Limit(y) /\ y.id = r
           /\ q \in Nat /\ q <= y.left /\ y.price \in Nat
           /\ Filled(x, q, y.price) \in Row
           /\ Filled(y, q, y.price) \in Row
           /\ x.op = "BUY" /\ ~x.market => y.price <= x.price
<1>1. BookOK(order, stack, cur)
  BY TypeParts
<1>2. x \in Row /\ Stored(order, x) /\ Created(x) /\ TodoOK(stack, cur)
  BY <1>1 DEF BookOK, CurOK, Works
<1>3. InStack(stack, r) /\ y.op # x.op /\ PriceMatch(x, y.price)
  BY <1>2 DEF TodoOK, Best
<1>4. y \in Row /\ Stored(order, y) /\ Limit(y) /\ y.id = r
  BY <1>1, <1>3 DEF BookOK, StackOK, EntryOK, Stacks
<1>5. x.id # r
  BY <1>2, <1>3, <1>4 DEF Stored
<1>6. /\ y.price > 0 /\ y.price \in Nat /\ ~MarketBuy(y) /\ y.left \in Nat
      /\ x.price \in Nat /\ x.op \in {"BUY", "SELL"}
  BY <1>2, <1>4, RowFields DEF Limit, Created, MarketBuy
<1>7. /\ q \in Nat /\ q <= y.left
      /\ ~MarketBuy(x) => q <= x.left
      /\ MarketBuy(x) => Value(q, y.price) <= x.cost
  BY <1>2, <1>4, <1>6, FillIsBounded
<1>8. Filled(x, q, y.price) \in Row
  BY <1>2, <1>6, <1>7, FilledIsRow
<1>9. Filled(y, q, y.price) \in Row
  BY <1>4, <1>6, <1>7, FilledIsRow
<1>10. x.op = "BUY" /\ ~x.market => y.price <= x.price
  BY <1>3, <1>6 DEF PriceMatch
<1>11. QED
  BY <1>2, <1>4, <1>5, <1>6, <1>7, <1>8, <1>9, <1>10

(* What a fill writes for an order is a row of the same order. *)
LEMMA SavedIsRow ==
    ASSUME DatabaseOK, NEW x \in Row, Stored(order, x), Created(x),
           NEW q \in Nat, NEW p \in Nat, Filled(x, q, p) \in Row
    PROVE  /\ Filled(x, q, p).id = x.id /\ Filled(x, q, p).op = x.op
           /\ Filled(x, q, p).user = x.user
           /\ Filled(x, q, p).market = x.market /\ Created(Filled(x, q, p))
           /\ ~x.market => Filled(x, q, p).price = x.price
           /\ Saved(x, q, p) \in Row
           /\ Saved(x, q, p).id = x.id /\ Saved(x, q, p).op = x.op
           /\ Created(Saved(x, q, p))
<1> DEFINE f == Filled(x, q, p)
           c == [order[x.id] EXCEPT !.state = "CANCELED"]
<1>1. /\ f.id = x.id /\ f.op = x.op /\ f.user = x.user /\ f.market = x.market
      /\ ~x.market => f.price = x.price
      /\ f.state \in {"CLOSED", x.state}
  BY DEF Filled, Row
<1>2. Created(f)
  BY <1>1 DEF Created
<1>3. order[x.id] \in Row /\ order[x.id].id = x.id /\ order[x.id].op = x.op /\ Created(order[x.id])
  BY DEF DatabaseOK, RowsOK, Stored, Exists, NoRow, OrderIds
<1>4. c \in Row /\ c.id = x.id /\ c.op = x.op /\ Created(c)
  BY <1>3 DEF Row, Created
<1>5. Saved(x, q, p) \in {f, c, order[x.id]}
  BY DEF Saved
<1> HIDE DEF f, c
<1>6. /\ Saved(x, q, p) \in Row /\ Saved(x, q, p).id = x.id /\ Saved(x, q, p).op = x.op
      /\ Created(Saved(x, q, p))
  BY <1>1, <1>2, <1>3, <1>4, <1>5 DEF f
<1>7. QED
  BY <1>1, <1>2, <1>6 DEF f

(* One fill leaves both objects, both rows and the balances well typed. *)
LEMMA MatchStep == TypeInv /\ Match => NextOK
<1> SUFFICES ASSUME TypeInv, Match PROVE NextOK
  OBVIOUS
<1> DEFINE x == cur.obj
<1>1. PICK r \in OrderIds : Best(r) /\ Execute(r)
  BY DEF Match
<1> DEFINE y == stack[r].row
           p == y.price
           q == FillQuantity(x, y)
           x1 == Filled(x, q, p)
           y1 == Filled(y, q, p)
           y2 == [y1 EXCEPT !.state = "CANCELED"]
           y3 == IF DustCancels(y1) THEN y2 ELSE Saved(y, q, p)
           st == IF VoidCancels(x, q, p) THEN Removed(stack, x.id) ELSE stack
           st1 == [st EXCEPT ![r].row = y1]
<1>2. /\ cur.phase = "match" /\ Best(r)
      /\ UNCHANGED <<unsent, queue, boot, onPlace, counts>>
  BY <1>1 DEF Match
<1>3. /\ DatabaseOK /\ ProcessesOK(order, unsent, queue, boot) /\ BookOK(order, stack, cur)
      /\ CountersOK
  BY TypeParts
<1>4. /\ x \in Row /\ Stored(order, x) /\ Created(x) /\ x.id # r
      /\ y \in Row /\ Stored(order, y) /\ Limit(y) /\ y.id = r
      /\ q \in Nat /\ q <= y.left /\ p \in Nat
      /\ x1 \in Row /\ y1 \in Row
      /\ x.op = "BUY" /\ ~x.market => p <= x.price
  BY <1>2, FillIsSound
<1>5. order' = [order EXCEPT ![x.id] = Saved(x, q, p), ![r] = y3]
  BY <1>1 DEF Execute
<1>6. stack' = st1 \/ stack' = Removed(st1, r)
  BY <1>1 DEF Execute
<1>7. cur' = [cur EXCEPT !.obj = x1, !.todo = @ \ {r}]
  BY <1>1 DEF Execute
<1>8. x.id \in OrderIds
  BY <1>4 DEF Stored, Exists
<1>9. matches' \subseteq OrderIds \X OrderIds
  BY <1>1, <1>3, <1>4, <1>8 DEF DatabaseOK, Execute
<1>10. voided' \subseteq OrderIds /\ onCancel' \subseteq OrderIds
  BY <1>1, <1>3, <1>8 DEF DatabaseOK, CountersOK, Execute
<1>11. fees' = [c \in Currencies |->
                  fees[c]
                  + (IF c = GainedIn(x) /\ ~Void(x, q, p) THEN FeeOf(x, q, p) ELSE 0)
                  + (IF c = GainedIn(y) /\ ~Void(y, q, p) THEN FeeOf(y, q, p) ELSE 0)]
  BY <1>1 DEF Execute
<1>12. amount' = [u \in Users |-> [c \in Currencies |->
                    amount[u][c]
                    + (IF u = x.user THEN Credit(x, q, p)[c] ELSE 0)
                    + (IF u = y.user THEN Credit(y, q, p)[c] + Only("base", DustRefund(y1))[c]
                       ELSE 0)]]
  BY <1>1 DEF Execute
<1>13. held' = [held EXCEPT
                  ![x.id] = @ - Released(x, q, p),
                  ![r] = @ - Released(y, q, p) - DustRefund(y1)]
  BY <1>1 DEF Execute
<1> HIDE DEF x, y, q, p, x1, y1, y2, y3, st, st1
<1>14. fees' \in [Currencies -> Int]
  <2>1. FeeOf(x, q, p) \in Nat /\ FeeOf(y, q, p) \in Nat /\ fees \in [Currencies -> Int]
    BY <1>3, <1>4, GrossAndFee DEF DatabaseOK
  <2>2. QED
    BY <1>11, <2>1
<1>15. /\ \A c \in Currencies : Credit(x, q, p)[c] \in Nat /\ Credit(y, q, p)[c] \in Nat
       /\ Released(x, q, p) \in Nat /\ Released(y, q, p) \in Nat
  <2>1. order \in [OrderIds -> Row]
    BY <1>3 DEF DatabaseOK
  <2>2. p <= y.price
    BY <1>4 DEF p
  <2>3. /\ \A c \in Currencies : Credit(x, q, p)[c] \in Nat
        /\ Released(x, q, p) \in Nat
    BY <1>4, <1>8, <2>1, CreditIsNat
  <2>4. /\ \A c \in Currencies : Credit(y, q, p)[c] \in Nat
        /\ Released(y, q, p) \in Nat
    BY <1>4, <2>1, <2>2, CreditIsNat
  <2>5. QED
    BY <2>3, <2>4
<1>16. DustRefund(y1) \in Nat
  BY <1>4, RowFields DEF DustRefund
<1>17. amount' \in [Users -> [Currencies -> Nat]]
  <2>1. amount \in [Users -> [Currencies -> Nat]]
    BY <1>3 DEF DatabaseOK
  <2>2. \A c \in Currencies : Only("base", DustRefund(y1))[c] \in Nat
    BY <1>16 DEF Only
  <2>3. ASSUME NEW u \in Users, NEW c \in Currencies
        PROVE  amount[u][c]
               + (IF u = x.user THEN Credit(x, q, p)[c] ELSE 0)
               + (IF u = y.user THEN Credit(y, q, p)[c] + Only("base", DustRefund(y1))[c]
                  ELSE 0) \in Nat
    BY <1>15, <2>1, <2>2
  <2>4. QED
    BY <1>12, <2>3
<1>18. held' \in [OrderIds -> Int]
  <2>1. held \in [OrderIds -> Int]
    BY <1>3 DEF DatabaseOK
  <2>2. QED
    BY <1>8, <1>13, <1>15, <1>16, <2>1
<1>19. /\ x1.id = x.id /\ x1.op = x.op /\ x1.market = x.market /\ Created(x1)
       /\ ~x.market => x1.price = x.price
       /\ Saved(x, q, p) \in Row /\ Saved(x, q, p).id = x.id /\ Saved(x, q, p).op = x.op
       /\ Created(Saved(x, q, p))
  BY <1>3, <1>4, SavedIsRow DEF x1
<1>20. /\ y1.id = y.id /\ y1.op = y.op /\ Limit(y1)
       /\ y3 \in Row /\ y3.id = r /\ y3.op = y.op /\ Created(y3)
  <2>1. /\ y1.id = y.id /\ y1.op = y.op /\ y1.market = y.market /\ Created(y1)
        /\ Saved(y, q, p) \in Row /\ Saved(y, q, p).id = y.id /\ Saved(y, q, p).op = y.op
        /\ Created(Saved(y, q, p))
    BY <1>3, <1>4, SavedIsRow DEF y1, Limit
  <2>2. y2 \in Row /\ y2.id = y1.id /\ y2.op = y1.op /\ Created(y2)
    BY <1>4, <2>1 DEF y2, Row, Created
  <2>3. QED
    BY <1>4, <2>1, <2>2 DEF y3, Limit
<1>21. order' \in [OrderIds -> Row] /\ Kept(order, order') /\ RowsOK(order')
  <2>1. order \in [OrderIds -> Row] /\ RowsOK(order)
    BY <1>3 DEF DatabaseOK
  <2>2. order[x.id].op = x.op /\ order[r].op = y.op
    BY <1>4 DEF Stored
  <2>3. /\ order' \in [OrderIds -> Row]
        /\ order'[x.id] = Saved(x, q, p) /\ order'[r] = y3
        /\ \A o \in OrderIds \ {x.id, r} : order'[o] = order[o]
    BY <1>4, <1>5, <1>8, <1>19, <1>20, <2>1
  <2>4. QED
    BY <1>8, <1>19, <1>20, <2>1, <2>2, <2>3 DEF Kept, RowsOK
<1>22. DatabaseOK'
  BY <1>9, <1>10, <1>14, <1>17, <1>18, <1>21 DEF DatabaseOK
<1>23. /\ st \in Stacks /\ StackOK(order, st)
       /\ \A n \in OrderIds \ {x.id} : st[n] = stack[n]
  <2>1. stack \in Stacks /\ StackOK(order, stack)
    BY <1>3 DEF BookOK
  <2>2. Removed(stack, x.id) \in Stacks /\ StackOK(order, Removed(stack, x.id))
    BY <2>1, StackUpdates
  <2>3. \A n \in OrderIds \ {x.id} : Removed(stack, x.id)[n] = stack[n]
    BY <2>1 DEF Removed, Stacks
  <2>4. QED
    BY <2>1, <2>2, <2>3 DEF st
<1>24. /\ st1 \in Stacks /\ StackOK(order, st1)
       /\ \A n \in OrderIds \ {r} : st1[n] = st[n]
  <2>1. Stored(order, y1) /\ y1.id = r
    BY <1>4, <1>20 DEF Stored
  <2>2. QED
    BY <1>4, <1>20, <1>23, <2>1, ReplacedRow DEF st1
<1>25. /\ stack' \in Stacks /\ StackOK(order, stack')
       /\ \A n \in OrderIds \ {x.id, r} : stack'[n] = stack[n]
  <2>1. Removed(st1, r) \in Stacks /\ StackOK(order, Removed(st1, r))
    BY <1>24, StackUpdates
  <2>2. \A n \in OrderIds \ {r} : Removed(st1, r)[n] = st1[n]
    BY <1>24 DEF Removed, Stacks
  <2>3. QED
    BY <1>6, <1>23, <1>24, <2>1, <2>2
<1>26. cur' = [phase |-> "match", obj |-> x1, todo |-> cur.todo \ {r}]
  <2>1. cur \in Works /\ cur.phase = "match"
    BY <1>2, <1>3 DEF BookOK
  <2>2. QED
    BY <1>7, <2>1 DEF Works
<1>27. TodoOK(stack', cur')
  <2>1. ASSUME NEW n \in cur.todo \ {r}
        PROVE  /\ InStack(stack', n) /\ stack'[n].row.op # x1.op
               /\ PriceMatch(x1, stack'[n].row.price)
    <3>1. /\ n \in OrderIds /\ InStack(stack, n) /\ stack[n].row.op # x.op
          /\ PriceMatch(x, stack[n].row.price)
      BY <1>2, <1>3 DEF BookOK, CurOK, TodoOK, Works, x
    <3>2. n # x.id
      BY <1>3, <1>4, <3>1 DEF BookOK, StackOK, EntryOK, Stored
    <3>3. stack'[n] = stack[n]
      BY <1>25, <3>1, <3>2
    <3>4. QED
      BY <1>19, <3>1, <3>3 DEF InStack, PriceMatch
  <2>2. QED
    BY <1>26, <2>1 DEF TodoOK
<1>28. BookOK(order, stack', cur')
  <2>1. cur.todo \subseteq OrderIds
    BY <1>3 DEF BookOK, Works
  <2>2. Stored(order, x1)
    BY <1>4, <1>19 DEF Stored
  <2>3. QED
    BY <1>4, <1>19, <1>25, <1>26, <1>27, <2>1, <2>2 DEF BookOK, CurOK, Works
<1>29. ProcessesOK(order', unsent', queue', boot') /\ BookOK(order', stack', cur')
  BY <1>2, <1>3, <1>21, <1>28, Carried
<1>30. CountersOK'
  BY <1>2, <1>3, <1>10 DEF CountersOK, counts
<1>31. QED
  BY <1>22, <1>29, <1>30 DEF NextOK

(* A raise in Order.execute lowers a resting object by at most what it has. *)
LEMMA MatchFailsStep == TypeInv /\ MatchFails => NextOK
<1> SUFFICES ASSUME TypeInv, MatchFails PROVE NextOK
  OBVIOUS
<1> DEFINE x == cur.obj
<1>1. PICK r \in OrderIds :
        LET y == stack[r].row
            q == FillQuantity(x, y)
            st == IF VoidCancels(x, q, y.price) THEN Removed(stack, x.id) ELSE stack
        IN  /\ Best(r)
            /\ stack' = stack \/ stack' = [st EXCEPT ![r].row.left = @ - q]
            /\ onCancel' = onCancel \/ onCancel' = onCancel \cup {x.id}
  BY DEF MatchFails
<1> DEFINE y == stack[r].row
           q == FillQuantity(x, y)
           st == IF VoidCancels(x, q, y.price) THEN Removed(stack, x.id) ELSE stack
           z == [y EXCEPT !.left = @ - q]
<1>2. /\ cur.phase = "match" /\ cur' = Idle /\ boot' = {}
      /\ UNCHANGED <<dbVars, unsent, queue, onPlace, counts>>
  BY DEF MatchFails
<1>3. /\ DatabaseOK /\ ProcessesOK(order, unsent, queue, boot) /\ BookOK(order, stack, cur)
      /\ CountersOK
  BY TypeParts
<1>4. /\ x \in Row /\ Stored(order, x) /\ x.id # r
      /\ y \in Row /\ Stored(order, y) /\ Limit(y) /\ y.id = r
      /\ q \in Nat /\ q <= y.left
  BY <1>1, <1>2, FillIsSound
<1>5. z \in Row /\ z.id = r /\ Stored(order, z) /\ Limit(z)
  <2>1. y.left - q \in Nat
    BY <1>4, RowFields
  <2> HIDE DEF y, q
  <2>2. QED
    BY <1>4, <2>1 DEF Row, Stored, Limit, Created
<1>6. /\ st \in Stacks /\ StackOK(order, st) /\ st[r] = stack[r]
  <2>1. stack \in Stacks /\ StackOK(order, stack)
    BY <1>3 DEF BookOK
  <2>2. Removed(stack, x.id) \in Stacks /\ StackOK(order, Removed(stack, x.id))
    BY <2>1, StackUpdates
  <2>3. Removed(stack, x.id)[r] = stack[r]
    BY <1>4, <2>1 DEF Removed, Stacks
  <2>4. QED
    BY <2>1, <2>2, <2>3
<1>7. stack' = stack \/ stack' = [st EXCEPT ![r].row.left = @ - q]
  BY <1>1
<1>8. [st EXCEPT ![r].row.left = @ - q] = [st EXCEPT ![r].row = z]
  <2> HIDE DEF st, q
  <2>1. st[r].row = y /\ z = [st[r].row EXCEPT !.left = st[r].row.left - q]
    BY <1>6
  <2> HIDE DEF z, y
  <2>2. QED
    BY <2>1, SMT
<1> HIDE DEF z, st
<1>9. stack' \in Stacks /\ StackOK(order, stack')
  <2>1. CASE stack' = stack
    BY <1>3, <2>1 DEF BookOK
  <2>2. CASE stack' = [st EXCEPT ![r].row = z]
    BY <1>5, <1>6, <2>2, ReplacedRow
  <2>3. QED
    BY <1>7, <1>8, <2>1, <2>2
<1>10. DatabaseOK' /\ order' = order
  BY <1>2, <1>3, DatabaseKept
<1>11. CountersOK'
  BY <1>1, <1>2, <1>3, <1>4 DEF CountersOK, counts, Stored, Exists
<1>12. BookOK(order', stack', cur')
  BY <1>2, <1>9, <1>10, IdleBook
<1>13. ProcessesOK(order', unsent', queue', boot')
  BY <1>2, <1>3, <1>10 DEF ProcessesOK
<1>14. QED
  BY <1>2, <1>3, <1>10, <1>11, <1>12, <1>13 DEF NextOK

(* What is done after the last match keeps the types. *)
LEMMA FinishStep == TypeInv /\ Finish => NextOK
<1> SUFFICES ASSUME TypeInv, Finish PROVE NextOK
  OBVIOUS
<1> DEFINE x == cur.obj
<1>1. /\ cur.phase = "match" /\ cur' = Idle
      /\ UNCHANGED <<unsent, queue, boot, onCancel, onPlace, counts>>
      /\ CancelRow(x) \/ CloseMarket(x) \/ UNCHANGED dbVars
      /\ \/ stack' = stack \/ stack' = Removed(stack, x.id)
         \/ ~x.market /\ stack' = Added(stack, x)
  BY DEF Finish
<1>2. /\ DatabaseOK /\ ProcessesOK(order, unsent, queue, boot) /\ BookOK(order, stack, cur)
      /\ CountersOK
  BY TypeParts
<1>3. x \in Row /\ Stored(order, x) /\ Created(x)
  BY <1>1, <1>2 DEF BookOK, CurOK, Works
<1> HIDE DEF x
<1>4. stack' \in Stacks /\ StackOK(order, stack')
  <2>1. stack \in Stacks /\ StackOK(order, stack)
    BY <1>2 DEF BookOK
  <2>2. QED
    BY <1>1, <1>3, <2>1, StackUpdates DEF Limit
<1>5. DatabaseOK' /\ Kept(order, order')
  <2>1. CASE UNCHANGED dbVars
    BY <1>2, <2>1, DatabaseKept
  <2>2. CASE CancelRow(x)
    BY <1>2, <1>3, <2>2, CancelKeepsDatabase
  <2>3. CASE CloseMarket(x) /\ ~UNCHANGED dbVars
    <3> DEFINE y == [x EXCEPT !.state = "CLOSED", !.cost = 0]
    <3>1. /\ order' = [order EXCEPT ![x.id] = y]
          /\ amount' = Credited(x.user, Only("quote", x.cost))
          /\ held' = [held EXCEPT ![x.id] = @ - x.cost]
          /\ UNCHANGED <<matches, fees, voided>>
      BY <2>3 DEF CloseMarket
    <3>2. y \in Row /\ y.id = x.id /\ y.op = x.op /\ Created(y)
      BY <1>3 DEF Row, Created
    <3> HIDE DEF y
    <3>3. /\ order \in [OrderIds -> Row] /\ amount \in [Users -> [Currencies -> Nat]]
          /\ held \in [OrderIds -> Int] /\ RowsOK(order) /\ x.id \in OrderIds
      BY <1>2, <1>3 DEF DatabaseOK, Stored, Exists
    <3>4. order' \in [OrderIds -> Row] /\ RowsOK(order') /\ Kept(order, order')
      BY <1>3, <3>1, <3>2, <3>3 DEF RowsOK, Kept, Stored
    <3>5. amount' \in [Users -> [Currencies -> Nat]]
      <4>1. x.cost \in Nat /\ x.user \in Users /\ "quote" \in Currencies
        BY <1>3, RowFields DEF Currencies
      <4>2. amount[x.user]["quote"] + x.cost >= 0
        BY <3>3, <4>1
      <4>3. QED
        BY <3>1, <3>3, <4>1, <4>2, CreditedIsTyped
    <3>6. held' \in [OrderIds -> Int]
      BY <1>3, <3>1, <3>3, RowFields
    <3>7. QED
      BY <1>2, <3>1, <3>4, <3>5, <3>6 DEF DatabaseOK
  <2>4. QED
    BY <1>1, <2>1, <2>2, <2>3
<1>6. ProcessesOK(order', unsent', queue', boot') /\ BookOK(order', stack', cur')
  <2>1. BookOK(order, stack', cur')
    BY <1>1, <1>4, IdleBook
  <2>2. QED
    BY <1>1, <1>2, <1>5, <2>1, Carried
<1>7. QED
  BY <1>1, <1>2, <1>5, <1>6 DEF NextOK, CountersOK, counts

(* The book a restarted worker loads names existing rows. *)
LEMMA RestartStep == TypeInv /\ Restart => NextOK
<1> SUFFICES ASSUME TypeInv, Restart PROVE NextOK
  OBVIOUS
<1>1. /\ restarts' = restarts + 1
      /\ stack' = [o \in OrderIds |-> NoEntry]
      /\ cur' = Idle
      /\ boot' = {o \in OrderIds : order[o].state = "OPENED" /\ order[o].left > 0}
      /\ UNCHANGED <<dbVars, unsent, queue, onCancel, onPlace, updates, duplicates>>
  BY DEF Restart
<1>2. DatabaseOK /\ ProcessesOK(order, unsent, queue, boot) /\ CountersOK
  BY TypeParts
<1>3. DatabaseOK' /\ order' = order
  BY <1>1, <1>2, DatabaseKept
<1>4. \A o \in boot' : Exists(order, o)
  BY <1>1, <1>2 DEF DatabaseOK, RowsOK, NoRow, Exists
<1>5. ProcessesOK(order, unsent', queue', boot')
  BY <1>1, <1>2, <1>4 DEF ProcessesOK
<1>6. stack' \in Stacks /\ StackOK(order, stack')
  BY <1>1, EmptyIsTyped DEF Stacks, StackOK, InStack
<1>7. BookOK(order, stack', cur')
  BY <1>1, <1>6, IdleBook
<1>8. QED
  BY <1>1, <1>2, <1>3, <1>5, <1>7 DEF NextOK, CountersOK, counts

(* Loading an open order processes the object of its row. *)
LEMMA LoadOpenedOrderStep == TypeInv /\ LoadOpenedOrder => NextOK
<1> SUFFICES ASSUME TypeInv, LoadOpenedOrder PROVE NextOK
  OBVIOUS
<1>1. PICK o \in boot :
        /\ boot' = boot \ {o}
        /\ order[o].market =>
              /\ cur' = [phase |-> "market", obj |-> order[o], todo |-> {}]
              /\ UNCHANGED stack
        /\ ~order[o].market => Process(order[o], stack)
  BY DEF LoadOpenedOrder
<1>2. UNCHANGED <<dbVars, unsent, queue, onCancel, onPlace, counts>>
  BY DEF LoadOpenedOrder
<1>3. /\ DatabaseOK /\ ProcessesOK(order, unsent, queue, boot) /\ BookOK(order, stack, cur)
      /\ CountersOK
  BY TypeParts
<1> DEFINE x == order[o]
<1>4. x \in Row /\ Stored(order, x) /\ Created(x)
  BY <1>3 DEF ProcessesOK, DatabaseOK, RowsOK, Exists, Stored, NoRow, OrderIds
<1>5. DatabaseOK' /\ order' = order
  BY <1>2, <1>3, DatabaseKept
<1>6. ProcessesOK(order, unsent', queue', boot')
  BY <1>1, <1>2, <1>3 DEF ProcessesOK
<1>7. BookOK(order, stack', cur')
  <2> HIDE DEF x
  <2>1. stack \in Stacks /\ StackOK(order, stack)
    BY <1>3 DEF BookOK
  <2>2. CASE x.market
    BY <1>1, <1>4, <2>1, <2>2 DEF BookOK, CurOK, Works, x
  <2>3. CASE ~x.market
    BY <1>1, <1>4, <2>1, <2>3, ProcessKeepsBook DEF Limit, x
  <2>4. QED
    BY <2>2, <2>3
<1>8. QED
  BY <1>2, <1>3, <1>5, <1>6, <1>7 DEF NextOK, CountersOK, counts

(* A message delivered again is one that was in the queue. *)
LEMMA RedeliverStep == TypeInv /\ Redeliver => NextOK
<1> SUFFICES ASSUME TypeInv, Redeliver PROVE NextOK
  OBVIOUS
<1> DEFINE m == Head(queue)
<1>1. /\ queue # <<>> /\ duplicates' = duplicates + 1
      /\ queue' = <<m>> \o queue \/ queue' = Append(queue, m)
      /\ UNCHANGED <<dbVars, unsent, stack, cur, boot, onCancel, onPlace, updates, restarts>>
  BY DEF Redeliver
<1>2. /\ queue \in Seq(Message) /\ QueueOK(order, queue)
      /\ DatabaseOK /\ CountersOK /\ BookOK(order, stack, cur)
      /\ ProcessesOK(order, unsent, queue, boot)
  BY TypeParts DEF ProcessesOK
<1>3. m \in Message /\ MessageOK(order, m)
  BY <1>1, <1>2, QueueHead
<1> HIDE DEF m
<1>4. queue' \in Seq(Message) /\ QueueOK(order, queue')
  <2>1. CASE queue' = Append(queue, m)
    BY <1>2, <1>3, <2>1, QueueGrows
  <2>2. CASE queue' = <<m>> \o queue
    BY <1>2, <1>3, <2>2, QueueDoubled
  <2>3. QED
    BY <1>1, <2>1, <2>2
<1>5. DatabaseOK' /\ order' = order
  BY <1>1, <1>2, DatabaseKept
<1>6. ProcessesOK(order, unsent', queue', boot')
  BY <1>1, <1>2, <1>4 DEF ProcessesOK
<1>7. QED
  BY <1>1, <1>2, <1>5, <1>6 DEF NextOK, CountersOK

(* The expiry of a cache key changes nothing else. *)
LEMMA CancelKeyStep == TypeInv /\ CancelKeyExpires => NextOK
<1> SUFFICES ASSUME TypeInv, CancelKeyExpires PROVE NextOK
  OBVIOUS
<1>1. /\ onCancel' \subseteq onCancel
      /\ UNCHANGED <<dbVars, unsent, queue, stack, cur, boot, onPlace, counts>>
  BY DEF CancelKeyExpires
<1>2. QED
  BY <1>1, TypeParts, DatabaseKept DEF NextOK, CountersOK, counts

(* A step that changes no variable keeps the invariant. *)
LEMMA StutterStep == TypeInv /\ UNCHANGED vars => NextOK
  BY TypeParts, DatabaseKept DEF NextOK, CountersOK, vars, counts

-----------------------------------------------------------------------------
(* The theorem.                                                            *)

(* The initial state satisfies the invariant. *)
LEMMA TypeInit == Init => TypeInv
<1> SUFFICES ASSUME Init PROVE TypeInv
  OBVIOUS
<1>1. amount \in [Users -> [Currencies -> Nat]]
  BY OrderBookAssumption DEF Init, Currencies
<1>2. fees \in [Currencies -> Int]
  BY DEF Init, Only
<1>3. DatabaseOK
  BY <1>1, <1>2, EmptyIsTyped DEF Init, DatabaseOK, RowsOK
<1>4. queue \in Seq(Message) /\ QueueOK(order, queue)
  BY DEF Init, QueueOK
<1>5. ProcessesOK(order, unsent, queue, boot)
  BY <1>4 DEF Init, ProcessesOK, UnsentOK
<1>6. stack \in Stacks /\ StackOK(order, stack)
  BY EmptyIsTyped DEF Init, Stacks, StackOK, InStack
<1>7. BookOK(order, stack, cur)
  BY <1>6, IdleBook DEF Init
<1>8. QED
  BY <1>3, <1>5, <1>7, TypeParts DEF Init, CountersOK

(* Every step of the exchange, of a web process or of the worker, keeps the  *)
(* inductive invariant.                                                      *)
LEMMA TypeNext == TypeInv /\ [Next]_vars => TypeInv'
<1> SUFFICES ASSUME TypeInv, [Next]_vars PROVE TypeInv'
  OBVIOUS
<1>1. NextOK
  BY CreateOrderStep, SendPlaceOrderStep, RequestCancelStep, RequestUpdateStep,
     RequestMarketStep, PlaceOrderStep, CancelOrderStep, UpdateOrderStep, MarketOrderStep,
     MarketExecuteStep, MatchStep, MatchFailsStep, FinishStep, RestartStep,
     LoadOpenedOrderStep, RedeliverStep, CancelKeyStep, StutterStep
     DEF Next, Web, Worker, Quiescent
<1>2. QED
  BY <1>1 DEF NextOK, TypeInv, TypeOK, DatabaseOK, ProcessesOK, BookOK, CountersOK, Stacks, Works

(* For any users, prices, quantities, fees and bounds, no interleaving of    *)
(* orders, cancels, updates, market orders and restarts makes a balance, a   *)
(* remaining quantity or a market buy's remaining cost negative.             *)
THEOREM TypeCorrect == Spec => []TypeInv
  BY TypeInit, TypeNext, PTL DEF Spec

(* In particular every variable keeps its type. *)
THEOREM TypesKept == Spec => []TypeOK
<1>1. TypeInv => TypeOK
  BY DEF TypeInv
<1>2. QED
  BY <1>1, TypeCorrect, PTL

-----------------------------------------------------------------------------
(***************************************************************************)
(* Theorems of OrderBook about the worker's memory and the database.  They *)
(* hold when no request reaches the queue before the order's own           *)
(* place_order, the worker does not restart while place_order messages     *)
(* wait, and bots do not update their orders; and order by order, as long  *)
(* as no fill of an order was void.                                        *)
(***************************************************************************)

-----------------------------------------------------------------------------
(* What is known of ids.                                                   *)

(* What is in the book, at work or waiting has a row. *)
LEMMA StoredHaveRows ==
    ASSUME TypeInv
    PROVE  /\ \A o \in OrderIds : order[o].state = "NONE" => order[o] = NoRow
           /\ \A o \in OrderIds : InStack(stack, o) => order[o].state # "NONE"
           /\ \A o \in OrderIds : Working(o) => order[o].state # "NONE"
           /\ \A o \in boot : order[o].state # "NONE"
           /\ \A x \in unsent : order[x.id].state # "NONE"
           /\ \A i \in 1 .. Len(queue) : queue[i].type # "market" => order[queue[i].row.id].state # "NONE"
<1>1. \A o : Exists(order, o) => order[o].state # "NONE"
  <2>1. NoRow.id = 0
    BY DEF NoRow
  <2>2. \A o \in OrderIds : o # 0
    BY DEF OrderIds
  <2> QED BY <2>1, <2>2 DEF TypeInv, RowsOK, Exists, Created
<1>2. \A x : Stored(order, x) => order[x.id].state # "NONE"
  BY <1>1 DEF Stored
<1>3. \A o \in OrderIds : order[o].state = "NONE" => order[o] = NoRow
  BY DEF TypeInv, RowsOK, Created
<1>4. \A o \in OrderIds : InStack(stack, o) => order[o].state # "NONE"
  BY <1>2 DEF TypeInv, StackOK, EntryOK
<1>5. \A o \in OrderIds : Working(o) => order[o].state # "NONE"
  BY <1>2 DEF TypeInv, CurOK, Working
<1>6. /\ \A o \in boot : order[o].state # "NONE"
      /\ \A x \in unsent : order[x.id].state # "NONE"
      /\ \A i \in 1 .. Len(queue) : queue[i].type # "market" => order[queue[i].row.id].state # "NONE"
  BY <1>1, <1>2 DEF TypeInv, UnsentOK, QueueOK, MessageOK
<1> QED BY <1>3, <1>4, <1>5, <1>6

(* A message of the queue after its head is taken. *)
LEMMA TailQueue ==
    ASSUME NEW q \in Seq(Message), q # <<>>
    PROVE  /\ Len(q) \in Nat /\ Len(Tail(q)) = Len(q) - 1 /\ Len(q) >= 1
           /\ q[1] = Head(q)
           /\ \A i \in 1 .. Len(Tail(q)) : Tail(q)[i] = q[i + 1]
  BY SMT

-----------------------------------------------------------------------------
(* Steps seen from the orders they leave alone.                            *)

(* Only the orders in T are touched, and they have rows afterwards. *)
Touches(T) ==
    /\ T \subseteq OrderIds /\ \A o \in T : order'[o].state # "NONE"
    /\ \A o \in OrderIds \ T :
           /\ order'[o] = order[o] /\ held'[o] = held[o]
           /\ InStack(stack', o) => stack'[o] = stack[o]
           /\ o \in boot' => o \in boot
           /\ Working(o)' => Working(o)
           /\ o \in voided' => o \in voided
    /\ voided \subseteq voided' /\ voided' \subseteq OrderIds
    /\ matches \subseteq matches' /\ matches \subseteq OrderIds \X OrderIds
    /\ onPlace \subseteq onPlace' /\ onPlace \subseteq OrderIds

(* An order that was ended stays so, unless a fill of it was void. *)
Advances(o) ==
    order[o].state # "NONE" /\ o \notin voided' /\ order'[o].state = "OPENED"
        => order[o].state = "OPENED"

LEMMA PairsStay ==
    ASSUME NEW T, Touches(T), \A o \in T : Advances(o), NEW m \in matches, PairEnds(m)
    PROVE  PairEnds(m)'
<1>1. m[1] \in OrderIds /\ m[2] \in OrderIds
  BY DEF Touches
<1>2. \A o \in OrderIds : Advances(o)
  BY DEF Touches, Advances
<1>3. \A o \in OrderIds : order[o].state # "NONE" => order'[o].state # "NONE"
  BY DEF Touches
<1>4. m[1] \in voided \/ m[2] \in voided => m[1] \in voided' \/ m[2] \in voided'
  BY DEF Touches
<1> QED BY <1>1, <1>2, <1>3, <1>4 DEF PairEnds, Advances

LEMMA RowsStay ==
    ASSUME RowsInv, NEW T, Touches(T),
           \A o \in T : Advances(o),
           \A o \in T \ voided' : RowSound(order'[o]) /\ held'[o] >= Claim(order'[o]),
           \A o \in onPlace' \ onPlace : o \in T,
           \A m \in matches' \ matches : PairEnds(m)'
    PROVE  RowsInv'
<1>1. ASSUME NEW o \in OrderIds \ voided' PROVE RowSound(order'[o]) /\ held'[o] >= Claim(order'[o])
  BY DEF RowsInv, Touches
<1>2. ASSUME NEW o \in voided' \cup onPlace' PROVE order'[o].state # "NONE"
  BY DEF RowsInv, Touches
<1>3. ASSUME NEW m \in matches' PROVE PairEnds(m)'
  <2>1. CASE m \in matches
    BY <2>1, PairsStay DEF RowsInv
  <2> QED BY <2>1
<1> QED BY <1>1, <1>2, <1>3 DEF RowsInv

LEMMA BookStays ==
    ASSUME BookSound, NEW T, Touches(T),
           \A o \in T : InStack(stack', o) => RestsSound(o)',
           cur.phase = "reprice" => cur' = cur /\ boot \subseteq boot'
    PROVE  BookSound'
<1>1. Disturbed \subseteq Disturbed'
  BY DEF Touches, Disturbed
<1>2. ASSUME NEW o \in OrderIds \ T, InStack(stack', o) PROVE RestsSound(o)'
  <2>1. /\ stack'[o] = stack[o] /\ order'[o] = order[o] /\ InStack(stack, o)
        /\ o \in boot' => o \in boot
        /\ Working(o)' => Working(o)
        /\ o \notin voided' => o \notin voided
        /\ o \notin Disturbed' => o \notin Disturbed
    BY <1>1, <1>2 DEF Touches, InStack
  <2>2. RestsSound(o)
    BY <2>1 DEF BookSound
  <2>3. /\ o \in boot' => cur'.phase = "reprice"
        /\ o \notin boot' => o \notin boot
    BY <2>1, <2>2 DEF RestsSound
  <2> QED BY <2>1, <2>2, <2>3 DEF RestsSound
<1> QED BY <1>2 DEF BookSound

LEMMA NotRepricing ==
    ASSUME cur = Idle \/ cur.phase \in {"market", "match"}
    PROVE  cur.phase # "reprice"
BY DEF Idle

LEMMA BootStays ==
    ASSUME BootSound, NEW T, Touches(T), boot' \subseteq boot \ T, boot \subseteq OrderIds
    PROVE  BootSound'
BY DEF BootSound, Touches

(* None of T is an order that waits to be given to the worker. *)
Given(T) ==
    \A x \in Row : /\ NewOrder(x) /\ ~x.market
                   /\ x.id \notin onPlace' /\ ~NeverSent(x.id)
                   => x.id \notin T

LEMMA SnapshotStays ==
    ASSUME NEW T, Touches(T), Given(T),
           NEW x \in Row, x.id \in OrderIds, ~x.market, NewOrder(x), x.id \notin onPlace',
           ~NeverSent(x.id)
    PROVE  NewOrder(x)'
<1>1. x.id \in OrderIds \ T
  BY DEF Given
<1>2. /\ order'[x.id] = order[x.id]
      /\ InStack(stack', x.id) => stack'[x.id] = stack[x.id]
      /\ x.id \in boot' => x.id \in boot
      /\ Working(x.id)' => Working(x.id)
      /\ x.id \in voided' => x.id \in voided
  BY <1>1 DEF Touches
<1> QED BY <1>2 DEF NewOrder, InStack

(* The rows that wait for the worker. *)
LEMMA WaitingRows ==
    ASSUME TypeInv
    PROVE  /\ queue \in Seq(Message)
           /\ \A x \in unsent : x \in Row /\ x.id \in OrderIds /\ ~x.market
           /\ \A i \in 1 .. Len(queue) : queue[i].type = "place" =>
                 queue[i].row \in Row /\ queue[i].row.id \in OrderIds /\ ~queue[i].row.market
           /\ \A i \in 1 .. Len(queue) : queue[i].type # "market" => queue[i].row.id \in OrderIds
<1>1. queue \in Seq(Message) /\ unsent \subseteq Row
  BY DEF TypeInv, TypeOK
<1>2. \A i \in 1 .. Len(queue) : queue[i] \in Message
  BY <1>1
<1>3. \A x \in unsent : x.id \in OrderIds /\ ~x.market
  BY DEF TypeInv, UnsentOK, Stored, Exists, Limit
<1>4. \A i \in 1 .. Len(queue) : queue[i].type = "place" =>
          queue[i].row.id \in OrderIds /\ ~queue[i].row.market
  BY DEF TypeInv, QueueOK, MessageOK, Stored, Exists, Limit
<1>5. \A i \in 1 .. Len(queue) : queue[i].type # "market" => queue[i].row.id \in OrderIds
  BY DEF TypeInv, QueueOK, MessageOK, Exists
<1> QED BY <1>1, <1>2, <1>3, <1>4, <1>5 DEF Message

(* A snapshot waits to be sent or taken. *)
LEMMA WaitingAreSent ==
    ASSUME queue \in Seq(Message)
    PROVE  /\ \A x \in unsent : ~NeverSent(x.id)
           /\ \A i \in 1 .. Len(queue) : queue[i].type = "place" => ~NeverSent(queue[i].row.id)
  BY DEF NeverSent, Unsent, Sent

(* A market order stays one, and a row the worker inserts is one. *)
StaysMarket(o) ==
    order[o].market \/ order[o].state = "NONE" => order'[o].market \/ o \in voided'

(* Queue and snapshots when the worker goes on. *)
LEMMA WaitingStay ==
    ASSUME TypeInv, SnapshotsInv, RequestsInv, NEW T, Touches(T), Given(T),
           \A o \in T : StaysMarket(o),
           UNCHANGED <<unsent, queue, onPlace>>
    PROVE  SnapshotsInv' /\ RequestsInv'
<1>1. /\ \A x \in unsent : x \in Row /\ x.id \in OrderIds /\ ~x.market
      /\ \A i \in 1 .. Len(queue) : queue[i].type = "place" =>
            queue[i].row \in Row /\ queue[i].row.id \in OrderIds /\ ~queue[i].row.market
      /\ \A i \in 1 .. Len(queue) : queue[i].type # "market" => queue[i].row.id \in OrderIds
  BY WaitingRows
<1>0. /\ \A x \in unsent : ~NeverSent(x.id)
      /\ \A i \in 1 .. Len(queue) : queue[i].type = "place" => ~NeverSent(queue[i].row.id)
  BY WaitingRows, WaitingAreSent
<1>2. SnapshotsInv'
  BY <1>0, <1>1, SnapshotStays DEF SnapshotsInv, Sent
<1>3. ASSUME NEW o \in OrderIds
      PROVE  \A n : After(o, n) => After(o, n)'
  <2>1. order[o].market => order'[o].market \/ o \in voided'
    BY DEF Touches, StaysMarket
  <2>2. \A n : Sent(o, n)' = Sent(o, n)
    BY DEF Sent
  <2>3. NeverSent(o)' = NeverSent(o)
    BY DEF NeverSent, Sent, Unsent
  <2>4. o \in onPlace \cup voided => o \in onPlace' \cup voided'
    BY DEF Touches
  <2> QED BY <2>1, <2>2, <2>3, <2>4 DEF After
<1>4. RequestsInv'
  BY <1>1, <1>3 DEF RequestsInv
<1> QED BY <1>2, <1>4

(* ... and when it takes the message at the head of the queue. *)
LEMMA WaitingTaken ==
    ASSUME TypeInv, SnapshotsInv, RequestsInv, NEW T, Touches(T), Given(T),
           \A o \in T : StaysMarket(o),
           queue # <<>>, queue' = Tail(queue), unsent' = unsent,
           onPlace' \subseteq onPlace \cup {queue[1].row.id},
           queue[1].type = "place" => queue[1].row.id \in onPlace',
           queue[1].type # "place" => onPlace' = onPlace
    PROVE  SnapshotsInv' /\ RequestsInv'
<1>2. /\ queue \in Seq(Message)
      /\ \A x \in unsent : x \in Row /\ x.id \in OrderIds /\ ~x.market
      /\ \A i \in 1 .. Len(queue) : queue[i].type = "place" =>
            queue[i].row \in Row /\ queue[i].row.id \in OrderIds /\ ~queue[i].row.market
      /\ \A i \in 1 .. Len(queue) : queue[i].type # "market" => queue[i].row.id \in OrderIds
  BY WaitingRows
<1>3. /\ Len(queue) \in Nat /\ Len(queue') = Len(queue) - 1 /\ Len(queue) >= 1
      /\ \A i \in 1 .. Len(queue') : queue'[i] = queue[i + 1]
  BY <1>2, TailQueue
<1>4. \A i \in 1 .. Len(queue') : i + 1 \in 1 .. Len(queue)
  BY <1>3
<1>5. ASSUME NEW o, NEW n \in 0 .. Len(queue'), Sent(o, n)' PROVE Sent(o, n + 1)
  BY <1>3, <1>5 DEF Sent
<1>6. ASSUME NEW o, NEW n \in 0 .. Len(queue'), Sent(o, n + 1), o \notin onPlace'
      PROVE  Sent(o, n)'
  <2>1. PICK k \in 1 .. n + 1 : queue[k].type = "place" /\ queue[k].row.id = o
    BY <1>6 DEF Sent
  <2>2. k # 1
    BY <1>6, <2>1
  <2>3. k - 1 \in 1 .. n /\ k - 1 \in 1 .. Len(queue') /\ (k - 1) + 1 = k
    BY <1>3, <2>2
  <2>4. queue'[k - 1] = queue[k]
    BY <1>3, <2>3
  <2> QED BY <2>1, <2>3, <2>4 DEF Sent
<1>7. ASSUME NEW o \in OrderIds, NEW n \in 0 .. Len(queue'), After(o, n + 1) PROVE After(o, n)'
  <2>1. order[o].market => order'[o].market \/ o \in voided'
    BY DEF Touches, StaysMarket
  <2>2. onPlace \subseteq onPlace' /\ voided \subseteq voided'
    BY DEF Touches
  <2>3. NeverSent(o) => NeverSent(o)'
    <3>1. PICK k \in 0 .. Len(queue') : k = Len(queue') /\ k + 1 = Len(queue)
      BY <1>3
    <3>2. Sent(o, k)' => Sent(o, Len(queue))
      BY <1>5, <3>1
    <3>3. Sent(o, Len(queue))' => Sent(o, k)'
      BY <3>1 DEF Sent
    <3> QED BY <3>2, <3>3 DEF NeverSent, Unsent
  <2> QED BY <1>6, <1>7, <2>1, <2>2, <2>3 DEF After
<1>8. SnapshotsInv'
  <2>1. ASSUME NEW x \in unsent
        PROVE  NewOrder(x)' /\ x.id \notin onPlace' /\ ~Sent(x.id, Len(queue))'
    <3>1. NewOrder(x) /\ x.id \notin onPlace /\ ~Sent(x.id, Len(queue))
      BY DEF SnapshotsInv
    <3>2. x.id \notin onPlace'
      BY <1>3, <3>1 DEF Sent
    <3>3. ~Sent(x.id, Len(queue))'
      BY <1>3, <1>4, <3>1 DEF Sent
    <3> QED BY <1>2, <3>1, <3>2, <3>3, SnapshotStays, WaitingAreSent
  <2>2. ASSUME NEW i \in 1 .. Len(queue'), queue'[i].type = "place", queue'[i].row.id \notin onPlace'
        PROVE  NewOrder(queue[i].row)'
    <3>1. PICK x \in Row : x = queue'[i].row /\ x.id \in OrderIds /\ ~x.market
                                  /\ (x.id \notin onPlace => NewOrder(x)) /\ ~NeverSent(x.id)
      <4>1. queue'[i] = queue[i + 1] /\ i + 1 \in 1 .. Len(queue)
        BY <1>3, <1>4
      <4>2. queue[i + 1].type = "place"
        BY <2>2, <4>1
      <4>3. queue[i + 1].row \in Row /\ queue[i + 1].row.id \in OrderIds /\ ~queue[i + 1].row.market
        BY <1>2, <4>1, <4>2
      <4>4. queue[i + 1].row.id \notin onPlace => NewOrder(queue[i + 1].row)
        BY <4>1, <4>2 DEF SnapshotsInv
      <4>5. ~NeverSent(queue[i + 1].row.id)
        BY <1>2, <4>1, <4>2, WaitingAreSent
      <4> QED BY <4>1, <4>3, <4>4, <4>5
    <3>2. x.id \notin onPlace' /\ x.id \notin onPlace
      BY <2>2, <3>1 DEF Touches
    <3>3. NewOrder(x)'
      BY <3>1, <3>2, SnapshotStays
    <3> QED BY <3>1, <3>3 DEF NewOrder, Working, InStack
  <2> QED BY <2>1, <2>2 DEF SnapshotsInv
<1>9. RequestsInv'
  <2>1. ASSUME NEW i \in 1 .. Len(queue'), queue'[i].type \in {"cancel", "update"}
        PROVE  After(queue[i].row.id, i - 1)'
    <3>1. queue'[i] = queue[i + 1] /\ i + 1 \in 1 .. Len(queue) /\ i - 1 \in 0 .. Len(queue')
          /\ (i + 1) - 1 = (i - 1) + 1
      BY <1>3, <1>4
    <3>2. PICK o \in OrderIds : o = queue'[i].row.id /\ After(o, (i - 1) + 1)
      <4>1. After(queue[i + 1].row.id, (i + 1) - 1) /\ queue[i + 1].row.id \in OrderIds
        BY <1>2, <2>1, <3>1 DEF RequestsInv
      <4> QED BY <3>1, <4>1
    <3>3. After(o, i - 1)'
      BY <1>7, <3>1, <3>2
    <3> QED BY <3>2, <3>3 DEF After, Sent, NeverSent, Unsent
  <2>2. ASSUME NEW i \in 1 .. Len(queue')
        PROVE  /\ queue'[i].type = "market" /\ queue'[i].row.op = "SELL" =>
                      queue'[i].row.cost = 0 /\ queue'[i].row.qty > 0
               /\ queue'[i].type = "update" => MaxUpdates > 0
    BY <1>3, <1>4 DEF RequestsInv
  <2> QED BY <2>1, <2>2 DEF RequestsInv
<1> QED BY <1>8, <1>9

-----------------------------------------------------------------------------
(* The actions.                                                            *)

(* Requests come after the order's place_order, a restart finds none that   *)
(* waits, and no bot updates its orders.                                   *)
Orderly == ~EarlyCancel /\ ~BusyRestart /\ (Bots = {} \/ MaxUpdates = 0)

(* A row that FinalRowsStay is about. *)
Final(x) == x.state \in {"CANCELED", "REVERT"} \/ (x.state = "CLOSED" /\ ~x.market)
FinalKept == \A o \in OrderIds \ voided : Final(order[o]) => order'[o] = order[o]

(* What every step keeps. *)
MirrorKept ==
    RowsInv' /\ SnapshotsInv' /\ RequestsInv' /\ BookSound' /\ BootSound'
    /\ CurSound' /\ MatchedOnce' /\ FinalKept

(* A step that leaves the database alone. *)
LEMMA RowsUntouched ==
    ASSUME RowsInv, UNCHANGED dbVars,
           \A o \in onPlace' \ onPlace : order[o].state # "NONE"
    PROVE  RowsInv' /\ FinalKept
<1>1. order' = order /\ held' = held /\ voided' = voided /\ matches' = matches
  BY DEF dbVars
<1>2. \A m \in matches : PairEnds(m) => PairEnds(m)'
  BY <1>1 DEF PairEnds
<1> QED BY <1>1, <1>2 DEF RowsInv, FinalKept

(* A step that leaves the worker's memory and the rows alone. *)
LEMMA MemoryUntouched ==
    ASSUME BookSound, BootSound, CurSound, MatchedOnce, UNCHANGED <<dbVars, stack, cur, boot>>
    PROVE  BookSound' /\ BootSound' /\ CurSound' /\ MatchedOnce'
<1>1. \A o : InStack(stack, o)' = InStack(stack, o)
  BY DEF InStack
<1>2. \A o : RestsSound(o)' = RestsSound(o)
  BY DEF RestsSound, Working, Disturbed, dbVars
<1>3. BookSound' /\ BootSound'
  BY <1>1, <1>2 DEF BookSound, BootSound, Working, dbVars
<1>4. CurSound' /\ MatchedOnce'
  BY DEF CurSound, MatchedOnce, dbVars
<1> QED BY <1>3, <1>4

(* Nothing is at work. *)
LEMMA IdleIsSound ==
    ASSUME cur' = Idle
    PROVE  CurSound' /\ MatchedOnce' /\ \A o : ~Working(o)'
  BY DEF CurSound, MatchedOnce, Working, Idle

(* A step that leaves what the worker knows alone touches no order. *)
LEMMA TouchesNone ==
    ASSUME TypeInv, UNCHANGED <<dbVars, stack, cur>>, boot' \subseteq boot,
           onPlace \subseteq onPlace'
    PROVE  Touches({}) /\ Given({})
<1>1. /\ voided \subseteq OrderIds /\ matches \subseteq OrderIds \X OrderIds
      /\ onPlace \subseteq OrderIds
  BY DEF TypeInv, TypeOK
<1> QED BY <1>1 DEF Touches, Given, dbVars, Working

(* Messages after a request. *)
LEMMA QueueLonger ==
    ASSUME queue \in Seq(Message), NEW m, queue' = Append(queue, m)
    PROVE  /\ Len(queue) \in Nat /\ Len(queue') = Len(queue) + 1
           /\ \A i \in 1 .. Len(queue') : i \in 1 .. Len(queue) \/ i = Len(queue) + 1
           /\ \A i \in 1 .. Len(queue) : queue'[i] = queue[i]
           /\ queue'[Len(queue) + 1] = m
           /\ \A o, n : n \in 0 .. Len(queue) => Sent(o, n)' = Sent(o, n)
           /\ \A o, n : n = Len(queue) + 1 =>
                 (Sent(o, n)' <=> Sent(o, Len(queue)) \/ (m.type = "place" /\ m.row.id = o))
<1>1. /\ Len(queue) \in Nat /\ Len(queue') = Len(queue) + 1
      /\ \A i \in 1 .. Len(queue) : queue'[i] = queue[i]
      /\ queue'[Len(queue) + 1] = m
  BY SMT
<1>2. \A i \in 1 .. Len(queue) + 1 : i \in 1 .. Len(queue) \/ i = Len(queue) + 1
  BY <1>1
<1>3. ASSUME NEW o, NEW n \in 0 .. Len(queue) PROVE Sent(o, n)' = Sent(o, n)
  BY <1>1 DEF Sent
<1>4. ASSUME NEW o, NEW n, n = Len(queue) + 1
      PROVE  Sent(o, n)' <=> Sent(o, Len(queue)) \/ (m.type = "place" /\ m.row.id = o)
  <2>1. Sent(o, n)' <=> \E k \in 1 .. n : queue'[k].type = "place" /\ queue'[k].row.id = o
    BY DEF Sent
  <2>2. n \in 1 .. n /\ queue'[n] = m
    BY <1>1, <1>4
  <2>3. \A k \in 1 .. n : k = n \/ (k \in 1 .. Len(queue) /\ queue'[k] = queue[k])
    BY <1>1, <1>2, <1>4
  <2>4. \A k \in 1 .. Len(queue) : k \in 1 .. n /\ queue'[k] = queue[k]
    BY <1>1, <1>4
  <2> QED BY <2>1, <2>2, <2>3, <2>4 DEF Sent
<1> QED BY <1>1, <1>2, <1>3, <1>4

(* A request leaves the queue and the snapshots in order. *)
LEMMA RequestKept ==
    ASSUME TypeInv, RowsInv, SnapshotsInv, RequestsInv, BookSound, BootSound, CurSound, MatchedOnce,
           UNCHANGED <<dbVars, unsent, stack, cur, boot, onPlace>>,
           NEW m, queue' = Append(queue, m), m.type # "place",
           m.type \in {"cancel", "update"} => After(m.row.id, Len(queue)),
           m.type = "market" /\ m.row.op = "SELL" => m.row.cost = 0 /\ m.row.qty > 0,
           m.type = "update" => MaxUpdates > 0
    PROVE  MirrorKept
<1>1. queue \in Seq(Message)
  BY DEF TypeInv, TypeOK
<1>2. /\ Len(queue) \in Nat /\ Len(queue') = Len(queue) + 1
      /\ \A i \in 1 .. Len(queue') : i \in 1 .. Len(queue) \/ i = Len(queue) + 1
      /\ \A i \in 1 .. Len(queue) : queue'[i] = queue[i]
      /\ queue'[Len(queue) + 1] = m
      /\ \A o, n : n \in 0 .. Len(queue) => Sent(o, n)' = Sent(o, n)
      /\ \A o, n : n = Len(queue) + 1 => (Sent(o, n)' <=> Sent(o, Len(queue)))
  BY <1>1, QueueLonger
<1>3. \A x : NewOrder(x)' = NewOrder(x)
  BY DEF NewOrder, dbVars, InStack, Working
<1>4. \A o, n : n \in 0 .. Len(queue) /\ After(o, n) => After(o, n)'
  <2>1. \A o : NeverSent(o) => NeverSent(o)'
    <3>1. PICK n : n = Len(queue) + 1 /\ n = Len(queue')
      BY <1>2
    <3>2. \A o : Sent(o, n)' <=> Sent(o, Len(queue))
      BY <1>2, <3>1
    <3> QED BY <3>1, <3>2 DEF NeverSent, Unsent, Sent
  <2> QED BY <1>2, <2>1 DEF After, dbVars
<1>6. SnapshotsInv'
  <2>1. ASSUME NEW x \in unsent PROVE (NewOrder(x) /\ x.id \notin onPlace /\ ~Sent(x.id, Len(queue)))'
    <3>1. PICK n : n = Len(queue) + 1 /\ n = Len(queue')
      BY <1>2
    <3>2. ~Sent(x.id, n)'
      BY <1>2, <3>1 DEF SnapshotsInv
    <3>3. NewOrder(x)' /\ x.id \notin onPlace'
      BY <1>3 DEF SnapshotsInv
    <3> QED BY <3>1, <3>2, <3>3 DEF Sent
  <2>2. ASSUME NEW i \in 1 .. Len(queue'), queue'[i].type = "place", queue'[i].row.id \notin onPlace'
        PROVE  NewOrder(queue[i].row)'
    <3>1. i \in 1 .. Len(queue) /\ queue'[i] = queue[i]
      BY <1>2, <2>2
    <3>2. PICK x : x = queue'[i].row /\ NewOrder(x)
      BY <2>2, <3>1 DEF SnapshotsInv
    <3> QED BY <1>3, <3>2 DEF NewOrder, InStack, Working
  <2> QED BY <2>1, <2>2 DEF SnapshotsInv
<1>7. RequestsInv'
  <2>1. ASSUME NEW i \in 1 .. Len(queue'), queue'[i].type \in {"cancel", "update"}
        PROVE  After(queue[i].row.id, i - 1)'
    <3>1. PICK o, n : o = queue'[i].row.id /\ n = i - 1 /\ n \in 0 .. Len(queue) /\ After(o, n)
      <4>1. i - 1 \in 0 .. Len(queue)
        BY <1>2
      <4>2. CASE i \in 1 .. Len(queue)
        BY <1>2, <2>1, <4>1, <4>2 DEF RequestsInv
      <4>3. CASE i = Len(queue) + 1
        BY <1>2, <2>1, <4>1, <4>3
      <4> QED BY <1>2, <4>2, <4>3
    <3>2. After(o, n)'
      BY <1>4, <3>1
    <3> QED BY <3>1, <3>2 DEF After, Sent, NeverSent, Unsent
  <2>2. ASSUME NEW i \in 1 .. Len(queue')
        PROVE  /\ queue'[i].type = "market" /\ queue'[i].row.op = "SELL" =>
                      queue'[i].row.cost = 0 /\ queue'[i].row.qty > 0
               /\ queue'[i].type = "update" => MaxUpdates > 0
    BY <1>2 DEF RequestsInv
  <2> QED BY <2>1, <2>2 DEF RequestsInv
<1>8. RowsInv' /\ FinalKept
  BY RowsUntouched
<1>9. BookSound' /\ BootSound' /\ CurSound' /\ MatchedOnce'
  BY MemoryUntouched
<1> QED BY <1>6, <1>7, <1>8, <1>9 DEF MirrorKept

(* The parts of the invariant. *)
LEMMA MirrorParts ==
    MirrorInv <=> /\ TypeInv /\ RowsInv /\ SnapshotsInv /\ RequestsInv
                  /\ BookSound /\ BootSound /\ CurSound /\ MatchedOnce
  BY DEF MirrorInv, MemoryInv

(* What can be asked of an order comes after its place_order. *)
LEMMA CanRequestIsAfter ==
    ASSUME Orderly, NEW o \in OrderIds, CanRequest(o)
    PROVE  After(o, Len(queue))
<1>1. o \notin Unsent
  BY DEF CanRequest, Orderly, Unsent
<1> QED BY <1>1 DEF After, NeverSent

LEMMA RequestCancelMirror == Orderly /\ MirrorInv /\ RequestCancel => MirrorKept
<1> SUFFICES ASSUME Orderly, MirrorInv, RequestCancel PROVE MirrorKept
  OBVIOUS
<1>1. PICK o \in OrderIds :
        /\ CanRequest(o)
        /\ Enqueued("cancel", [NoRow EXCEPT !.id = o])
        /\ UNCHANGED <<dbVars, unsent, stack, cur, boot, onCancel, onPlace, counts>>
  BY DEF RequestCancel
<1> DEFINE m == [type |-> "cancel", row |-> [NoRow EXCEPT !.id = o]]
<1>2. After(o, Len(queue))
  BY <1>1, MirrorParts, CanRequestIsAfter
<1>3. m.type = "cancel" /\ m.row.id = o /\ queue' = Append(queue, m)
  BY <1>1 DEF Enqueued, NoRow
<1> HIDE DEF m
<1> QED BY <1>1, <1>2, <1>3, MirrorParts, RequestKept

LEMMA RequestUpdateMirror == Orderly /\ MirrorInv /\ RequestUpdate => MirrorKept
<1> SUFFICES ASSUME Orderly, MirrorInv, RequestUpdate PROVE MirrorKept
  OBVIOUS
<1>1. PICK o \in OrderIds, p \in Prices, q \in Quantities :
        /\ CanRequest(o)
        /\ updates < MaxUpdates
        /\ Enqueued("update", [NoRow EXCEPT !.id = o, !.price = p, !.qty = q])
        /\ UNCHANGED <<dbVars, unsent, stack, cur, boot, onCancel, onPlace>>
  BY DEF RequestUpdate
<1> DEFINE m == [type |-> "update", row |-> [NoRow EXCEPT !.id = o, !.price = p, !.qty = q]]
<1>2. After(o, Len(queue))
  BY <1>1, MirrorParts, CanRequestIsAfter
<1>3. m.type = "update" /\ m.row.id = o /\ queue' = Append(queue, m)
  BY <1>1 DEF Enqueued, NoRow
<1>4. MaxUpdates > 0
  <2>1. updates \in Nat
    BY MirrorParts DEF TypeInv, TypeOK
  <2> QED BY <1>1, <2>1, OrderBookAssumption
<1> HIDE DEF m
<1> QED BY <1>1, <1>2, <1>3, <1>4, MirrorParts, RequestKept

LEMMA RequestMarketMirror == MirrorInv /\ RequestMarket => MirrorKept
<1> SUFFICES ASSUME MirrorInv, RequestMarket PROVE MirrorKept
  OBVIOUS
<1>1. PICK x :
        /\ x.op = "SELL" => x.cost = 0 /\ x.qty > 0
        /\ Enqueued("market", x)
  <2>1. PICK u \in Users :
        \/ \E q \in MarketSells :
              Enqueued("market", [NoRow EXCEPT !.user = u, !.op = "SELL", !.qty = q])
        \/ \E c \in Costs :
              Enqueued("market", [NoRow EXCEPT !.user = u, !.op = "BUY", !.cost = c])
    BY DEF RequestMarket
  <2>2. ASSUME NEW q \in MarketSells,
               Enqueued("market", [NoRow EXCEPT !.user = u, !.op = "SELL", !.qty = q])
        PROVE  \E x : (x.op = "SELL" => x.cost = 0 /\ x.qty > 0) /\ Enqueued("market", x)
    <3> DEFINE x == [NoRow EXCEPT !.user = u, !.op = "SELL", !.qty = q]
    <3>1. x.cost = 0 /\ x.qty = q
      BY DEF NoRow
    <3>2. Enqueued("market", x)
      BY <2>2
    <3> HIDE DEF x
    <3> QED BY <3>1, <3>2, OrderBookAssumption
  <2>3. ASSUME NEW c \in Costs,
               Enqueued("market", [NoRow EXCEPT !.user = u, !.op = "BUY", !.cost = c])
        PROVE  \E x : (x.op = "SELL" => x.cost = 0 /\ x.qty > 0) /\ Enqueued("market", x)
    <3> DEFINE x == [NoRow EXCEPT !.user = u, !.op = "BUY", !.cost = c]
    <3>1. x.op = "BUY"
      BY DEF NoRow
    <3>2. Enqueued("market", x)
      BY <2>3
    <3> HIDE DEF x
    <3> QED BY <3>1, <3>2
  <2> QED BY <2>1, <2>2, <2>3
<1>2. UNCHANGED <<dbVars, unsent, stack, cur, boot, onCancel, onPlace, counts>>
  BY DEF RequestMarket
<1> DEFINE m == [type |-> "market", row |-> x]
<1>3. m.type = "market" /\ m.row = x /\ queue' = Append(queue, m)
  BY <1>1 DEF Enqueued
<1> HIDE DEF m
<1> QED BY <1>1, <1>2, <1>3, MirrorParts, RequestKept

(* place_order carries the row as it was inserted. *)
LEMMA SendPlaceOrderMirror == MirrorInv /\ SendPlaceOrder => MirrorKept
<1> SUFFICES ASSUME MirrorInv, SendPlaceOrder PROVE MirrorKept
  OBVIOUS
<1>1. PICK x \in unsent :
        /\ Enqueued("place", x)
        /\ unsent' = unsent \ {x}
        /\ UNCHANGED <<dbVars, stack, cur, boot, onCancel, onPlace, counts>>
  BY DEF SendPlaceOrder
<1> DEFINE m == [type |-> "place", row |-> x]
<1>2. m.type = "place" /\ m.row = x /\ queue' = Append(queue, m)
  BY <1>1 DEF Enqueued
<1> HIDE DEF m
<1>3. TypeInv /\ RowsInv /\ SnapshotsInv /\ RequestsInv /\ queue \in Seq(Message)
  BY MirrorParts DEF TypeInv, TypeOK
<1>4. /\ Len(queue) \in Nat /\ Len(queue') = Len(queue) + 1
      /\ \A i \in 1 .. Len(queue') : i \in 1 .. Len(queue) \/ i = Len(queue) + 1
      /\ \A i \in 1 .. Len(queue) : queue'[i] = queue[i]
      /\ queue'[Len(queue) + 1] = m
      /\ \A o, n : n \in 0 .. Len(queue) => Sent(o, n)' = Sent(o, n)
      /\ \A o, n : n = Len(queue) + 1 => (Sent(o, n)' <=> Sent(o, Len(queue)) \/ x.id = o)
  BY <1>2, <1>3, QueueLonger
<1>5. \A z : NewOrder(z)' = NewOrder(z)
  BY <1>1 DEF NewOrder, dbVars, InStack, Working
<1>6. \A o, n : n \in 0 .. Len(queue) /\ After(o, n) => After(o, n)'
  <2>1. \A o : NeverSent(o) => NeverSent(o)'
    <3>1. PICK n : n = Len(queue) + 1 /\ n = Len(queue')
      BY <1>4
    <3>2. \A o : Sent(o, n)' <=> Sent(o, Len(queue)) \/ x.id = o
      BY <1>4, <3>1
    <3>3. x.id \in Unsent /\ Unsent' \subseteq Unsent
      BY <1>1 DEF Unsent
    <3> QED BY <3>1, <3>2, <3>3 DEF NeverSent, Sent
  <2> QED BY <1>1, <1>4, <2>1 DEF After, dbVars
<1>8. \A z \in unsent : NewOrder(z) /\ z.id \notin onPlace /\ ~Sent(z.id, Len(queue))
  BY <1>3 DEF SnapshotsInv
<1>9. SnapshotsInv'
  <2>1. ASSUME NEW z \in unsent' PROVE (NewOrder(z) /\ z.id \notin onPlace /\ ~Sent(z.id, Len(queue)))'
    <3>1. PICK n : n = Len(queue) + 1 /\ n = Len(queue')
      BY <1>4
    <3>2. z \in unsent /\ z # x
      BY <1>1
    <3>3. z.id # x.id
      BY <1>8, <3>2 DEF NewOrder
    <3>4. ~Sent(z.id, n)'
      BY <1>4, <1>8, <3>1, <3>2, <3>3
    <3>5. NewOrder(z)' /\ z.id \notin onPlace'
      BY <1>1, <1>5, <1>8, <3>2
    <3> QED BY <3>1, <3>4, <3>5 DEF Sent
  <2>2. ASSUME NEW i \in 1 .. Len(queue'), queue'[i].type = "place", queue'[i].row.id \notin onPlace'
        PROVE  NewOrder(queue[i].row)'
    <3>1. CASE i \in 1 .. Len(queue)
      <4>1. PICK z : z = queue'[i].row /\ NewOrder(z)
        BY <1>1, <1>3, <1>4, <2>2, <3>1 DEF SnapshotsInv
      <4> QED BY <1>5, <4>1 DEF NewOrder, InStack, Working
    <3>2. CASE i = Len(queue) + 1
      <4>1. x = queue'[i].row /\ NewOrder(x)
        BY <1>2, <1>4, <1>8, <3>2
      <4> QED BY <1>5, <4>1 DEF NewOrder, InStack, Working
    <3> QED BY <1>4, <3>1, <3>2
  <2> QED BY <2>1, <2>2 DEF SnapshotsInv
<1>10. RequestsInv'
  <2>1. ASSUME NEW i \in 1 .. Len(queue'), queue'[i].type \in {"cancel", "update"}
        PROVE  After(queue[i].row.id, i - 1)'
    <3>1. i \in 1 .. Len(queue) /\ i - 1 \in 0 .. Len(queue)
      BY <1>2, <1>4, <2>1
    <3>2. PICK o, n : o = queue'[i].row.id /\ n = i - 1 /\ n \in 0 .. Len(queue) /\ After(o, n)
      BY <1>3, <1>4, <2>1, <3>1 DEF RequestsInv
    <3>3. After(o, n)'
      BY <1>6, <3>2
    <3> QED BY <3>2, <3>3 DEF After, Sent, NeverSent, Unsent
  <2>2. ASSUME NEW i \in 1 .. Len(queue')
        PROVE  /\ queue'[i].type = "market" /\ queue'[i].row.op = "SELL" =>
                      queue'[i].row.cost = 0 /\ queue'[i].row.qty > 0
               /\ queue'[i].type = "update" => MaxUpdates > 0
    BY <1>2, <1>3, <1>4 DEF RequestsInv
  <2> QED BY <2>1, <2>2 DEF RequestsInv
<1>11. RowsInv' /\ FinalKept
  BY <1>1, <1>3, RowsUntouched
<1>12. BookSound' /\ BootSound' /\ CurSound' /\ MatchedOnce'
  BY <1>1, MirrorParts, MemoryUntouched
<1> QED BY <1>9, <1>10, <1>11, <1>12 DEF MirrorKept

(* A new row is unknown to the worker. *)
LEMMA CreatedMirror ==
    ASSUME MirrorInv, NEW x \in Row, NEW o \in OrderIds, x.id = o,
           x.state = "OPENED", RowSound(x), Claim(x) = Refund(x),
           Free(o), CreateRow(x), unsent' \in {unsent, unsent \cup {x}},
           UNCHANGED <<queue, stack, cur, boot, onPlace>>
    PROVE  MirrorKept
<1>1. /\ TypeInv /\ RowsInv /\ SnapshotsInv /\ RequestsInv
      /\ BookSound /\ BootSound /\ CurSound /\ MatchedOnce
  BY MirrorParts
<1>2. /\ order \in [OrderIds -> Row] /\ held \in [OrderIds -> Int] /\ voided \subseteq OrderIds
      /\ matches \subseteq OrderIds \X OrderIds /\ onPlace \subseteq OrderIds
  BY <1>1 DEF TypeInv, TypeOK
<1>3. /\ order[o].state = "NONE" /\ order' = [order EXCEPT ![o] = x]
      /\ held' = [held EXCEPT ![o] = Refund(x)] /\ voided' = voided /\ matches' = matches
  BY DEF Free, CreateRow
<1>4. /\ ~InStack(stack, o) /\ ~Working(o) /\ o \notin boot /\ o \notin voided \cup onPlace
      /\ \A z \in unsent : z.id # o
      /\ ~Sent(o, Len(queue))
  BY <1>1, <1>3, StoredHaveRows DEF RowsInv, Sent
<1>5. Touches({o})
  BY <1>2, <1>3 DEF Touches, Working
<1>6. Given({o})
  BY <1>3 DEF Given, NewOrder
<1>7. RowsInv'
  <2>1. Advances(o)
    BY <1>3 DEF Advances
  <2>2. RowSound(order'[o]) /\ held'[o] >= Claim(order'[o])
    <3>1. order'[o] = x /\ held'[o] = Refund(x) /\ Refund(x) \in Nat
      BY <1>2, <1>3, RefundIsNat
    <3>2. held'[o] >= Claim(x)
      BY <3>1
    <3> QED BY <3>1, <3>2
  <2> QED BY <1>1, <1>3, <1>5, <2>1, <2>2, RowsStay
<1>8. SnapshotsInv'
  <2>1. \A z \in unsent : NewOrder(z)'
    BY <1>1, <1>5, <1>6, WaitingRows, WaitingAreSent, SnapshotStays DEF SnapshotsInv
  <2>2. NewOrder(x)'
    BY <1>2, <1>3, <1>4 DEF NewOrder, InStack, Working
  <2>3. ASSUME NEW i \in 1 .. Len(queue), queue[i].type = "place", queue[i].row.id \notin onPlace'
        PROVE  NewOrder(queue[i].row)'
    <3>1. PICK z : z = queue[i].row
      OBVIOUS
    <3>2. /\ z \in Row /\ z.id \in OrderIds /\ ~z.market /\ NewOrder(z) /\ z.id \notin onPlace'
          /\ ~NeverSent(z.id)
      BY <1>1, <2>3, <3>1, WaitingRows, WaitingAreSent DEF SnapshotsInv
    <3>3. NewOrder(z)'
      BY <1>5, <1>6, <3>2, SnapshotStays
    <3> QED BY <3>1, <3>3 DEF NewOrder, InStack, Working
  <2>4. \A i, n : Sent(i, n)' = Sent(i, n)
    BY DEF Sent
  <2>5. ASSUME NEW z \in unsent'
        PROVE  (NewOrder(z) /\ z.id \notin onPlace /\ ~Sent(z.id, Len(queue)))'
    <3>1. ~Sent(z.id, Len(queue)) /\ z.id \notin onPlace
      BY <1>1, <1>4 DEF SnapshotsInv
    <3>2. NewOrder(z)'
      BY <2>1, <2>2
    <3> QED BY <3>1, <3>2 DEF Sent
  <2> QED BY <2>3, <2>5 DEF SnapshotsInv
<1>9. RequestsInv'
  <2>1. \A n \in OrderIds : n # o => order'[n] = order[n]
    BY <1>3
  <2>2. ASSUME NEW n \in OrderIds, NEW k, n # o, After(n, k) PROVE After(n, k)'
    <3>1. NeverSent(n) => NeverSent(n)'
      BY <2>2 DEF NeverSent, Unsent, Sent
    <3> QED BY <1>3, <2>1, <2>2, <3>1 DEF After, Sent
  <2>3. \A i \in 1 .. Len(queue) : queue[i].type # "market" =>
            queue[i].row.id # o /\ queue[i].row.id \in OrderIds
    BY <1>1, <1>3, StoredHaveRows, WaitingRows
  <2>4. ASSUME NEW i \in 1 .. Len(queue), queue[i].type \in {"cancel", "update"}
        PROVE  After(queue[i].row.id, i - 1)'
    <3>1. PICK n, k : n = queue[i].row.id /\ k = i - 1 /\ n \in OrderIds /\ n # o /\ After(n, k)
      BY <1>1, <2>3, <2>4 DEF RequestsInv
    <3>2. After(n, k)'
      BY <2>2, <3>1
    <3> QED BY <3>1, <3>2 DEF After, Sent, NeverSent, Unsent
  <2> QED BY <1>1, <2>4 DEF RequestsInv
<1>10. BookSound' /\ BootSound'
  <2>1. ~InStack(stack', o)
    BY <1>4
  <2>2. boot' \subseteq boot \ {o} /\ boot \subseteq OrderIds
    BY <1>1, <1>4 DEF TypeInv, TypeOK
  <2> QED BY <1>1, <1>5, <2>1, <2>2, BookStays, BootStays
<1>11. CurSound' /\ MatchedOnce'
  <2>1. cur.phase \in {"market", "match"} => cur.obj.id # o /\ cur.obj.id \in OrderIds
    BY <1>1, <1>4 DEF Working, TypeInv, CurOK, Stored, Exists
  <2>2. \A n \in OrderIds : n # o => order'[n] = order[n]
    BY <1>3
  <2> QED BY <1>1, <1>3, <2>1, <2>2 DEF CurSound, MatchedOnce
<1>12. FinalKept
  BY <1>3 DEF FinalKept, Final
<1> QED BY <1>7, <1>8, <1>9, <1>10, <1>11, <1>12 DEF MirrorKept

(* The request of a limit order. *)
LEMMA CreateOrderMirror == MirrorInv /\ CreateOrder => MirrorKept
<1> SUFFICES ASSUME MirrorInv, CreateOrder PROVE MirrorKept
  OBVIOUS
<1>1. PICK u \in Users, op \in {"BUY", "SELL"}, p \in Prices, q \in Quantities, o \in OrderIds :
        LET x == [id |-> o, user |-> u, op |-> op, market |-> FALSE, price |-> p,
                  qty |-> q, left |-> q, cost |-> 0, state |-> "OPENED"]
        IN  /\ Room /\ Free(o)
            /\ CreateRow(x)
            /\ unsent' = unsent \cup {x}
            /\ UNCHANGED <<queue, stack, cur, boot, onCancel, onPlace, counts>>
  BY DEF CreateOrder
<1> DEFINE x == [id |-> o, user |-> u, op |-> op, market |-> FALSE, price |-> p,
                 qty |-> q, left |-> q, cost |-> 0, state |-> "OPENED"]
<1>2. /\ x.id = o /\ Free(o) /\ CreateRow(x) /\ unsent' = unsent \cup {x}
      /\ UNCHANGED <<queue, stack, cur, boot, onCancel, onPlace, counts>>
  BY <1>1
<1>3. x \in Row /\ x.state = "OPENED" /\ RowSound(x) /\ Claim(x) = Refund(x)
  <2>1. q \in Nat /\ q > 0 /\ p \in Nat
    BY OrderBookAssumption
  <2> QED BY <2>1 DEF Row, OrderIds, RowSound, MarketBuy, Claim
<1> HIDE DEF x
<1> QED BY <1>2, <1>3, CreatedMirror

(* What is delivered again was sent before. *)
LEMMA RedeliverMirror == MirrorInv /\ Redeliver => MirrorKept
<1> SUFFICES ASSUME MirrorInv, Redeliver PROVE MirrorKept
  OBVIOUS
<1>1. /\ queue # <<>> /\ queue' \in {<<Head(queue)>> \o queue, Append(queue, Head(queue))}
      /\ UNCHANGED <<dbVars, unsent, stack, cur, boot, onCancel, onPlace>>
  BY DEF Redeliver
<1>2. /\ TypeInv /\ RowsInv /\ SnapshotsInv /\ RequestsInv /\ queue \in Seq(Message)
      /\ BookSound /\ BootSound /\ CurSound /\ MatchedOnce
  BY MirrorParts DEF TypeInv, TypeOK
<1> DEFINE m == queue[1]
<1>3. Len(queue) \in Nat /\ Len(queue) >= 1 /\ Head(queue) = m
  BY <1>1, <1>2, TailQueue
(* Each message comes after at least as many of the old ones as before. *)
<1>4. /\ Len(queue') = Len(queue) + 1
      /\ \A i \in 1 .. Len(queue') : \E j \in 1 .. Len(queue) :
             /\ queue'[i] = queue[j] /\ j <= i
             /\ \A k \in 1 .. (j - 1) : \E l \in 1 .. (i - 1) : queue'[l] = queue[k]
      /\ \A k \in 1 .. Len(queue) : \E l \in 1 .. Len(queue') : queue'[l] = queue[k]
  <2>1. CASE queue' = <<m>> \o queue
    <3>1. /\ Len(queue') = Len(queue) + 1 /\ queue'[1] = m
          /\ \A i \in 2 .. Len(queue) + 1 : queue'[i] = queue[i - 1]
      BY <1>2, <2>1, <1>3
    <3>2. ASSUME NEW k \in 1 .. Len(queue) PROVE k + 1 \in 1 .. Len(queue') /\ queue'[k + 1] = queue[k]
      BY <1>3, <3>1
    <3>3. ASSUME NEW i \in 1 .. Len(queue')
          PROVE  \E j \in 1 .. Len(queue) :
                     /\ queue'[i] = queue[j] /\ j <= i
                     /\ \A k \in 1 .. (j - 1) : \E l \in 1 .. (i - 1) : queue'[l] = queue[k]
      <4>1. CASE i = 1
        <5>1. 1 \in 1 .. Len(queue) /\ queue'[i] = queue[1] /\ 1 <= i /\ 1 .. (1 - 1) = {}
          BY <1>3, <3>1, <4>1
        <5> QED BY <5>1
      <4>2. CASE i # 1
        <5>1. i - 1 \in 1 .. Len(queue) /\ queue'[i] = queue[i - 1] /\ i - 1 <= i
          BY <1>3, <3>1, <4>2
        <5>2. \A k \in 1 .. ((i - 1) - 1) : k + 1 \in 1 .. (i - 1) /\ k \in 1 .. Len(queue)
          BY <1>3, <3>1
        <5> QED BY <3>2, <5>1, <5>2
      <4> QED BY <4>1, <4>2
    <3> QED BY <3>1, <3>2, <3>3
  <2>2. CASE queue' = Append(queue, m)
    <3>1. /\ Len(queue') = Len(queue) + 1 /\ queue'[Len(queue) + 1] = m
          /\ \A i \in 1 .. Len(queue) : queue'[i] = queue[i]
      BY <1>2, <2>2, <1>3
    <3>2. ASSUME NEW k \in 1 .. Len(queue) PROVE k \in 1 .. Len(queue') /\ queue'[k] = queue[k]
      BY <1>3, <3>1
    <3>3. ASSUME NEW i \in 1 .. Len(queue')
          PROVE  \E j \in 1 .. Len(queue) :
                     /\ queue'[i] = queue[j] /\ j <= i
                     /\ \A k \in 1 .. (j - 1) : \E l \in 1 .. (i - 1) : queue'[l] = queue[k]
      <4>1. CASE i = Len(queue) + 1
        <5>1. 1 \in 1 .. Len(queue) /\ queue'[i] = queue[1] /\ 1 <= i /\ 1 .. (1 - 1) = {}
          BY <1>3, <3>1, <4>1
        <5> QED BY <5>1
      <4>2. CASE i # Len(queue) + 1
        <5>1. i \in 1 .. Len(queue) /\ queue'[i] = queue[i] /\ i <= i
          BY <1>3, <3>1, <4>2
        <5>2. \A k \in 1 .. (i - 1) : k \in 1 .. Len(queue)
          BY <1>3, <3>1
        <5> QED BY <3>2, <5>1, <5>2
      <4> QED BY <4>1, <4>2
    <3> QED BY <3>1, <3>2, <3>3
  <2> QED BY <1>1, <1>3, <2>1, <2>2
<1> HIDE DEF m
<1>5. \A x : NewOrder(x)' = NewOrder(x)
  BY <1>1 DEF NewOrder, dbVars, InStack, Working
<1>11. \A i \in 1 .. Len(queue') : \E j \in 1 .. Len(queue) : queue'[i] = queue[j]
  BY <1>4
<1>12. \A k \in 1 .. Len(queue) : \E l \in 1 .. Len(queue') : queue'[l] = queue[k]
  BY <1>4
<1>6. ASSUME NEW o PROVE Sent(o, Len(queue)) <=> Sent(o, Len(queue))'
  <2>1. Sent(o, Len(queue)) <=>
           \E k \in 1 .. Len(queue) : queue[k].type = "place" /\ queue[k].row.id = o
    BY DEF Sent
  <2>2. Sent(o, Len(queue))' <=>
           \E k \in 1 .. Len(queue') : queue'[k].type = "place" /\ queue'[k].row.id = o
    BY DEF Sent
  <2>3. ASSUME NEW k \in 1 .. Len(queue), queue[k].type = "place" /\ queue[k].row.id = o
        PROVE  \E l \in 1 .. Len(queue') : queue'[l].type = "place" /\ queue'[l].row.id = o
    <3>1. PICK l \in 1 .. Len(queue') : queue'[l] = queue[k]
      BY <1>12
    <3> QED BY <2>3, <3>1
  <2>4. ASSUME NEW k \in 1 .. Len(queue'), queue'[k].type = "place" /\ queue'[k].row.id = o
        PROVE  \E l \in 1 .. Len(queue) : queue[l].type = "place" /\ queue[l].row.id = o
    <3>1. PICK l \in 1 .. Len(queue) : queue'[k] = queue[l]
      BY <1>11
    <3> QED BY <2>4, <3>1
  <2> QED BY <2>1, <2>2, <2>3, <2>4
<1>7. SnapshotsInv'
  <2>1. ASSUME NEW x \in unsent PROVE (NewOrder(x) /\ x.id \notin onPlace /\ ~Sent(x.id, Len(queue)))'
    BY <1>1, <1>2, <1>5, <1>6 DEF SnapshotsInv
  <2>2. ASSUME NEW i \in 1 .. Len(queue'), queue'[i].type = "place", queue'[i].row.id \notin onPlace'
        PROVE  NewOrder(queue[i].row)'
    <3>1. PICK x : x = queue'[i].row /\ NewOrder(x)
      BY <1>1, <1>2, <1>11, <2>2 DEF SnapshotsInv
    <3> QED BY <1>5, <3>1 DEF NewOrder, InStack, Working
  <2> QED BY <1>1, <2>1, <2>2 DEF SnapshotsInv
<1>8. RequestsInv'
  <2>1. ASSUME NEW i \in 1 .. Len(queue'), queue'[i].type \in {"cancel", "update"}
        PROVE  After(queue[i].row.id, i - 1)'
    <3>1. PICK j \in 1 .. Len(queue) :
             /\ queue'[i] = queue[j] /\ j <= i
             /\ \A k \in 1 .. (j - 1) : \E l \in 1 .. (i - 1) : queue'[l] = queue[k]
      BY <1>4
    <3>2. PICK o : o = queue[j].row.id /\ After(o, j - 1)
      BY <1>2, <2>1, <3>1 DEF RequestsInv
    <3>3. Sent(o, j - 1) => \E l \in 1 .. (i - 1) : queue'[l].type = "place" /\ queue'[l].row.id = o
      BY <3>1 DEF Sent
    <3>4. NeverSent(o) => NeverSent(o)'
      BY <1>1, <1>6 DEF NeverSent, Unsent
    <3>5. After(o, i - 1)'
      BY <1>1, <3>2, <3>3, <3>4 DEF After, Sent, dbVars
    <3> QED BY <3>1, <3>2, <3>5 DEF After, Sent, NeverSent, Unsent
  <2>2. ASSUME NEW i \in 1 .. Len(queue')
        PROVE  /\ queue'[i].type = "market" /\ queue'[i].row.op = "SELL" =>
                      queue'[i].row.cost = 0 /\ queue'[i].row.qty > 0
               /\ queue'[i].type = "update" => MaxUpdates > 0
    BY <1>2, <1>11 DEF RequestsInv
  <2> QED BY <2>1, <2>2 DEF RequestsInv
<1>9. RowsInv' /\ FinalKept
  BY <1>1, <1>2, RowsUntouched
<1>10. BookSound' /\ BootSound' /\ CurSound' /\ MatchedOnce'
  BY <1>1, <1>2, MemoryUntouched
<1> QED BY <1>7, <1>8, <1>9, <1>10 DEF MirrorKept

(* Nothing the invariant speaks of changes. *)
LEMMA NothingMirror ==
    ASSUME MirrorInv, UNCHANGED <<dbVars, unsent, queue, stack, cur, boot, onPlace>>
    PROVE  MirrorKept
<1>1. /\ TypeInv /\ RowsInv /\ SnapshotsInv /\ RequestsInv
      /\ BookSound /\ BootSound /\ CurSound /\ MatchedOnce
  BY MirrorParts
<1>2. Touches({}) /\ Given({})
  BY <1>1, TouchesNone
<1>3. SnapshotsInv' /\ RequestsInv'
  BY <1>1, <1>2, WaitingStay
<1> QED BY <1>1, <1>3, RowsUntouched, MemoryUntouched DEF MirrorKept

LEMMA CancelKeyMirror == MirrorInv /\ CancelKeyExpires => MirrorKept
  BY NothingMirror DEF CancelKeyExpires

(* The book is loaded from the rows, and no place_order waits. *)
LEMMA RestartedMirror ==
    ASSUME MirrorInv, unsent = {}, \A i \in 1 .. Len(queue) : queue[i].type # "place",
           stack' = [o \in OrderIds |-> NoEntry], cur' = Idle,
           \A o \in boot' : order[o].state = "OPENED",
           UNCHANGED <<dbVars, unsent, queue, onPlace>>
    PROVE  MirrorKept
<1>1. RowsInv /\ RequestsInv
  BY MirrorParts
<1>2. RowsInv' /\ FinalKept
  BY <1>1, RowsUntouched
<1>3. SnapshotsInv'
  BY DEF SnapshotsInv
<1>4. \A o, n : After(o, n)' = After(o, n)
  BY DEF After, Sent, NeverSent, Unsent, dbVars
<1>5. RequestsInv'
  BY <1>1, <1>4 DEF RequestsInv, dbVars
<1>6. CurSound' /\ MatchedOnce' /\ \A o : ~Working(o)'
  BY IdleIsSound
<1>7. BookSound'
  BY DEF BookSound, InStack
<1>8. BootSound'
  BY <1>6 DEF BootSound, dbVars
<1> QED BY <1>2, <1>3, <1>5, <1>6, <1>7, <1>8 DEF MirrorKept

LEMMA RestartMirror == Orderly /\ MirrorInv /\ Restart => MirrorKept
<1> SUFFICES ASSUME Orderly, MirrorInv, Restart PROVE MirrorKept
  OBVIOUS
<1>1. /\ unsent = {} /\ \A i \in 1 .. Len(queue) : queue[i].type # "place"
      /\ stack' = [o \in OrderIds |-> NoEntry]
      /\ cur' = Idle
      /\ \A o \in boot' : order[o].state = "OPENED"
      /\ UNCHANGED <<dbVars, unsent, queue, onPlace>>
  BY DEF Restart, Orderly
<1> QED BY <1>1, RestartedMirror

(* An open order was never matched with one that rests. *)
LEMMA MatchingIsNew ==
    ASSUME RowsInv', NEW x, NEW st,
           x.id \notin voided' => order'[x.id].state = "OPENED",
           \A r \in OrderIds : InStack(st, r) /\ r \notin voided' => order'[r].state = "OPENED"
    PROVE  \A r \in Matching(x, st) : {r, x.id} \cap voided' = {} =>
               <<x.id, r>> \notin matches' /\ <<r, x.id>> \notin matches'
<1>1. ASSUME NEW r \in Matching(x, st), {r, x.id} \cap voided' = {}
      PROVE  <<x.id, r>> \notin matches' /\ <<r, x.id>> \notin matches'
  <2>1. r \in OrderIds /\ InStack(st, r)
    BY MatchingAreOffers
  <2>2. order'[x.id].state = "OPENED" /\ order'[r].state = "OPENED"
    BY <1>1, <2>1
  <2>3. \A m \in matches' : ~(m[1] \in {x.id, r} /\ m[2] \in {x.id, r})
    <3> SUFFICES ASSUME NEW m \in matches', m[1] \in {x.id, r}, m[2] \in {x.id, r} PROVE FALSE
      OBVIOUS
    <3>1. PairEnds(m)'
      BY DEF RowsInv
    <3> QED BY <1>1, <2>2, <3>1 DEF PairEnds
  <2> QED BY <2>3
<1> QED BY <1>1

(* Removing an order whose key is its price empties the entry. *)
LEMMA RemovedIsGone ==
    ASSUME NEW st \in Stacks, NEW o \in OrderIds, InStack(st, o) => st[o].key = st[o].row.price
    PROVE  ~InStack(Removed(st, o), o) /\ \A n \in OrderIds \ {o} : Removed(st, o)[n] = st[n]
<1>1. NoEntry.key = NoEntry.row.price
  BY DEF NoEntry, NoRow
<1>2. st[o].key = st[o].row.price
  BY <1>1 DEF InStack
<1> QED BY <1>2 DEF Removed, InStack, Stacks

(* OrderProcessor.process books the order, or finds orders it was never *)
(* matched with.                                                        *)
LEMMA ProcessIsSound ==
    ASSUME BookSound, BootSound, cur = Idle, RowsInv',
           NEW x \in Row, x.id \in OrderIds, x.state = "OPENED", order'[x.id] = x,
           Touches({x.id}), voided' = voided, boot' \subseteq boot, x.id \notin boot',
           boot \subseteq OrderIds,
           NEW st \in Stacks, ~InStack(st, x.id), \A o \in OrderIds \ {x.id} : st[o] = stack[o],
           Process(x, st)
    PROVE  BookSound' /\ CurSound' /\ MatchedOnce'
<1>1. CASE stack' = Added(st, x) /\ cur' = Idle
  <2>1. stack'[x.id] = [row |-> x, key |-> x.price]
    BY <1>1 DEF Added, Stacks
  <2>2. ~Working(x.id)' /\ CurSound' /\ MatchedOnce'
    BY <1>1, IdleIsSound
  <2>3. RestsSound(x.id)'
    BY <2>1, <2>2 DEF RestsSound, Disturbed, Row
  <2> QED BY <2>2, <2>3, BookStays, NotRepricing
<1>2. CASE stack' = st /\ cur' = [phase |-> "match", obj |-> x, todo |-> Matching(x, st)]
  <2>1. ~InStack(stack', x.id)
    BY <1>2
  <2>2. BookSound'
    BY <2>1, BookStays, NotRepricing
  <2>3. CurSound'
    BY <1>2 DEF CurSound
  <2>4. ASSUME NEW r \in OrderIds, InStack(st, r), r \notin voided' PROVE order'[r].state = "OPENED"
    BY <1>2, <2>2, <2>4 DEF BookSound, RestsSound
  <2>5. \A r \in Matching(x, st) : {r, x.id} \cap voided' = {} =>
            <<x.id, r>> \notin matches' /\ <<r, x.id>> \notin matches'
    BY <2>4, MatchingIsNew
  <2>6. MatchedOnce'
    BY <1>2, <2>5 DEF MatchedOnce
  <2> QED BY <2>2, <2>3, <2>6
<1> QED BY <1>1, <1>2 DEF Process

(* What a task finds. *)
LEMMA TaskFinds ==
    ASSUME MirrorInv, NEW type, Take(type)
    PROVE  /\ cur = Idle /\ boot = {} /\ queue # <<>> /\ queue' = Tail(queue)
           /\ unsent' = unsent /\ boot' = boot
           /\ Head(queue) = queue[1] /\ queue[1].type = type /\ 1 \in 1 .. Len(queue)
           /\ Head(queue).row \in Row
           /\ type # "market" => /\ queue[1].row.id \in OrderIds
                                 /\ order[queue[1].row.id].id = queue[1].row.id
                                 /\ order[queue[1].row.id].state # "NONE"
           /\ type \in {"cancel", "update"} => queue[1].row.id \in onPlace \cup voided
                                              \/ order[queue[1].row.id].market
                                              \/ NeverSent(queue[1].row.id)
<1>1. /\ TypeInv /\ RequestsInv /\ queue \in Seq(Message)
      /\ cur = Idle /\ boot = {} /\ queue # <<>> /\ queue' = Tail(queue)
      /\ unsent' = unsent /\ boot' = boot /\ Head(queue).type = type
  BY MirrorParts DEF TypeInv, TypeOK, Take
<1>2. Head(queue) = queue[1] /\ 1 \in 1 .. Len(queue)
  BY <1>1, TailQueue
<1>3. Head(queue).row \in Row
  BY <1>1, TakeKeepsProcesses
<1>4. type # "market" => /\ queue[1].row.id \in OrderIds
                         /\ order[queue[1].row.id].id = queue[1].row.id
                         /\ order[queue[1].row.id].state # "NONE"
  BY <1>1, <1>2, StoredHaveRows DEF TypeInv, QueueOK, MessageOK, Exists
<1>5. type \in {"cancel", "update"} => After(queue[1].row.id, 1 - 1)
  BY <1>1, <1>2 DEF RequestsInv
<1>6. \A o : ~Sent(o, 1 - 1)
  BY DEF Sent
<1> QED BY <1>1, <1>2, <1>3, <1>4, <1>5, <1>6 DEF After

(* Where Process leaves the other orders. *)
LEMMA ProcessTouches ==
    ASSUME NEW x, NEW st \in Stacks, Process(x, st)
    PROVE  /\ \A o \in OrderIds : o # x.id => stack'[o] = st[o]
           /\ \A o : o # x.id => ~Working(o)'
<1>1. \A o \in OrderIds : o # x.id => Added(st, x)[o] = st[o]
  BY DEF Added, Stacks
<1>2. \A o \in OrderIds : o # x.id => stack'[o] = st[o]
  BY <1>1 DEF Process
<1>3. cur' = Idle \/ cur'.obj = x
  BY DEF Process
<1>4. \A o : o # x.id => ~Working(o)'
  BY <1>3 DEF Working, Idle
<1> QED BY <1>2, <1>4

(* The order is processed when it is given for the first time. *)
LEMMA PlaceOrderMirror == MirrorInv /\ PlaceOrderTask => MirrorKept
<1> SUFFICES ASSUME MirrorInv, PlaceOrderTask PROVE MirrorKept
  OBVIOUS
<1> DEFINE x == Head(queue).row
<1>1. /\ Take("place") /\ UNCHANGED <<dbVars, onCancel>>
      /\ onPlace' = onPlace \cup {x.id}
      /\ IF x.id \in onPlace THEN UNCHANGED <<stack, cur>> ELSE Process(x, stack)
  BY DEF PlaceOrderTask
<1>2. /\ TypeInv /\ RowsInv /\ SnapshotsInv /\ RequestsInv
      /\ BookSound /\ BootSound /\ CurSound /\ MatchedOnce
  BY MirrorParts
<1>3. /\ cur = Idle /\ boot = {} /\ queue # <<>> /\ queue' = Tail(queue)
      /\ unsent' = unsent /\ boot' = boot
      /\ x = queue[1].row /\ queue[1].type = "place" /\ 1 \in 1 .. Len(queue)
      /\ x \in Row /\ x.id \in OrderIds /\ order[x.id].state # "NONE"
  BY <1>1, TaskFinds
<1>4. stack \in Stacks /\ voided \subseteq OrderIds /\ matches \subseteq OrderIds \X OrderIds
      /\ onPlace \subseteq OrderIds
  BY <1>2 DEF TypeInv, TypeOK, Stacks
<1>5. x.id \notin onPlace => NewOrder(x)
  BY <1>2, <1>3 DEF SnapshotsInv
<1> HIDE DEF x
<1>6. RowsInv' /\ FinalKept
  BY <1>1, <1>2, <1>3, RowsUntouched
<1>7. Touches({x.id})
  <2>1. \A o \in OrderIds \ {x.id} : stack'[o] = stack[o] /\ (Working(o)' => Working(o))
    BY <1>1, <1>4, ProcessTouches DEF Working
  <2> QED BY <1>1, <1>3, <1>4, <2>1 DEF Touches, dbVars
<1>8. Given({x.id})
  BY <1>1 DEF Given
<1>9. SnapshotsInv' /\ RequestsInv'
  <2>1. StaysMarket(x.id)
    BY <1>1, <1>3 DEF StaysMarket, dbVars
  <2> QED BY <1>1, <1>2, <1>3, <1>7, <1>8, <2>1, WaitingTaken
<1>10. BookSound' /\ BootSound' /\ CurSound' /\ MatchedOnce'
  <2>1. BootSound'
    BY <1>3 DEF BootSound
  <2>2. CASE x.id \in onPlace
    BY <1>1, <1>2, <1>3, <2>2, MemoryUntouched
  <2>3. CASE x.id \notin onPlace
    <3>1. x.state = "OPENED" /\ order'[x.id] = x /\ ~InStack(stack, x.id) /\ voided' = voided
      BY <1>1, <1>5, <2>3 DEF NewOrder, dbVars
    <3> QED BY <1>1, <1>2, <1>3, <1>4, <1>6, <1>7, <2>1, <2>3, <3>1, ProcessIsSound
  <2> QED BY <2>2, <2>3
<1> QED BY <1>6, <1>9, <1>10 DEF MirrorKept

(* Cancelling the object of a row that is open. *)
LEMMA CancelIsSound ==
    ASSUME TypeInv, RowsInv, NEW x \in Row, x.id \in OrderIds,
           x.id \notin voided => x = order[x.id] /\ x.state = "OPENED",
           CancelRow(x)
    PROVE  /\ Advances(x.id) /\ StaysMarket(x.id)
           /\ x.id \notin voided' => RowSound(order'[x.id]) /\ held'[x.id] >= Claim(order'[x.id])
           /\ FinalKept
           /\ order'[x.id].state # "NONE"
           /\ \A o \in OrderIds \ {x.id} : order'[o] = order[o] /\ held'[o] = held[o]
           /\ voided' = voided /\ matches' = matches
<1>1. /\ order \in [OrderIds -> Row] /\ held \in [OrderIds -> Int]
  BY DEF TypeInv, TypeOK
<1> DEFINE y == [x EXCEPT !.state = "CANCELED"]
<1>2. /\ order' = [order EXCEPT ![x.id] = y] /\ held' = [held EXCEPT ![x.id] = @ - Refund(x)]
      /\ voided' = voided /\ matches' = matches
  BY DEF CancelRow
<1>3. /\ y.state = "CANCELED" /\ y.market = x.market /\ y.op = x.op /\ y.cost = x.cost
      /\ Refund(x) \in Nat
  BY RefundIsNat DEF Row
<1> HIDE DEF y
<1>4. order'[x.id] = y /\ held'[x.id] = held[x.id] - Refund(x)
  BY <1>1, <1>2
<1>5. Advances(x.id)
  BY <1>3, <1>4 DEF Advances
<1>6. x.id \notin voided => x = order[x.id] /\ x.state = "OPENED"
  OBVIOUS
<1>7. StaysMarket(x.id)
  BY <1>2, <1>3, <1>4, <1>6 DEF StaysMarket
<1>8. ASSUME x.id \notin voided' PROVE RowSound(y) /\ held'[x.id] >= Claim(y)
  <2>1. RowSound(x) /\ held[x.id] >= Claim(x)
    BY <1>2, <1>6, <1>8 DEF RowsInv
  <2>2. Claim(x) = Refund(x) /\ Claim(y) = 0
    BY <1>2, <1>3, <1>6, <1>8 DEF Claim
  <2>3. RowSound(y)
    BY <1>2, <1>3, <1>6, <1>8, <2>1 DEF RowSound, MarketBuy
  <2> QED BY <1>1, <1>3, <1>4, <2>1, <2>2, <2>3
<1>9. FinalKept
  BY <1>2, <1>6 DEF FinalKept, Final
<1>10. \A o \in OrderIds \ {x.id} : order'[o] = order[o] /\ held'[o] = held[o]
  BY <1>1, <1>2
<1>11. order'[x.id].state # "NONE"
  BY <1>3, <1>4
<1> QED BY <1>2, <1>4, <1>5, <1>7, <1>8, <1>9, <1>10, <1>11

(* A cancelled order leaves the book. *)
LEMMA CancelOrderMirror == MirrorInv /\ CancelOrderTask => MirrorKept
<1> SUFFICES ASSUME MirrorInv, CancelOrderTask PROVE MirrorKept
  OBVIOUS
<1> DEFINE x == order[Head(queue).row.id]
<1>1. /\ Take("cancel") /\ UNCHANGED <<cur, onPlace>>
      /\ \/ x.id \in onCancel /\ UNCHANGED <<dbVars, stack, onCancel>>
         \/ /\ stack' = Removed(stack, x.id)
            /\ IF x.state = "OPENED" THEN CancelRow(x) ELSE UNCHANGED dbVars
  BY DEF CancelOrderTask
<1>2. /\ TypeInv /\ RowsInv /\ SnapshotsInv /\ RequestsInv
      /\ BookSound /\ BootSound /\ CurSound /\ MatchedOnce
  BY MirrorParts
<1>3. /\ cur = Idle /\ boot = {} /\ queue # <<>> /\ queue' = Tail(queue)
      /\ unsent' = unsent /\ boot' = boot
      /\ Head(queue) = queue[1] /\ queue[1].type = "cancel"
      /\ queue[1].row.id \in OrderIds
      /\ order[queue[1].row.id].id = queue[1].row.id
      /\ order[queue[1].row.id].state # "NONE"
      /\ queue[1].row.id \in onPlace \cup voided \/ order[queue[1].row.id].market \/ NeverSent(queue[1].row.id)
  BY <1>1, TaskFinds
<1>4. /\ stack \in Stacks /\ voided \subseteq OrderIds /\ matches \subseteq OrderIds \X OrderIds
      /\ onPlace \subseteq OrderIds /\ order \in [OrderIds -> Row]
  BY <1>2 DEF TypeInv, TypeOK, Stacks
<1>5. /\ x = order[x.id] /\ x.id \in OrderIds /\ x \in Row /\ x.state # "NONE"
      /\ x.id \in onPlace \cup voided \/ x.market \/ NeverSent(x.id)
  BY <1>3, <1>4
<1>6. InStack(stack, x.id) => stack[x.id].key = stack[x.id].row.price
  BY <1>2, <1>5 DEF BookSound, RestsSound
<1> HIDE DEF x
<1>7. CASE UNCHANGED <<dbVars, stack, onCancel>>
  <2>1. Touches({}) /\ Given({})
    BY <1>1, <1>2, <1>3, <1>7, TouchesNone
  <2>2. SnapshotsInv' /\ RequestsInv'
    BY <1>1, <1>2, <1>3, <2>1, WaitingTaken
  <2>3. RowsInv' /\ FinalKept
    BY <1>1, <1>2, <1>7, RowsUntouched
  <2> QED BY <1>1, <1>2, <1>3, <1>7, <2>2, <2>3, MemoryUntouched DEF MirrorKept
<1>8. CASE /\ stack' = Removed(stack, x.id)
           /\ IF x.state = "OPENED" THEN CancelRow(x) ELSE UNCHANGED dbVars
  <2>1. ~InStack(stack', x.id) /\ \A n \in OrderIds \ {x.id} : stack'[n] = stack[n]
    BY <1>4, <1>5, <1>6, <1>8, RemovedIsGone
  <2>2. /\ Advances(x.id) /\ StaysMarket(x.id)
        /\ x.id \notin voided' => RowSound(order'[x.id]) /\ held'[x.id] >= Claim(order'[x.id])
        /\ FinalKept
        /\ order'[x.id].state # "NONE"
        /\ \A o \in OrderIds \ {x.id} : order'[o] = order[o] /\ held'[o] = held[o]
        /\ voided' = voided /\ matches' = matches
    <3>1. CASE CancelRow(x) /\ x.state = "OPENED"
      BY <1>2, <1>5, <3>1, CancelIsSound
    <3>2. CASE UNCHANGED dbVars
      <4>1. order' = order /\ held' = held /\ voided' = voided /\ matches' = matches
        BY <3>2 DEF dbVars
      <4>2. Advances(x.id) /\ StaysMarket(x.id) /\ FinalKept
        BY <1>5, <4>1 DEF Advances, StaysMarket, FinalKept
      <4>3. x.id \notin voided => RowSound(order[x.id]) /\ held[x.id] >= Claim(order[x.id])
        BY <1>2, <1>5 DEF RowsInv
      <4> QED BY <1>5, <4>1, <4>2, <4>3
    <3> QED BY <1>8, <3>1, <3>2
  <2>3. Touches({x.id})
    BY <1>1, <1>3, <1>4, <1>5, <2>1, <2>2 DEF Touches, Working
  <2>4. Given({x.id})
    BY <1>1, <1>5 DEF Given, NewOrder
  <2>5. RowsInv'
    BY <1>1, <1>2, <2>2, <2>3, RowsStay
  <2>6. SnapshotsInv' /\ RequestsInv'
    BY <1>1, <1>2, <1>3, <2>2, <2>3, <2>4, WaitingTaken
  <2>7. BookSound' /\ BootSound'
    BY <1>2, <1>3, <2>1, <2>3, BookStays, NotRepricing, BootStays
  <2>8. CurSound' /\ MatchedOnce'
    BY <1>1, <1>3, IdleIsSound
  <2> QED BY <2>2, <2>5, <2>6, <2>7, <2>8 DEF MirrorKept
<1> QED BY <1>1, <1>7, <1>8

(* An open row is processed when the worker starts. *)
LEMMA LoadOpenedOrderMirror == MirrorInv /\ LoadOpenedOrder => MirrorKept
<1> SUFFICES ASSUME MirrorInv, LoadOpenedOrder PROVE MirrorKept
  OBVIOUS
<1>1. PICK o \in boot :
        /\ cur = Idle
        /\ boot' = boot \ {o}
        /\ IF order[o].market
           THEN /\ cur' = [phase |-> "market", obj |-> order[o], todo |-> {}]
                /\ UNCHANGED stack
           ELSE Process(order[o], stack)
        /\ UNCHANGED <<dbVars, unsent, queue, onCancel, onPlace, counts>>
  BY DEF LoadOpenedOrder
<1>2. /\ TypeInv /\ RowsInv /\ SnapshotsInv /\ RequestsInv
      /\ BookSound /\ BootSound /\ CurSound /\ MatchedOnce
  BY MirrorParts
<1>3. /\ stack \in Stacks /\ voided \subseteq OrderIds /\ matches \subseteq OrderIds \X OrderIds
      /\ onPlace \subseteq OrderIds /\ order \in [OrderIds -> Row] /\ boot \subseteq OrderIds
  BY <1>2 DEF TypeInv, TypeOK, Stacks
<1> DEFINE x == order[o]
<1>4. x.id = o /\ x \in Row /\ o \in OrderIds
  BY <1>2, <1>3 DEF TypeInv, Exists
<1>5. x.state = "OPENED" /\ ~Working(o) /\ ~InStack(stack, o)
  BY <1>1, <1>2, <1>4, NotRepricing DEF BootSound, BookSound, RestsSound
<1>6. order[o] = x /\ order'[o] = x
  BY <1>1 DEF dbVars
<1> HIDE DEF x
<1>7. RowsInv' /\ FinalKept
  BY <1>1, <1>2, RowsUntouched
<1>8. /\ \A n \in OrderIds \ {o} : stack'[n] = stack[n] /\ ~Working(n)'
  <2>1. CASE x.market
    BY <1>1, <1>4, <1>6, <2>1 DEF Working
  <2>2. CASE ~x.market
    BY <1>1, <1>3, <1>4, <1>6, <2>2, ProcessTouches
  <2> QED BY <2>1, <2>2
<1>9. Touches({o})
  BY <1>1, <1>3, <1>4, <1>5, <1>6, <1>8 DEF Touches, dbVars
<1>10. Given({o})
  BY DEF Given, NewOrder
<1>11. SnapshotsInv' /\ RequestsInv'
  <2>1. StaysMarket(o)
    BY <1>5, <1>6 DEF StaysMarket
  <2> QED BY <1>1, <1>2, <1>9, <1>10, <2>1, WaitingStay
<1>12. BootSound'
  BY <1>1, <1>2, <1>3, <1>9, BootStays
<1>13. BookSound' /\ CurSound' /\ MatchedOnce'
  <2>1. CASE x.market
    <3>1. cur' = [phase |-> "market", obj |-> x, todo |-> {}] /\ stack' = stack
      BY <1>1, <1>6, <2>1
    <3>2. CurSound' /\ MatchedOnce'
      BY <1>4, <1>5, <1>6, <2>1, <3>1 DEF CurSound, MatchedOnce
    <3> QED BY <1>1, <1>2, <1>5, <1>9, <3>1, <3>2, BookStays, NotRepricing
  <2>2. CASE ~x.market
    <3>1. Process(x, stack) /\ voided' = voided /\ boot' \subseteq boot /\ o \notin boot'
      BY <1>1, <1>6, <2>2 DEF dbVars
    <3> QED BY <1>1, <1>2, <1>3, <1>4, <1>5, <1>6, <1>7, <1>9, <3>1, ProcessIsSound
  <2> QED BY <2>1, <2>2
<1> QED BY <1>7, <1>11, <1>12, <1>13 DEF MirrorKept

(* market_execute matches with orders it was never matched with, or cancels. *)
LEMMA MarketExecuteMirror == MirrorInv /\ MarketExecute => MirrorKept
<1> SUFFICES ASSUME MirrorInv, MarketExecute PROVE MirrorKept
  OBVIOUS
<1> DEFINE x == cur.obj
<1>1. /\ cur.phase = "market"
      /\ \/ /\ cur' = [cur EXCEPT !.phase = "match", !.todo = Matching(x, stack)]
            /\ UNCHANGED dbVars
         \/ CancelRow(x) /\ cur' = Idle
      /\ UNCHANGED <<unsent, queue, stack, boot, onCancel, onPlace, counts>>
  BY DEF MarketExecute
<1>2. /\ TypeInv /\ RowsInv /\ SnapshotsInv /\ RequestsInv
      /\ BookSound /\ BootSound /\ CurSound /\ MatchedOnce
  BY MirrorParts
<1>3. /\ voided \subseteq OrderIds /\ matches \subseteq OrderIds \X OrderIds
      /\ onPlace \subseteq OrderIds /\ boot \subseteq OrderIds /\ cur \in Works
  BY <1>2 DEF TypeInv, TypeOK, Works
<1>4. x \in Row /\ x.id \in OrderIds /\ order[x.id].state # "NONE" /\ Working(x.id)
  BY <1>1, <1>2, <1>3, StoredHaveRows DEF TypeInv, CurOK, Stored, Exists, Works, Working
<1>5. x.id \notin voided => x = order[x.id] /\ x.state = "OPENED"
  BY <1>1, <1>2 DEF CurSound
<1>6. ~InStack(stack, x.id) /\ x.id \notin boot
  BY <1>2, <1>4 DEF BookSound, RestsSound, BootSound
<1>7. Given({x.id})
  BY <1>4 DEF Given, NewOrder
<1>8. CASE /\ cur' = [cur EXCEPT !.phase = "match", !.todo = Matching(x, stack)]
           /\ UNCHANGED dbVars
  <2>1. cur' = [phase |-> "match", obj |-> x, todo |-> Matching(x, stack)]
    BY <1>3, <1>8 DEF Works
  <2> HIDE DEF x
  <2>2. RowsInv' /\ FinalKept
    BY <1>1, <1>2, <1>8, RowsUntouched
  <2>3. Touches({x.id})
    BY <1>1, <1>3, <1>4, <1>8, <2>1 DEF Touches, dbVars, Working
  <2>4. SnapshotsInv' /\ RequestsInv'
    <3>1. StaysMarket(x.id)
      BY <1>4, <1>8 DEF StaysMarket, dbVars
    <3> QED BY <1>1, <1>2, <1>7, <2>3, <3>1, WaitingStay
  <2>5. BookSound' /\ BootSound'
    BY <1>1, <1>2, <1>3, <1>6, <2>3, BookStays, BootStays
  <2>6. CurSound'
    BY <1>1, <1>2, <1>5, <1>8, <2>1 DEF CurSound, dbVars
  <2>7. MatchedOnce'
    <3>1. x.id \notin voided' => order'[x.id].state = "OPENED"
      BY <1>5, <1>8 DEF dbVars
    <3>2. ASSUME NEW r \in OrderIds, InStack(stack, r), r \notin voided' PROVE order'[r].state = "OPENED"
      BY <1>1, NotRepricing, <1>2, <1>8, <3>2 DEF BookSound, RestsSound, dbVars
    <3>3. \A r \in Matching(x, stack) : {r, x.id} \cap voided' = {} =>
              <<x.id, r>> \notin matches' /\ <<r, x.id>> \notin matches'
      BY <2>2, <3>1, <3>2, MatchingIsNew
    <3> QED BY <2>1, <3>3 DEF MatchedOnce
  <2> QED BY <2>2, <2>4, <2>5, <2>6, <2>7 DEF MirrorKept
<1>9. CASE CancelRow(x) /\ cur' = Idle
  <2> HIDE DEF x
  <2>1. /\ Advances(x.id) /\ StaysMarket(x.id)
        /\ x.id \notin voided' => RowSound(order'[x.id]) /\ held'[x.id] >= Claim(order'[x.id])
        /\ FinalKept
        /\ order'[x.id].state # "NONE"
        /\ \A o \in OrderIds \ {x.id} : order'[o] = order[o] /\ held'[o] = held[o]
        /\ voided' = voided /\ matches' = matches
    BY <1>2, <1>4, <1>5, <1>9, CancelIsSound
  <2>2. CurSound' /\ MatchedOnce' /\ \A o : ~Working(o)'
    BY <1>9, IdleIsSound
  <2>3. Touches({x.id})
    BY <1>1, <1>3, <1>4, <2>1, <2>2 DEF Touches
  <2>4. RowsInv'
    BY <1>1, <1>2, <2>1, <2>3, RowsStay
  <2>5. SnapshotsInv' /\ RequestsInv'
    BY <1>1, <1>2, <1>7, <2>1, <2>3, WaitingStay
  <2>6. BookSound' /\ BootSound'
    BY <1>1, <1>2, <1>3, <1>6, <2>3, BookStays, BootStays
  <2> QED BY <2>1, <2>2, <2>4, <2>5, <2>6 DEF MirrorKept
<1> QED BY <1>1, <1>8, <1>9

(* A market order's row is inserted and processed at once. *)
LEMMA MarketOrderMirror == MirrorInv /\ MarketOrderTask => MirrorKept
<1> SUFFICES ASSUME MirrorInv, MarketOrderTask PROVE MirrorKept
  OBVIOUS
<1> DEFINE m == Head(queue).row
<1>1. PICK o \in OrderIds :
        LET x == [m EXCEPT !.id = o, !.market = TRUE, !.left = m.qty, !.state = "OPENED"]
        IN  /\ Free(o)
            /\ \/ UNCHANGED <<dbVars, cur>>
               \/ CreateRow(x) /\ cur' = [phase |-> "market", obj |-> x, todo |-> {}]
  BY DEF MarketOrderTask
<1> DEFINE x == [m EXCEPT !.id = o, !.market = TRUE, !.left = m.qty, !.state = "OPENED"]
<1>2. Take("market") /\ UNCHANGED <<stack, onCancel, onPlace>>
  BY DEF MarketOrderTask
<1>3. /\ cur = Idle /\ boot = {} /\ queue # <<>> /\ queue' = Tail(queue)
      /\ unsent' = unsent /\ boot' = boot
      /\ Head(queue) = queue[1] /\ queue[1].type = "market" /\ 1 \in 1 .. Len(queue) /\ m \in Row
  BY <1>2, TaskFinds
<1>4. /\ TypeInv /\ RowsInv /\ SnapshotsInv /\ RequestsInv
      /\ BookSound /\ BootSound /\ CurSound /\ MatchedOnce
  BY MirrorParts
<1>5. /\ voided \subseteq OrderIds /\ matches \subseteq OrderIds \X OrderIds
      /\ onPlace \subseteq OrderIds /\ boot \subseteq OrderIds
      /\ order \in [OrderIds -> Row] /\ held \in [OrderIds -> Int]
  BY <1>4 DEF TypeInv, TypeOK
<1>6. order[o].state = "NONE"
  BY <1>1 DEF Free
<1>7. \/ UNCHANGED <<dbVars, cur>>
      \/ CreateRow(x) /\ cur' = [phase |-> "market", obj |-> x, todo |-> {}]
  BY <1>1
<1>8. m.op = "SELL" => m.cost = 0 /\ m.qty > 0
  BY <1>3, <1>4 DEF RequestsInv
<1> HIDE DEF m
<1>9. /\ x \in Row /\ x.id = o /\ x.market /\ x.state = "OPENED" /\ x.op = m.op /\ x.cost = m.cost
      /\ x.left = m.qty
  <2>1. m.qty \in Nat /\ o \in 0 .. MaxOrders
    BY <1>3, RowFields DEF OrderIds
  <2> QED BY <1>3, <2>1 DEF Row
<1> HIDE DEF x
<1>10. CASE UNCHANGED <<dbVars, cur>>
  <2>1. Touches({}) /\ Given({})
    BY <1>2, <1>3, <1>4, <1>10, TouchesNone
  <2>2. SnapshotsInv' /\ RequestsInv'
    BY <1>2, <1>3, <1>4, <2>1, WaitingTaken
  <2>3. RowsInv' /\ FinalKept
    BY <1>2, <1>4, <1>10, RowsUntouched
  <2> QED BY <1>2, <1>3, <1>4, <1>10, <2>2, <2>3, MemoryUntouched DEF MirrorKept
<1>11. CASE CreateRow(x) /\ cur' = [phase |-> "market", obj |-> x, todo |-> {}]
  <2>1. /\ order' = [order EXCEPT ![o] = x] /\ held' = [held EXCEPT ![o] = Refund(x)]
        /\ voided' = voided /\ matches' = matches
    BY <1>9, <1>11 DEF CreateRow
  <2>2. ~InStack(stack, o) /\ o \notin voided
    BY <1>4, <1>6, StoredHaveRows DEF RowsInv
  <2>3. Touches({o})
    BY <1>2, <1>3, <1>5, <1>9, <1>11, <2>1 DEF Touches, Working
  <2>4. Given({o})
    BY <1>6 DEF Given, NewOrder
  <2>5. Advances(o) /\ StaysMarket(o)
    BY <1>5, <1>6, <1>9, <2>1 DEF Advances, StaysMarket
  <2>6. RowSound(order'[o]) /\ held'[o] >= Claim(order'[o])
    <3>1. order'[o] = x /\ held'[o] = Refund(x) /\ Refund(x) \in Nat
      BY <1>5, <1>9, <2>1, RefundIsNat
    <3>2. RowSound(x)
      BY <1>8, <1>9, RowFields DEF RowSound, MarketBuy
    <3>3. Claim(x) = Refund(x)
      BY <1>9 DEF Claim
    <3> QED BY <3>1, <3>2, <3>3
  <2>7. RowsInv'
    BY <1>2, <1>4, <2>1, <2>3, <2>5, <2>6, RowsStay
  <2>8. SnapshotsInv' /\ RequestsInv'
    BY <1>2, <1>3, <1>4, <2>3, <2>4, <2>5, WaitingTaken
  <2>9. BookSound' /\ BootSound'
    BY <1>2, <1>3, <1>4, <1>5, <2>2, <2>3, BookStays, NotRepricing, BootStays
  <2>10. CurSound' /\ MatchedOnce'
    BY <1>5, <1>9, <1>11, <2>1 DEF CurSound, MatchedOnce
  <2>11. FinalKept
    BY <1>6, <2>1 DEF FinalKept, Final
  <2> QED BY <2>7, <2>8, <2>9, <2>10, <2>11 DEF MirrorKept
<1> QED BY <1>7, <1>10, <1>11

(* The hold follows what an update charges. *)
LEMMA UpdateIsCovered ==
    ASSUME NEW x \in Row, NEW m \in Row, NEW y, y = Updated(x, m), y \in Row,
           x.state = "OPENED", ~x.market, RowSound(x), y = x \/ y.left > 0,
           NEW h \in Int, h >= Claim(x)
    PROVE  /\ RowSound(y) /\ h + Charge(x, y) >= Claim(y)
           /\ y.state = "OPENED" /\ ~y.market
<1>1. /\ y.op = x.op /\ y.market = x.market /\ y.cost = x.cost /\ y.state = x.state
      /\ y.qty = m.qty /\ y.left = m.qty - (x.qty - x.left)
  <2> DEFINE left == m.qty - (x.qty - x.left)
  <2>1. y = [x EXCEPT !.price = m.price, !.qty = m.qty, !.left = left]
    BY DEF Updated
  <2> HIDE DEF left
  <2>2. y = [id |-> x.id, user |-> x.user, op |-> x.op, market |-> x.market, price |-> m.price,
             qty |-> m.qty, left |-> left, cost |-> x.cost, state |-> x.state]
    BY <2>1, RowForUpdate
  <2>3. /\ y.op = x.op /\ y.market = x.market /\ y.cost = x.cost /\ y.state = x.state
        /\ y.qty = m.qty /\ y.left = left
    BY <2>2
  <2> QED BY <2>3 DEF left
<1>2. RowSound(y)
  BY <1>1 DEF RowSound, MarketBuy
<1>3. Claim(x) = Refund(x) /\ Claim(y) = Refund(y)
  BY <1>1 DEF Claim
<1>4. Refund(x) \in Nat /\ Refund(y) \in Nat
  BY RefundIsNat
<1>5. Refund(y) - Refund(x) = Charge(x, y)
  <2>1. CASE x.op = "SELL"
    <3>1. Refund(x) = x.left /\ Refund(y) = y.left /\ Charge(x, y) = y.qty - x.qty
      BY <1>1, <2>1 DEF Refund, Charge
    <3>2. x.left \in Nat /\ x.qty \in Nat /\ m.qty \in Nat
      BY RowFields
    <3> QED BY <1>1, <3>1, <3>2
  <2>2. CASE x.op # "SELL"
    BY <2>2 DEF Charge
  <2> QED BY <2>1, <2>2
<1> QED BY <1>1, <1>2, <1>3, <1>4, <1>5

(* An updated order is found in the book and processed again. *)
LEMMA UpdateOrderMirror == Orderly /\ MirrorInv /\ UpdateOrderTask => MirrorKept
<1> SUFFICES ASSUME Orderly, MirrorInv, UpdateOrderTask PROVE MirrorKept
  OBVIOUS
<1> DEFINE m == Head(queue).row
           x == order[m.id]
           y == Updated(x, m)
           found == InStack(stack, x.id) /\ x.user \notin Bots
           st == IF found THEN Removed(stack, x.id) ELSE stack
<1>1. /\ Take("update") /\ UNCHANGED <<onCancel, onPlace>>
      /\ UpdateRefused(x, y) => stack' = st /\ UNCHANGED <<dbVars, cur>>
      /\ ~UpdateRefused(x, y) =>
            /\ order' = [order EXCEPT ![x.id] = y]
            /\ held' = [held EXCEPT ![x.id] = @ + Charge(x, y)]
            /\ UNCHANGED <<matches, fees, voided>>
            /\ IF found THEN Process(y, st) ELSE UNCHANGED <<stack, cur>>
  BY DEF UpdateOrderTask
<1>2. /\ TypeInv /\ RowsInv /\ SnapshotsInv /\ RequestsInv
      /\ BookSound /\ BootSound /\ CurSound /\ MatchedOnce
  BY MirrorParts
<1>3. /\ cur = Idle /\ boot = {} /\ queue # <<>> /\ queue' = Tail(queue)
      /\ unsent' = unsent /\ boot' = boot
      /\ Head(queue) = queue[1] /\ queue[1].type = "update" /\ 1 \in 1 .. Len(queue)
      /\ m \in Row /\ m.id \in OrderIds /\ x.id = m.id
      /\ x.state # "NONE" /\ (m.id \in onPlace \cup voided \/ x.market \/ NeverSent(m.id))
  BY <1>1, TaskFinds
<1>4. /\ stack \in Stacks /\ voided \subseteq OrderIds /\ matches \subseteq OrderIds \X OrderIds
      /\ onPlace \subseteq OrderIds /\ boot \subseteq OrderIds
      /\ order \in [OrderIds -> Row] /\ held \in [OrderIds -> Int]
  BY <1>2 DEF TypeInv, TypeOK, Stacks
<1>5. x = order[x.id] /\ x \in Row /\ x.id \in OrderIds
  BY <1>3, <1>4
<1>6. found <=> InStack(stack, x.id)
  <2>1. MaxUpdates > 0
    BY <1>2, <1>3 DEF RequestsInv
  <2>2. Bots = {}
    BY <2>1 DEF Orderly
  <2> QED BY <2>2
<1>7. m.price > 0
  BY <1>2, <1>3 DEF TypeInv, QueueOK, MessageOK
<1>8. /\ ~InStack(st, x.id) /\ st \in Stacks
      /\ \A n \in OrderIds \ {x.id} : st[n] = stack[n]
  <2>1. InStack(stack, x.id) => stack[x.id].key = stack[x.id].row.price
    BY <1>2, <1>5 DEF BookSound, RestsSound
  <2>2. /\ ~InStack(Removed(stack, x.id), x.id)
        /\ \A n \in OrderIds \ {x.id} : Removed(stack, x.id)[n] = stack[n]
    BY <1>4, <1>5, <2>1, RemovedIsGone
  <2>3. Removed(stack, x.id) \in Stacks
    BY <1>2, <1>4, StackUpdates DEF TypeInv
  <2> QED BY <1>4, <1>6, <2>2, <2>3
<1>9. Given({x.id})
  BY <1>1, <1>3, <1>5 DEF Given, NewOrder
<1>10. found \/ st = stack
  OBVIOUS
<1> HIDE DEF m, x, found, st
<1>11. CASE UpdateRefused(x, y)
  <2>1. stack' = st /\ UNCHANGED <<dbVars, cur>>
    BY <1>1, <1>11
  <2>2. Touches({x.id})
    BY <1>1, <1>3, <1>4, <1>5, <1>8, <2>1 DEF Touches, dbVars, Working
  <2>3. StaysMarket(x.id)
    BY <1>3, <1>5, <2>1 DEF StaysMarket, dbVars
  <2>4. SnapshotsInv' /\ RequestsInv'
    BY <1>1, <1>2, <1>3, <1>9, <2>2, <2>3, WaitingTaken
  <2>5. RowsInv' /\ FinalKept
    BY <1>1, <1>2, <2>1, RowsUntouched
  <2>6. BookSound' /\ BootSound'
    BY <1>2, <1>3, <1>4, <1>8, <2>1, <2>2, BookStays, BootStays
  <2>7. CurSound' /\ MatchedOnce'
    BY <1>3, <2>1, IdleIsSound
  <2> QED BY <2>4, <2>5, <2>6, <2>7 DEF MirrorKept
<1>12. CASE ~UpdateRefused(x, y)
  <2>1. /\ order' = [order EXCEPT ![x.id] = y]
        /\ held' = [held EXCEPT ![x.id] = @ + Charge(x, y)]
        /\ voided' = voided /\ matches' = matches
        /\ IF found THEN Process(y, st) ELSE UNCHANGED <<stack, cur>>
    BY <1>1, <1>12
  <2>2. y \in Row /\ y.id = x.id /\ Charge(x, y) \in Int
    <3>1. Stored(order, x) /\ DatabaseOK
      BY <1>2, <1>5, TypeParts DEF Stored, Exists
    <3> QED BY <1>3, <1>5, <1>7, <1>12, <3>1, UpdateIsTyped
  <2>3. x.state = "OPENED" /\ ~x.market /\ (y = x \/ y.left > 0)
    <3> HIDE DEF y
    <3>1. y.left \in Nat
      BY <2>2, RowFields
    <3> QED BY <1>12, <3>1 DEF UpdateRefused
  <2>4. ASSUME x.id \notin voided
        PROVE  RowSound(y) /\ held[x.id] + Charge(x, y) >= Claim(y)
    <3>1. RowSound(x) /\ held[x.id] >= Claim(x)
      BY <1>2, <1>5, <2>4 DEF RowsInv
    <3>2. held[x.id] \in Int
      BY <1>4, <1>5
    <3>3. x \in Row /\ m \in Row /\ y \in Row /\ y = Updated(x, m)
      BY <1>3, <1>5, <2>2
    <3> HIDE DEF y
    <3> QED BY <2>3, <3>1, <3>2, <3>3, UpdateIsCovered
  <2>5. y.state = "OPENED" /\ ~y.market
    BY <2>3 DEF Updated, Row
  <2> HIDE DEF y
  <2>6. order'[x.id] = y /\ held'[x.id] = held[x.id] + Charge(x, y)
    BY <1>4, <1>5, <2>1
  <2>7. \A n \in OrderIds \ {x.id} : order'[n] = order[n] /\ held'[n] = held[n]
    BY <1>4, <2>1
  <2>8. \A n \in OrderIds \ {x.id} : stack'[n] = stack[n] /\ (Working(n)' => Working(n))
    <3>1. CASE found
      BY <1>8, <2>1, <2>2, <3>1, ProcessTouches
    <3>2. CASE ~found
      BY <2>1, <3>2 DEF Working
    <3> QED BY <3>1, <3>2
  <2>9. Touches({x.id})
    BY <1>1, <1>3, <1>4, <1>5, <2>1, <2>5, <2>6, <2>7, <2>8 DEF Touches
  <2>10. Advances(x.id) /\ StaysMarket(x.id)
    BY <1>5, <2>3 DEF Advances, StaysMarket
  <2>11. RowsInv'
    BY <1>1, <1>2, <2>1, <2>4, <2>6, <2>9, <2>10, RowsStay
  <2>12. SnapshotsInv' /\ RequestsInv'
    BY <1>1, <1>2, <1>3, <1>9, <2>9, <2>10, WaitingTaken
  <2>13. BootSound'
    BY <1>3 DEF BootSound
  <2>14. BookSound' /\ CurSound' /\ MatchedOnce'
    <3>1. CASE found
      <4>1. Process(y, st) /\ boot' \subseteq boot /\ y.id \notin boot'
        BY <1>3, <2>1, <3>1
      <4>2. y.id \in OrderIds /\ order'[y.id] = y /\ Touches({y.id})
            /\ ~InStack(st, y.id) /\ \A n \in OrderIds \ {y.id} : st[n] = stack[n]
        BY <1>5, <1>8, <2>2, <2>6, <2>9
      <4> QED BY <1>2, <1>3, <1>4, <1>8, <2>1, <2>2, <2>5, <2>11, <4>1, <4>2, ProcessIsSound
    <3>2. CASE ~found
      <4>1. stack' = stack /\ cur' = cur /\ st = stack
        BY <1>10, <2>1, <3>2
      <4>2. ~InStack(stack', x.id)
        BY <1>8, <4>1
      <4> QED BY <1>2, <1>3, <2>9, <4>1, <4>2, BookStays, IdleIsSound
    <3> QED BY <3>1, <3>2
  <2>15. FinalKept
    BY <1>5, <2>3, <2>7 DEF FinalKept, Final
  <2> QED BY <2>11, <2>12, <2>13, <2>14, <2>15 DEF MirrorKept
<1> QED BY <1>11, <1>12

(* What is known of the order at work. *)
LEMMA WorkIsSound ==
    ASSUME MirrorInv, cur.phase \in {"market", "match"}, NEW x, x = cur.obj
    PROVE  /\ x \in Row /\ x.id \in OrderIds /\ order[x.id].state # "NONE" /\ Working(x.id)
           /\ x.id \notin voided => x = order[x.id] /\ x.state \in {"OPENED", "CLOSED"}
           /\ ~InStack(stack, x.id) /\ x.id \notin boot
           /\ Given({x.id})
           /\ order[x.id].id = x.id
           /\ voided \subseteq OrderIds /\ matches \subseteq OrderIds \X OrderIds
           /\ onPlace \subseteq OrderIds /\ boot \subseteq OrderIds
           /\ order \in [OrderIds -> Row] /\ held \in [OrderIds -> Int] /\ stack \in Stacks
<1>1. TypeInv /\ BookSound /\ BootSound /\ CurSound
  BY MirrorParts
<1>2. /\ voided \subseteq OrderIds /\ matches \subseteq OrderIds \X OrderIds
      /\ onPlace \subseteq OrderIds /\ boot \subseteq OrderIds /\ cur \in Works
      /\ order \in [OrderIds -> Row] /\ held \in [OrderIds -> Int] /\ stack \in Stacks
  BY <1>1 DEF TypeInv, TypeOK, Works, Stacks
<1>3. /\ x \in Row /\ x.id \in OrderIds /\ order[x.id].state # "NONE" /\ Working(x.id)
      /\ order[x.id].id = x.id
  BY <1>1, <1>2, StoredHaveRows DEF TypeInv, CurOK, Stored, Exists, Works, Working
<1>4. x.id \notin voided => x = order[x.id] /\ x.state \in {"OPENED", "CLOSED"}
  BY <1>1 DEF CurSound
<1>5. ~InStack(stack, x.id) /\ x.id \notin boot
  BY <1>1, <1>3, NotRepricing DEF BookSound, RestsSound, BootSound
<1>6. Given({x.id})
  BY <1>3 DEF Given, NewOrder
<1> QED BY <1>2, <1>3, <1>4, <1>5, <1>6

(* After its last match an order is booked, cancelled or closed. *)
LEMMA FinishMirror == MirrorInv /\ Finish => MirrorKept
<1> SUFFICES ASSUME MirrorInv, Finish PROVE MirrorKept
  OBVIOUS
<1> DEFINE x == cur.obj
           z == [x EXCEPT !.state = "CLOSED", !.cost = 0]
<1>1. /\ cur.phase = "match" /\ cur' = Idle
      /\ UNCHANGED <<unsent, queue, boot, onCancel, onPlace, counts>>
      /\ \/ x.state = "OPENED" /\ CancelRow(x) /\ (stack' = stack \/ stack' = Removed(stack, x.id))
         \/ UNCHANGED dbVars /\ (stack' = stack \/ stack' = Removed(stack, x.id))
         \/ UNCHANGED dbVars /\ x.state = "OPENED" /\ stack' = Added(stack, x)
         \/ /\ x.market /\ x.cost > 0 /\ stack' = stack
            /\ order' = [order EXCEPT ![x.id] = z]
            /\ held' = [held EXCEPT ![x.id] = @ - x.cost]
            /\ voided' = voided /\ matches' = matches
  BY DEF Finish, CloseMarket
<1>2. /\ TypeInv /\ RowsInv /\ SnapshotsInv /\ RequestsInv
      /\ BookSound /\ BootSound /\ CurSound /\ MatchedOnce
  BY MirrorParts
<1>3. cur.phase \in {"market", "match"}
  BY <1>1
<1>4. /\ x \in Row /\ x.id \in OrderIds /\ order[x.id].state # "NONE" /\ Working(x.id)
      /\ x.id \notin voided => x = order[x.id] /\ x.state \in {"OPENED", "CLOSED"}
      /\ ~InStack(stack, x.id) /\ x.id \notin boot
      /\ Given({x.id})
      /\ voided \subseteq OrderIds /\ matches \subseteq OrderIds \X OrderIds
      /\ onPlace \subseteq OrderIds /\ boot \subseteq OrderIds
      /\ order \in [OrderIds -> Row] /\ held \in [OrderIds -> Int] /\ stack \in Stacks
  BY <1>3, WorkIsSound
<1>5. z.state = "CLOSED" /\ z.market = x.market /\ z.op = x.op /\ z.cost = 0
  BY <1>4 DEF Row
<1>6. /\ ~InStack(Removed(stack, x.id), x.id)
      /\ \A n \in OrderIds \ {x.id} : Removed(stack, x.id)[n] = stack[n]
  BY <1>4, RemovedIsGone
<1> HIDE DEF x, z
<1>7. \A n \in OrderIds \ {x.id} : Added(stack, x)[n] = stack[n]
  BY <1>4 DEF Added, Stacks
<1>8. \A n \in OrderIds \ {x.id} : stack'[n] = stack[n]
  BY <1>1, <1>6, <1>7
<1>9. CurSound' /\ MatchedOnce' /\ \A n : ~Working(n)'
  BY <1>1, IdleIsSound
<1>10. /\ Advances(x.id) /\ StaysMarket(x.id)
       /\ x.id \notin voided' => RowSound(order'[x.id]) /\ held'[x.id] >= Claim(order'[x.id])
       /\ FinalKept
       /\ order'[x.id].state # "NONE"
       /\ \A o \in OrderIds \ {x.id} : order'[o] = order[o] /\ held'[o] = held[o]
       /\ voided' = voided /\ matches' = matches
  <2>1. CASE x.state = "OPENED" /\ CancelRow(x)
    BY <1>2, <1>4, <2>1, CancelIsSound
  <2>2. CASE UNCHANGED dbVars
    <3>1. order' = order /\ held' = held /\ voided' = voided /\ matches' = matches
      BY <2>2 DEF dbVars
    <3>2. Advances(x.id) /\ StaysMarket(x.id) /\ FinalKept
      BY <1>4, <3>1 DEF Advances, StaysMarket, FinalKept
    <3>3. x.id \notin voided => RowSound(order[x.id]) /\ held[x.id] >= Claim(order[x.id])
      BY <1>2, <1>4 DEF RowsInv
    <3> QED BY <1>4, <3>1, <3>2, <3>3
  <2>3. CASE /\ x.market /\ x.cost > 0
             /\ order' = [order EXCEPT ![x.id] = z]
             /\ held' = [held EXCEPT ![x.id] = @ - x.cost]
             /\ voided' = voided /\ matches' = matches
    <3>1. order'[x.id] = z /\ held'[x.id] = held[x.id] - x.cost
      BY <1>4, <2>3
    <3>2. Advances(x.id) /\ StaysMarket(x.id)
      BY <1>5, <2>3, <3>1 DEF Advances, StaysMarket
    <3>3. ASSUME x.id \notin voided PROVE RowSound(z) /\ held'[x.id] >= Claim(z)
      <4>1. RowSound(x) /\ held[x.id] >= Claim(x)
        BY <1>2, <1>4, <3>3 DEF RowsInv
      <4>2. MarketBuy(x)
        <5>1. x.cost \in Nat /\ x.cost # 0
          BY <1>4, <2>3, RowFields
        <5> QED BY <1>4, <3>3, <4>1, <5>1 DEF RowSound
      <4>3. RowSound(z) /\ MarketBuy(z)
        BY <1>5, <4>2 DEF RowSound, MarketBuy
      <4>4. Claim(x) = x.cost
        BY <1>4, <3>3, <4>2 DEF Claim, Refund, MarketBuy
      <4>5. Claim(z) = 0
        BY <1>5, <4>3 DEF Claim, Refund, MarketBuy
      <4>6. held[x.id] \in Int /\ x.cost \in Nat
        BY <1>4, RowFields
      <4> QED BY <3>1, <4>1, <4>3, <4>4, <4>5, <4>6
    <3>4. FinalKept
      BY <1>4, <2>3 DEF FinalKept, Final
    <3>5. \A o \in OrderIds \ {x.id} : order'[o] = order[o] /\ held'[o] = held[o]
      BY <1>4, <2>3
    <3> QED BY <1>5, <2>3, <3>1, <3>2, <3>3, <3>4, <3>5
  <2> QED BY <1>1, <2>1, <2>2, <2>3
<1>11. Touches({x.id})
  BY <1>1, <1>4, <1>8, <1>9, <1>10 DEF Touches
<1>12. RowsInv'
  BY <1>1, <1>2, <1>10, <1>11, RowsStay
<1>13. SnapshotsInv' /\ RequestsInv'
  BY <1>1, <1>2, <1>4, <1>10, <1>11, WaitingStay
<1>14. BootSound'
  BY <1>1, <1>2, <1>4, <1>11, BootStays
<1>15. BookSound'
  <2>1. CASE stack' = stack \/ stack' = Removed(stack, x.id)
    BY <1>3, <1>2, <1>4, <1>6, <1>11, <2>1, BookStays, NotRepricing
  <2>2. CASE UNCHANGED dbVars /\ x.state = "OPENED" /\ stack' = Added(stack, x)
    <3>1. PICK o, w : o = x.id /\ w = x
      OBVIOUS
    <3>2. stack'[o] = [row |-> w, key |-> w.price] /\ o \notin boot' /\ w \in Row
      BY <1>1, <1>4, <2>2, <3>1 DEF Added, Stacks
    <3>3. o \notin voided' => order'[o] = w /\ w.state = "OPENED"
      BY <1>4, <2>2, <3>1 DEF dbVars
    <3>4. RestsSound(o)'
      BY <1>9, <3>2, <3>3 DEF RestsSound, Disturbed, Row
    <3>5. Touches({o}) /\ \A n \in {o} : InStack(stack', n) => RestsSound(n)'
      BY <1>11, <3>1, <3>4
    <3> QED BY <1>3, <1>2, <3>5, BookStays, NotRepricing
  <2> QED BY <1>1, <2>1, <2>2
<1> QED BY <1>9, <1>10, <1>12, <1>13, <1>14, <1>15 DEF MirrorKept

-----------------------------------------------------------------------------
(* One fill.                                                               *)

(* The columns a fill writes. *)
LEMMA FilledFields ==
    ASSUME NEW x \in Row, NEW q, NEW p, NEW x1, x1 = Filled(x, q, p)
    PROVE  /\ x1.id = x.id /\ x1.user = x.user /\ x1.op = x.op /\ x1.market = x.market
           /\ MarketBuy(x) => x1.left = 0 /\ x1.cost = x.cost - Value(q, p)
           /\ ~MarketBuy(x) => x1.left = x.left - q /\ x1.cost = x.cost /\ x1.qty = x.qty
           /\ ~x.market => x1.price = x.price
           /\ x1.state = IF x1.left = 0 /\ ~Void(x, q, p) THEN "CLOSED" ELSE x.state
<1> DEFINE left  == IF MarketBuy(x) THEN 0 ELSE x.left - q
           cost  == IF MarketBuy(x) THEN x.cost - Value(q, p) ELSE x.cost
           qty   == IF MarketBuy(x) THEN x.qty + q ELSE x.qty
           price == IF x.market THEN VwapOf(x, q, p) ELSE x.price
           state == IF left = 0 /\ ~Void(x, q, p) THEN "CLOSED" ELSE x.state
<1>1. x1 = [x EXCEPT !.left = left, !.cost = cost, !.qty = qty, !.price = price, !.state = state]
  BY DEF Filled
<1>2. /\ MarketBuy(x) => left = 0 /\ cost = x.cost - Value(q, p)
      /\ ~MarketBuy(x) => left = x.left - q /\ cost = x.cost /\ qty = x.qty
      /\ ~x.market => price = x.price
      /\ state = IF left = 0 /\ ~Void(x, q, p) THEN "CLOSED" ELSE x.state
  OBVIOUS
<1> HIDE DEF left, cost, qty, price, state
<1>3. x1 = [id |-> x.id, user |-> x.user, op |-> x.op, market |-> x.market, price |-> price,
            qty |-> qty, left |-> left, cost |-> cost, state |-> state]
  BY <1>1 DEF Row
<1>4. /\ x1.id = x.id /\ x1.user = x.user /\ x1.op = x.op /\ x1.market = x.market
      /\ x1.left = left /\ x1.cost = cost /\ x1.qty = qty /\ x1.price = price /\ x1.state = state
  BY <1>3
<1> QED BY <1>2, <1>4

(* Rows with the same columns are the same. *)
LEMMA SameRow ==
    ASSUME NEW x \in Row, NEW y \in Row,
           x.id = y.id, x.user = y.user, x.op = y.op, x.market = y.market, x.price = y.price,
           x.qty = y.qty, x.left = y.left, x.cost = y.cost, x.state = y.state
    PROVE  x = y
<1>1. \A z \in Row : z = [id |-> z.id, user |-> z.user, op |-> z.op, market |-> z.market,
                        price |-> z.price, qty |-> z.qty, left |-> z.left, cost |-> z.cost,
                        state |-> z.state]
  BY DEF Row
<1> QED BY <1>1

(* Nothing is worth nothing. *)
LEMMA ValueOfNothing == \A p \in Nat : Value(0, p) = 0
<1>1. \A p \in Nat : 0 * p = 0
  OBVIOUS
<1>2. 0 \div Scale = 0
  BY MoneyAssumption
<1> QED BY <1>1, <1>2 DEF Value

(* A fill releases no more of the hold than the claim gets smaller; it closes *)
(* an order that has nothing left, and does not change a closed limit order. *)
LEMMA FillIsCovered ==
    ASSUME NEW x \in Row, NEW q \in Nat, NEW p \in Nat,
           x.op = "BUY" /\ ~x.market => p <= x.price,
           ~MarketBuy(x) => q <= x.left,
           MarketBuy(x) => Value(q, p) <= x.cost,
           ~Void(x, q, p), x.state \in {"OPENED", "CLOSED"},
           ~MarketBuy(x) => x.cost = 0 /\ (x.state = "CLOSED" => x.left = 0),
           NEW h \in Int, h >= Claim(x),
           NEW x1 \in Row, x1 = Filled(x, q, p)
    PROVE  /\ RowSound(x1) /\ h - Released(x, q, p) >= Claim(x1)
           /\ x1.state \in {"CLOSED", x.state}
           /\ x1.left = 0 => x1.state = "CLOSED"
           /\ x1.state = "CLOSED" /\ x.state = "OPENED" => x1.left = 0
           /\ x.state = "CLOSED" /\ ~x.market => x1 = x
<1>1. /\ x1.id = x.id /\ x1.user = x.user /\ x1.op = x.op /\ x1.market = x.market
      /\ MarketBuy(x) => x1.left = 0 /\ x1.cost = x.cost - Value(q, p)
      /\ ~MarketBuy(x) => x1.left = x.left - q /\ x1.cost = x.cost /\ x1.qty = x.qty
      /\ ~x.market => x1.price = x.price
      /\ x1.state = IF x1.left = 0 THEN "CLOSED" ELSE x.state
  BY FilledFields
<1>2. /\ x.left \in Nat /\ x.cost \in Nat /\ x.price \in Nat /\ x1.left \in Nat
      /\ Value(q, p) \in Nat /\ x.op \in {"BUY", "SELL"} /\ x.market \in BOOLEAN
  BY RowFields, ValueIsNat
<1>3. MarketBuy(x1) <=> MarketBuy(x)
  BY <1>1 DEF MarketBuy
<1>4. CASE MarketBuy(x)
  <2>1. RowSound(x1) /\ x1.left = 0 /\ x1.state = "CLOSED"
    BY <1>1, <1>3, <1>4 DEF RowSound
  <2>2. Claim(x) = x.cost
    BY <1>4 DEF Claim, Refund, MarketBuy
  <2>3. Claim(x1) = x.cost - Value(q, p)
    BY <1>1, <1>3, <1>4, <2>1 DEF Claim, Refund, MarketBuy
  <2>4. Released(x, q, p) = Value(q, p)
    BY <1>2, <1>4 DEF Released, Cacheback, MarketBuy
  <2>5. x.market
    BY <1>4 DEF MarketBuy
  <2> QED BY <1>2, <2>1, <2>2, <2>3, <2>4, <2>5
<1>5. CASE ~MarketBuy(x)
  <2>1. x1.left = x.left - q /\ x1.cost = 0 /\ x.cost = 0
    BY <1>1, <1>5
  <2>2. x.state = "CLOSED" => x.left = 0 /\ q = 0 /\ x1.state = "CLOSED" /\ x1.left = 0
    BY <1>1, <1>2, <1>5, <2>1
  <2>3. RowSound(x1)
    BY <1>1, <1>2, <2>1, <2>2 DEF RowSound
  <2>4. x.state = "CLOSED" /\ ~x.market => x1 = x
    BY <1>1, <1>5, <2>1, <2>2, SameRow
  <2>5. h - Released(x, q, p) >= Claim(x1)
    <3>1. CASE x.op = "SELL"
      <4>1. Released(x, q, p) = q
        BY <1>2, <3>1 DEF Released, Cacheback
      <4>2. Claim(x) = IF x.state = "OPENED" THEN x.left ELSE 0
        BY <1>5, <3>1 DEF Claim, Refund, MarketBuy
      <4>3. Claim(x1) = IF x1.state = "OPENED" THEN x1.left ELSE 0
        BY <1>1, <1>3, <1>5, <3>1 DEF Claim, Refund, MarketBuy
      <4>4. x1.state = "OPENED" => x.state = "OPENED"
        BY <1>1
      <4> QED BY <1>2, <2>1, <2>2, <4>1, <4>2, <4>3, <4>4
    <3>2. CASE x.op = "BUY"
      <4>1. ~x.market
        BY <1>5, <3>2 DEF MarketBuy
      <4>2. Released(x, q, p) = Value(q, x.price - p) + Value(q, p)
        BY <1>2, <3>2, <4>1 DEF Released, Cacheback
      <4>3. Claim(x) = IF x.state = "OPENED" THEN Value(x.left, x.price) ELSE 0
        BY <1>5, <3>2, <4>1 DEF Claim, Refund
      <4>4. Claim(x1) = IF x1.state = "OPENED" THEN Value(x1.left, x1.price) ELSE 0
        BY <1>1, <1>3, <1>5, <3>2, <4>1 DEF Claim, Refund
      <4>5. x1.price = x.price /\ q <= x.left /\ p <= x.price
        BY <1>1, <1>5, <3>2, <4>1
      <4>6. Value(q, x.price - p) + Value(q, p) + Value(x.left - q, x.price) <= Value(x.left, x.price)
        BY <1>2, <4>5, ValueOfParts
      <4>7. x.left - q \in Nat /\ x.price - p \in Nat
        BY <1>2, <4>5
      <4>8. /\ Value(q, x.price - p) \in Nat /\ Value(x.left - q, x.price) \in Nat
            /\ Value(x.left, x.price) \in Nat
        BY <1>2, <4>7, ValueIsNat
      <4>9. CASE x.state = "OPENED"
        <5>1. Claim(x1) <= Value(x.left - q, x.price)
          BY <2>1, <4>4, <4>5, <4>8
        <5>2. h >= Value(x.left, x.price)
          BY <4>3, <4>9
        <5>3. Claim(x1) \in Nat
          BY <1>2, <2>1, <4>4, <4>5, <4>8
        <5> QED BY <1>2, <4>2, <4>6, <4>8, <5>1, <5>2, <5>3
      <4>10. CASE x.state = "CLOSED"
        <5>1. Claim(x1) = 0 /\ h >= 0
          BY <2>2, <4>3, <4>4, <4>10
        <5>2. Value(q, x.price - p) = 0 /\ Value(q, p) = 0
          BY <2>2, <4>7, <4>10, ValueOfNothing
        <5> QED BY <4>2, <5>1, <5>2
      <4> QED BY <4>9, <4>10
    <3> QED BY <1>2, <3>1, <3>2
  <2>6. /\ x1.state \in {"CLOSED", x.state}
        /\ x1.left = 0 => x1.state = "CLOSED"
        /\ x1.state = "CLOSED" /\ x.state = "OPENED" => x1.left = 0
    BY <1>1
  <2> QED BY <2>3, <2>4, <2>5, <2>6
<1> QED BY <1>4, <1>5

(* An object whose row has more left claims no more than the row. *)
LEMMA LessIsClaimed ==
    ASSUME NEW x \in Row, NEW y \in Row, y = [x EXCEPT !.left = y.left], y.left <= x.left,
           x.state = "OPENED", ~x.market
    PROVE  Claim(y) <= Claim(x) /\ Claim(x) \in Nat /\ Claim(y) \in Nat
<1>1. /\ y.op = x.op /\ y.market = x.market /\ y.price = x.price /\ y.state = x.state
  BY DEF Row
<1>2. Claim(x) = Refund(x) /\ Claim(y) = Refund(y)
  BY <1>1 DEF Claim
<1>3. Refund(x) \in Nat /\ Refund(y) \in Nat
  BY RefundIsNat
<1>4. /\ x.left \in Nat /\ y.left \in Nat /\ x.price \in Nat /\ x.op \in {"BUY", "SELL"}
      /\ x.market \in BOOLEAN
  BY RowFields
<1>5. CASE x.op = "SELL"
  BY <1>1, <1>2, <1>3, <1>5 DEF Refund
<1>6. CASE x.op = "BUY"
  <2>1. Refund(x) = Value(x.left, x.price) /\ Refund(y) = Value(y.left, x.price)
    BY <1>1, <1>4, <1>6 DEF Refund
  <2>2. x.left * x.price \in Nat /\ y.left * x.price \in Nat
    BY <1>4, ValueIsNat
  <2>3. y.left * x.price <= x.left * x.price
    BY <1>4, SMT
  <2>4. Value(y.left, x.price) <= Value(x.left, x.price)
    BY <2>2, <2>3, FloorMonotonic DEF Value
  <2> QED BY <1>2, <1>3, <2>1, <2>4
<1> QED BY <1>4, <1>5, <1>6

(* What is known of the resting order that is matched next. *)
LEMMA RestingIsSound ==
    ASSUME MirrorInv, cur.phase = "match", NEW r \in OrderIds, Best(r), NEW y, y = stack[r].row
    PROVE  /\ y \in Row /\ y.id = r /\ ~y.market /\ y.price \in Nat /\ y.price > 0 /\ y.state # "NONE"
           /\ InStack(stack, r) /\ r \in cur.todo /\ stack[r].key = y.price /\ r \notin boot
           /\ r # cur.obj.id
           /\ order[r].state # "NONE" /\ Given({r})
           /\ r \notin voided =>
                 /\ order[r].state = "OPENED" /\ y.left <= order[r].left /\ y.state = "OPENED"
                 /\ y = [order[r] EXCEPT !.left = y.left] /\ ~order[r].market
           /\ r \notin Disturbed => y = order[r]
<1>1. TypeInv /\ BookSound
  BY MirrorParts
<1>2. y \in Row /\ Stored(order, y) /\ Limit(y) /\ y.id = r /\ y.price \in Nat /\ cur.obj.id # r
  BY <1>1, FillIsSound
<1>3. InStack(stack, r) /\ r \in cur.todo
  BY <1>1 DEF TypeInv, CurOK, TodoOK, Best
<1>4. RestsSound(r)
  BY <1>1, <1>3 DEF BookSound
<1>5. order[r].state # "NONE"
  BY <1>1, <1>3, StoredHaveRows
<1>6. Given({r})
  BY <1>3 DEF Given, NewOrder
<1>7. ~y.market /\ y.price > 0 /\ y.state # "NONE"
  BY <1>2 DEF Limit, Created
<1>8. r \notin voided =>
          /\ order[r].state = "OPENED" /\ y.left <= order[r].left /\ y.state = "OPENED"
          /\ y = [order[r] EXCEPT !.left = y.left] /\ ~order[r].market
  <2> SUFFICES ASSUME r \notin voided
               PROVE  /\ order[r].state = "OPENED" /\ y.left <= order[r].left /\ y.state = "OPENED"
                      /\ y = [order[r] EXCEPT !.left = y.left] /\ ~order[r].market
    OBVIOUS
  <2>1. /\ order[r].state = "OPENED" /\ y.left <= order[r].left
        /\ y = [order[r] EXCEPT !.left = y.left]
    BY <1>4 DEF RestsSound
  <2>2. order[r] \in Row
    BY <1>1 DEF TypeInv, TypeOK
  <2>3. y.state = order[r].state /\ y.market = order[r].market
    BY <2>1, <2>2 DEF Row
  <2> QED BY <1>7, <2>1, <2>3
<1> QED BY <1>2, <1>3, <1>4, <1>5, <1>6, <1>7, <1>8 DEF RestsSound

(* The bounds of the next fill. *)
LEMMA NextFill ==
    ASSUME MirrorInv, cur.phase = "match", NEW r \in OrderIds, Best(r),
           NEW x, x = cur.obj, NEW y, y = stack[r].row, NEW q, q = FillQuantity(x, y)
    PROVE  /\ q \in Nat /\ q <= y.left /\ x \in Row /\ y \in Row
           /\ Filled(x, q, y.price) \in Row /\ Filled(y, q, y.price) \in Row
           /\ ~MarketBuy(x) => q <= x.left /\ (q = x.left \/ q = y.left)
           /\ MarketBuy(x) => Value(q, y.price) <= x.cost
           /\ x.op = "BUY" /\ ~x.market => y.price <= x.price
           /\ ~MarketBuy(y)
           /\ Created(Saved(x, q, y.price)) /\ Created(Saved(y, q, y.price))
<1>1. TypeInv /\ DatabaseOK
  BY MirrorParts, TypeParts
<1>2. /\ x \in Row /\ Stored(order, x) /\ Created(x)
      /\ y \in Row /\ Stored(order, y) /\ Limit(y)
      /\ q \in Nat /\ q <= y.left /\ y.price \in Nat
      /\ Filled(x, q, y.price) \in Row /\ Filled(y, q, y.price) \in Row
      /\ x.op = "BUY" /\ ~x.market => y.price <= x.price
  BY <1>1, FillIsSound
<1>3. y.price > 0 /\ ~MarketBuy(y) /\ Created(y)
  BY <1>2 DEF Limit, Created, MarketBuy
<1>4. /\ ~MarketBuy(x) => q <= x.left
      /\ MarketBuy(x) => Value(q, y.price) <= x.cost
  BY <1>2, <1>3, FillIsBounded
<1>5. ~MarketBuy(x) => q = x.left \/ q = y.left
  BY DEF FillQuantity, Least
<1>6. Created(Saved(x, q, y.price)) /\ Created(Saved(y, q, y.price))
  BY <1>1, <1>2, <1>3, SavedIsRow
<1> QED BY <1>2, <1>3, <1>4, <1>5, <1>6

(* A match leaves both rows like their objects and ends one of the orders. *)
LEMMA MatchMirror == MirrorInv /\ Match => MirrorKept
<1> SUFFICES ASSUME MirrorInv, Match PROVE MirrorKept
  OBVIOUS
<1>1. PICK r \in OrderIds : Best(r) /\ Execute(r)
  BY DEF Match
<1>2. /\ cur.phase = "match"
      /\ UNCHANGED <<unsent, queue, boot, onPlace, counts>>
  BY DEF Match
<1>3. PICK x, y : x = cur.obj /\ y = stack[r].row
  OBVIOUS
<1>4. PICK p, q : p = y.price /\ q = FillQuantity(x, y)
  OBVIOUS
<1> DEFINE x1 == Filled(x, q, p)
           y1 == Filled(y, q, p)
           y2 == [y1 EXCEPT !.state = "CANCELED"]
           y3 == IF DustCancels(y1) THEN y2 ELSE Saved(y, q, p)
           st == IF VoidCancels(x, q, p) THEN Removed(stack, x.id) ELSE stack
           st1 == [st EXCEPT ![r].row = y1]
           gone == y1.state = "CLOSED" \/ VoidCancels(y, q, p) \/ DustCancels(y1)
           net(z) == IF Void(z, q, p) THEN {} ELSE {z.id}
<1>5. /\ order' = [order EXCEPT ![x.id] = Saved(x, q, p), ![r] = y3]
      /\ held' = [held EXCEPT
            ![x.id] = @ - Released(x, q, p),
            ![r] = @ - Released(y, q, p) - DustRefund(y1)]
      /\ matches' = matches \cup (net(x) \X {r}) \cup (net(y) \X {x.id})
      /\ voided' = voided \cup {z \in {x.id, r} : Void(IF z = r THEN y ELSE x, q, p)}
      /\ stack' = IF gone THEN Removed(st1, r) ELSE st1
      /\ cur' = [cur EXCEPT !.obj = x1, !.todo = @ \ {r}]
  BY <1>1, <1>3, <1>4 DEF Execute
<1>6. /\ TypeInv /\ RowsInv /\ SnapshotsInv /\ RequestsInv
      /\ BookSound /\ BootSound /\ CurSound /\ MatchedOnce
  BY MirrorParts
<1>7. /\ x \in Row /\ x.id \in OrderIds /\ order[x.id].state # "NONE" /\ Working(x.id)
      /\ x.id \notin voided => x = order[x.id] /\ x.state \in {"OPENED", "CLOSED"}
      /\ ~InStack(stack, x.id) /\ x.id \notin boot
      /\ Given({x.id})
      /\ voided \subseteq OrderIds /\ matches \subseteq OrderIds \X OrderIds
      /\ onPlace \subseteq OrderIds /\ boot \subseteq OrderIds
      /\ order \in [OrderIds -> Row] /\ held \in [OrderIds -> Int] /\ stack \in Stacks
  BY <1>2, <1>3, WorkIsSound
<1>8. /\ y \in Row /\ y.id = r /\ ~y.market /\ p \in Nat /\ p > 0 /\ y.state # "NONE"
      /\ InStack(stack, r) /\ r \in cur.todo /\ stack[r].key = p /\ r \notin boot
      /\ r # x.id
      /\ order[r].state # "NONE" /\ Given({r})
      /\ r \notin voided =>
            /\ order[r].state = "OPENED" /\ y.left <= order[r].left /\ y.state = "OPENED"
            /\ y = [order[r] EXCEPT !.left = y.left] /\ ~order[r].market
  BY <1>1, <1>2, <1>3, <1>4, RestingIsSound
<1>9. /\ q \in Nat /\ q <= y.left /\ x1 \in Row /\ y1 \in Row
      /\ ~MarketBuy(x) => q <= x.left /\ (q = x.left \/ q = y.left)
      /\ MarketBuy(x) => Value(q, p) <= x.cost
      /\ x.op = "BUY" /\ ~x.market => p <= x.price
      /\ ~MarketBuy(y)
      /\ Created(Saved(x, q, p)) /\ Created(Saved(y, q, p))
  BY <1>1, <1>2, <1>3, <1>4, NextFill
(* The objects after the fill. *)
<1>10. /\ x1.id = x.id /\ x1.market = x.market
       /\ MarketBuy(x) => x1.left = 0
       /\ ~MarketBuy(x) => x1.left = x.left - q
       /\ y1.id = r /\ y1.op = y.op /\ y1.market = y.market /\ y1.price = p /\ y1.left = y.left - q
       /\ x1.state = IF x1.left = 0 /\ ~Void(x, q, p) THEN "CLOSED" ELSE x.state
       /\ y1.state = IF y1.left = 0 /\ ~Void(y, q, p) THEN "CLOSED" ELSE y.state
  BY <1>4, <1>7, <1>8, <1>9, FilledFields
<1>11. /\ y2.state = "CANCELED" /\ y2.market = y1.market /\ y2.op = y1.op /\ y2.cost = y1.cost
       /\ y2 \in Row
  BY <1>9 DEF Row
<1>12. x.id \in voided' \/ (~Void(x, q, p) /\ Saved(x, q, p) = x1 /\ x.id \notin voided)
  BY <1>5, <1>8 DEF Saved
<1>13. r \in voided' \/ (~Void(y, q, p) /\ Saved(y, q, p) = y1 /\ ~VoidCancels(y, q, p) /\ r \notin voided)
  BY <1>5 DEF Saved, VoidCancels
<1>14. y3 = IF DustCancels(y1) THEN y2 ELSE Saved(y, q, p)
  OBVIOUS
<1>15. st[r] = stack[r] /\ \A n \in OrderIds \ {x.id} : st[n] = stack[n]
  BY <1>7, <1>8, RemovedIsGone
<1>16. st \in Stacks /\ ~InStack(st, x.id)
  <2>1. Removed(stack, x.id) \in Stacks
    BY <1>6, <1>7, StackUpdates DEF TypeInv
  <2> QED BY <1>7, <2>1, RemovedIsGone
<1>17. gone <=> y1.state = "CLOSED" \/ VoidCancels(y, q, p) \/ DustCancels(y1)
  OBVIOUS
<1>18. cur' = [phase |-> "match", obj |-> x1, todo |-> cur.todo \ {r}]
  <2>1. cur \in Works
    BY <1>6 DEF TypeInv, TypeOK, Works
  <2> HIDE DEF x1
  <2> QED BY <1>2, <1>5, <2>1 DEF Works
<1>19. net(x) \subseteq {x.id} /\ net(y) \subseteq {r} /\ (Void(x, q, p) => net(x) = {}) /\ (Void(y, q, p) => net(y) = {})
  BY <1>8
<1>20. matches' = matches \cup (net(x) \X {r}) \cup (net(y) \X {x.id})
  BY <1>5
<1> HIDE DEF x1, y1, y2, y3, st, gone, net
(* The rows after the fill. *)
<1>21. order'[x.id] = Saved(x, q, p) /\ held'[x.id] = held[x.id] - Released(x, q, p)
  BY <1>5, <1>7, <1>8
<1>22. order'[r] = y3 /\ held'[r] = held[r] - Released(y, q, p) - DustRefund(y1)
  BY <1>5, <1>7, <1>8
<1>23. \A o \in OrderIds \ {x.id, r} : order'[o] = order[o] /\ held'[o] = held[o]
  BY <1>5, <1>7
<1>24. voided' \subseteq OrderIds /\ voided \subseteq voided' /\ \A o \in OrderIds \ {x.id, r} : o \in voided' => o \in voided
  BY <1>5, <1>7
<1>25. order'[x.id].state # "NONE" /\ order'[r].state # "NONE"
  BY <1>9, <1>11, <1>14, <1>21, <1>22 DEF Created
<1>26. ASSUME x.id \notin voided'
       PROVE  /\ order'[x.id] = x1 /\ ~Void(x, q, p) /\ x = order[x.id] /\ x.id \notin voided
              /\ RowSound(x1) /\ held'[x.id] >= Claim(x1)
              /\ x1.state \in {"CLOSED", x.state}
              /\ x1.left = 0 => x1.state = "CLOSED"
              /\ x.state = "CLOSED" /\ ~x.market => x1 = x
  <2>1. x.id \notin voided /\ ~Void(x, q, p) /\ order'[x.id] = x1 /\ x = order[x.id]
        /\ x.state \in {"OPENED", "CLOSED"}
    BY <1>7, <1>12, <1>21, <1>26
  <2>2. RowSound(x) /\ held[x.id] >= Claim(x) /\ held[x.id] \in Int
    BY <1>6, <1>7, <2>1 DEF RowsInv
  <2>5. ~MarketBuy(x) => x.cost = 0 /\ (x.state = "CLOSED" => x.left = 0)
    BY <2>1, <2>2 DEF RowSound
  <2>3. x1 = Filled(x, q, p)
    BY DEF x1
  <2>4. /\ RowSound(x1) /\ held[x.id] - Released(x, q, p) >= Claim(x1)
        /\ x1.state \in {"CLOSED", x.state}
        /\ x1.left = 0 => x1.state = "CLOSED"
        /\ x.state = "CLOSED" /\ ~x.market => x1 = x
    BY <1>7, <1>8, <1>9, <2>1, <2>2, <2>3, <2>5, FillIsCovered
  <2> QED BY <1>21, <2>1, <2>4
<1>27. ASSUME r \notin voided'
       PROVE  /\ order'[r] = IF DustCancels(y1) THEN y2 ELSE y1
              /\ ~Void(y, q, p) /\ ~VoidCancels(y, q, p)
              /\ RowSound(order'[r]) /\ held'[r] >= Claim(order'[r])
              /\ y1.left = 0 => y1.state = "CLOSED"
              /\ y1.state \in {"OPENED", "CLOSED"}
              /\ order[r].state = "OPENED" /\ order'[r].market = order[r].market /\ r \notin voided
  <2>1. /\ r \notin voided /\ ~Void(y, q, p) /\ ~VoidCancels(y, q, p) /\ Saved(y, q, p) = y1
        /\ order[r].state = "OPENED" /\ y.left <= order[r].left /\ y.state = "OPENED"
        /\ y = [order[r] EXCEPT !.left = y.left] /\ ~order[r].market
    BY <1>8, <1>13, <1>27
  <2>2. order'[r] = IF DustCancels(y1) THEN y2 ELSE y1
    BY <1>14, <1>22, <2>1
  <2>3. RowSound(order[r]) /\ held[r] >= Claim(order[r]) /\ held[r] \in Int /\ order[r] \in Row
    BY <1>6, <1>7, <2>1 DEF RowsInv
  <2>4. y.cost = order[r].cost /\ y.market = order[r].market
    <3>1. PICK w \in Row : w = order[r]
      BY <2>3
    <3>2. y = [w EXCEPT !.left = y.left]
      BY <2>1, <3>1
    <3>3. y.cost = w.cost /\ y.market = w.market
      BY <3>2 DEF Row
    <3> QED BY <3>1, <3>3
  <2>5. Claim(y) <= Claim(order[r]) /\ Claim(order[r]) \in Nat /\ Claim(y) \in Nat
    BY <1>8, <2>1, <2>3, LessIsClaimed
  <2>6. held[r] >= Claim(y)
    BY <2>3, <2>5
  <2>7. y1 = Filled(y, q, p)
    BY DEF y1
  <2>8. y.cost = 0
    <3>1. ~MarketBuy(order[r])
      BY <2>1 DEF MarketBuy
    <3> QED BY <2>1, <2>3, <2>4, <3>1 DEF RowSound
  <2>9. /\ RowSound(y1) /\ held[r] - Released(y, q, p) >= Claim(y1)
        /\ y1.state \in {"CLOSED", y.state}
        /\ y1.left = 0 => y1.state = "CLOSED"
    BY <1>4, <1>8, <1>9, <2>1, <2>3, <2>6, <2>7, <2>8, FillIsCovered
  <2>10. ~MarketBuy(y1) /\ ~MarketBuy(y2) /\ y1.left \in Nat
    BY <1>8, <1>9, <1>10, <1>11, RowFields DEF MarketBuy
  <2>11. RowSound(order'[r])
    BY <1>11, <2>2, <2>9, <2>10, <1>10, <1>8, <2>1 DEF RowSound
  <2>12. Released(y, q, p) \in Nat
    <3>1. order \in [OrderIds -> Row]
      BY <1>7
    <3> QED BY <1>4, <1>8, <1>9, <3>1, CreditIsNat
  <2>13. held'[r] >= Claim(order'[r])
    <3>1. CASE DustCancels(y1)
      <4>1. y1.state = "OPENED" /\ y1.op = "SELL" /\ DustRefund(y1) = y1.left
        BY <3>1 DEF DustCancels, IsDust, DustRefund
      <4>2. Claim(y1) = y1.left
        BY <4>1 DEF Claim, Refund
      <4>3. Claim(order'[r]) = 0
        BY <1>11, <2>2, <3>1 DEF Claim
      <4> QED BY <1>22, <2>3, <2>9, <2>10, <2>12, <4>1, <4>2, <4>3
    <3>2. CASE ~DustCancels(y1)
      <4>1. DustRefund(y1) = 0 /\ order'[r] = y1
        BY <2>2, <3>2 DEF DustRefund
      <4>2. held'[r] = held[r] - Released(y, q, p)
        BY <1>22, <2>3, <2>12, <4>1
      <4> QED BY <2>9, <4>1, <4>2
    <3> QED BY <3>1, <3>2
  <2>14. order'[r].market = order[r].market
    BY <1>10, <1>11, <2>2, <2>4
  <2> QED BY <2>1, <2>2, <2>9, <2>11, <2>13, <2>14
<1>28. Touches({x.id, r})
  <2>1. \A n \in OrderIds \ {x.id, r} : stack'[n] = stack[n]
    BY <1>5, <1>7, <1>8, <1>15, <1>16 DEF Removed, Stacks
  <2>2. \A n \in OrderIds \ {x.id, r} : ~Working(n)'
    BY <1>10, <1>18 DEF Working
  <2>3. matches \subseteq matches'
    BY <1>20
  <2> QED BY <1>2, <1>7, <1>23, <1>24, <1>25, <2>1, <2>2, <2>3 DEF Touches
<1>29. Given({x.id, r})
  BY <1>7, <1>8 DEF Given
<1>30. Advances(x.id) /\ Advances(r) /\ StaysMarket(x.id) /\ StaysMarket(r)
  <2>1. Advances(x.id)
    BY <1>26 DEF Advances
  <2>2. Advances(r)
    BY <1>27 DEF Advances
  <2>3. StaysMarket(x.id)
    BY <1>7, <1>10, <1>26 DEF StaysMarket
  <2>4. StaysMarket(r)
    BY <1>8, <1>27 DEF StaysMarket
  <2> QED BY <2>1, <2>2, <2>3, <2>4
(* Both have something left only when one of the fills is void. *)
<1>31. \/ x.id \in voided' \/ r \in voided'
       \/ order'[x.id].state # "OPENED" \/ order'[r].state # "OPENED"
  <2> SUFFICES ASSUME x.id \notin voided', r \notin voided'
               PROVE  order'[x.id].state # "OPENED" \/ order'[r].state # "OPENED"
    OBVIOUS
  <2>1. x1.left = 0 \/ y1.left = 0
    <3>1. x.left \in Nat /\ y.left \in Nat
      BY <1>7, <1>8, RowFields
    <3> QED BY <1>9, <1>10, <3>1
  <2>2. CASE x1.left = 0
    BY <1>26, <2>2
  <2>3. CASE y1.left = 0
    BY <1>11, <1>27, <2>3
  <2> QED BY <2>1, <2>2, <2>3
<1>32. ASSUME NEW m \in matches' \ matches PROVE PairEnds(m)'
  <2>1. (m[1] = x.id /\ m[2] = r) \/ (m[1] = r /\ m[2] = x.id)
    BY <1>19, <1>20
  <2> QED BY <1>25, <1>31, <2>1 DEF PairEnds
<1>33. RowsInv'
  <2>1. \A o \in {x.id, r} : Advances(o)
    BY <1>30
  <2>2. \A o \in {x.id, r} \ voided' : RowSound(order'[o]) /\ held'[o] >= Claim(order'[o])
    BY <1>26, <1>27
  <2> QED BY <1>2, <1>6, <1>28, <1>32, <2>1, <2>2, RowsStay
<1>34. SnapshotsInv' /\ RequestsInv'
  <2>1. \A o \in {x.id, r} : StaysMarket(o)
    BY <1>30
  <2> QED BY <1>2, <1>6, <1>28, <1>29, <2>1, WaitingStay
<1>35. BootSound'
  <2>1. boot' \subseteq boot \ {x.id, r}
    BY <1>2, <1>7, <1>8
  <2> QED BY <1>6, <1>7, <1>28, <2>1, BootStays
<1>36. BookSound'
  <2>1. st1[r].row = y1 /\ st1[r].key = p /\ st1[r] = [row |-> y1, key |-> p]
    BY <1>8, <1>15, <1>16 DEF Stacks
  <2>2. st1[x.id] = st[x.id] /\ r \in DOMAIN st1 /\ x.id \in DOMAIN st1
    BY <1>7, <1>8, <1>16 DEF Stacks
  <2>3. ~InStack(stack', x.id)
    <3>1. Removed(st1, r)[x.id] = st1[x.id]
      BY <1>8, <2>2 DEF Removed
    <3>2. stack'[x.id] = st[x.id]
      BY <1>5, <2>2, <3>1
    <3> QED BY <1>16, <3>2 DEF InStack
  <2>4. ASSUME InStack(stack', r) PROVE RestsSound(r)'
    <3>1. ~gone /\ stack' = st1
      <4>1. Removed(st1, r)[r] = NoEntry
        BY <1>10, <2>1, <2>2 DEF Removed
      <4> QED BY <1>5, <2>4, <4>1 DEF InStack
    <3>2. stack'[r].row = y1 /\ stack'[r].key = y1.price
      BY <1>10, <2>1, <3>1
    <3>3. ~Working(r)' /\ r \notin boot'
      BY <1>2, <1>8, <1>10, <1>18 DEF Working
    <3>4. r \notin voided' => order'[r] = y1 /\ y1.state = "OPENED"
      BY <1>17, <1>27, <3>1
    <3>5. y1 = [y1 EXCEPT !.left = y1.left] /\ y1.left <= y1.left
      BY <1>9 DEF Row
    <3>6. r \notin voided' => stack'[r].row = [order'[r] EXCEPT !.left = stack'[r].row.left]
      BY <3>2, <3>4, <3>5
    <3>7. voided' \subseteq Disturbed'
      BY DEF Disturbed
    <3> QED BY <3>2, <3>3, <3>4, <3>5, <3>6, <3>7 DEF RestsSound
  <2>5. \A o \in {x.id, r} : InStack(stack', o) => RestsSound(o)'
    BY <2>3, <2>4
  <2> QED BY <1>2, NotRepricing, <1>6, <1>28, <2>5, BookStays
<1>37. CurSound'
  <2>1. x.id \notin voided' => x1 = order'[x.id] /\ x1.state \in {"OPENED", "CLOSED"}
    BY <1>7, <1>26
  <2> QED BY <1>10, <1>18, <2>1 DEF CurSound
<1>38. MatchedOnce'
  <2>1. ASSUME NEW n \in cur.todo \ {r}, {n, x.id} \cap voided' = {}
        PROVE  <<x.id, n>> \notin matches' /\ <<n, x.id>> \notin matches'
    <3>1. <<x.id, n>> \notin matches /\ <<n, x.id>> \notin matches
      BY <1>2, <1>3, <1>6, <1>24, <2>1 DEF MatchedOnce
    <3>2. n # r
      OBVIOUS
    <3> QED BY <1>8, <1>19, <1>20, <3>1, <3>2
  <2> QED BY <1>10, <1>18, <2>1 DEF MatchedOnce
<1>39. FinalKept
  <2>1. ASSUME NEW o \in OrderIds \ voided, Final(order[o]) PROVE order'[o] = order[o]
    <3>1. CASE o = r
      BY <1>8, <2>1, <3>1 DEF Final
    <3>2. CASE o = x.id
      <4>1. x = order[x.id] /\ x.state = "CLOSED" /\ ~x.market
        BY <1>7, <2>1, <3>2 DEF Final
      <4>2. CASE x.id \notin voided'
        BY <1>26, <3>2, <4>1, <4>2
      <4>3. CASE x.id \in voided'
        <5>1. Void(x, q, p)
          BY <1>5, <1>8, <2>1, <3>2, <4>3
        <5>2. ~VoidCancels(x, q, p)
          BY <4>1 DEF VoidCancels
        <5> QED BY <1>21, <3>2, <5>1, <5>2 DEF Saved
      <4> QED BY <4>2, <4>3
    <3>3. CASE o \notin {x.id, r}
      BY <1>23, <3>3
    <3> QED BY <3>1, <3>2, <3>3
  <2> QED BY <2>1 DEF FinalKept
<1> QED BY <1>33, <1>34, <1>35, <1>36, <1>37, <1>38, <1>39 DEF MirrorKept


(* When execute raises, the resting object may have less left than its row; *)
(* then one of the two had a void fill, or they were never matched before.  *)
LEMMA MatchFailsMirror == MirrorInv /\ MatchFails => MirrorKept
<1> SUFFICES ASSUME MirrorInv, MatchFails PROVE MirrorKept
  OBVIOUS
<1>1. PICK r \in OrderIds :
        LET x == cur.obj
            y == stack[r].row
            p == y.price
            q == FillQuantity(x, y)
            first == VwapFails(x, q, p) \/ (<<x.id, r>> \in matches /\ ~Void(x, q, p))
            st == IF VoidCancels(x, q, p) THEN Removed(stack, x.id) ELSE stack
        IN  /\ Best(r)
            /\ ExecuteFails(x, y, q)
            /\ stack' = IF first THEN stack ELSE [st EXCEPT ![r].row.left = @ - q]
  BY DEF MatchFails
<1>2. /\ cur.phase = "match" /\ cur' = Idle /\ boot' = {}
      /\ UNCHANGED <<dbVars, unsent, queue, onPlace>>
  BY DEF MatchFails
<1>3. PICK x, y : x = cur.obj /\ y = stack[r].row
  OBVIOUS
<1>4. PICK p, q : p = y.price /\ q = FillQuantity(x, y)
  OBVIOUS
<1> DEFINE first == VwapFails(x, q, p) \/ (<<x.id, r>> \in matches /\ ~Void(x, q, p))
           st == IF VoidCancels(x, q, p) THEN Removed(stack, x.id) ELSE stack
           z == [y EXCEPT !.left = @ - q]
           e == [row |-> z, key |-> p]
<1>23. Best(r)
  BY <1>1
<1>5. ExecuteFails(x, y, q) /\ stack' = IF first THEN stack ELSE [st EXCEPT ![r].row.left = @ - q]
  BY <1>1, <1>3, <1>4
<1>6. /\ TypeInv /\ RowsInv /\ SnapshotsInv /\ RequestsInv
      /\ BookSound /\ BootSound /\ CurSound /\ MatchedOnce
  BY MirrorParts
<1>7. /\ x \in Row /\ x.id \in OrderIds /\ order[x.id].state # "NONE" /\ Working(x.id)
      /\ ~InStack(stack, x.id) /\ x.id \notin boot
      /\ Given({x.id})
      /\ voided \subseteq OrderIds /\ matches \subseteq OrderIds \X OrderIds
      /\ onPlace \subseteq OrderIds /\ boot \subseteq OrderIds
      /\ order \in [OrderIds -> Row] /\ stack \in Stacks
  BY <1>2, <1>3, WorkIsSound
<1>8. /\ y \in Row /\ y.id = r /\ InStack(stack, r) /\ r \in cur.todo /\ stack[r].key = p
      /\ r \notin boot /\ r # x.id /\ order[r].state # "NONE" /\ Given({r})
      /\ r \notin voided =>
            /\ order[r].state = "OPENED" /\ y.left <= order[r].left
            /\ y = [order[r] EXCEPT !.left = y.left]
  <2> HIDE DEF first, st, z, e
  <2>1. cur.phase = "match" /\ y = stack[r].row
    BY <1>2, <1>3
  <2> QED BY <1>3, <1>4, <1>23, <2>1, RestingIsSound
<1>9. q \in Nat /\ q <= y.left
  BY <1>2, <1>3, <1>4, <1>23, NextFill
<1>10. /\ st[r] = stack[r] /\ ~InStack(st, x.id) /\ \A n \in OrderIds \ {x.id} : st[n] = stack[n]
  BY <1>7, <1>8, RemovedIsGone
<1>11. st \in Stacks
  <2>1. Removed(stack, x.id) \in Stacks
    BY <1>6, <1>7, StackUpdates DEF TypeInv
  <2> QED BY <1>7, <2>1
<1>12. [st EXCEPT ![r].row.left = @ - q] = [st EXCEPT ![r] = e]
  <2> HIDE DEF st
  <2>1. st[r] \in [row : Row, key : Nat] /\ st[r].row = y /\ st[r].key = p
    BY <1>3, <1>8, <1>10, <1>11 DEF Stacks
  <2>2. z = [st[r].row EXCEPT !.left = st[r].row.left - q]
    BY <2>1
  <2> HIDE DEF z
  <2>3. e = [st[r] EXCEPT !.row = z]
    BY <2>1
  <2> HIDE DEF e
  <2> QED BY <2>2, <2>3
<1>13. /\ y.left \in Nat /\ z.left = y.left - q /\ z.left <= y.left /\ z.price = p
       /\ \A w \in Row : y = [w EXCEPT !.left = y.left] => z = [w EXCEPT !.left = z.left]
  <2>1. y.left \in Nat
    BY <1>8, RowFields
  <2>2. z.left = y.left - q /\ z.price = p
    BY <1>4, <1>8 DEF Row
  <2>3. ASSUME NEW w \in Row, y = [w EXCEPT !.left = y.left] PROVE z = [w EXCEPT !.left = z.left]
    <3>1. PICK n : n = y.left - q
      OBVIOUS
    <3>2. z = [y EXCEPT !.left = n] /\ z.left = n
      BY <2>2, <3>1
    <3> HIDE DEF z
    <3>3. PICK m : m = y.left
      OBVIOUS
    <3>4. y = [w EXCEPT !.left = m]
      BY <2>3, <3>3
    <3>5. [[w EXCEPT !.left = m] EXCEPT !.left = n] = [w EXCEPT !.left = n]
      BY DEF Row
    <3> QED BY <3>2, <3>4, <3>5
  <2> QED BY <1>9, <2>1, <2>2, <2>3
<1>14. first \/ r \in Disturbed
  <2> SUFFICES ASSUME ~first PROVE r \in Disturbed
    OBVIOUS
  <2>1. <<r, x.id>> \in matches
    BY <1>4, <1>5, <1>8 DEF ExecuteFails
  <2>2. r \in voided \/ x.id \in voided
    BY <1>2, <1>3, <1>6, <1>8, <2>1 DEF MatchedOnce
  <2> QED BY <2>1, <2>2 DEF Disturbed
<1>15. stack' = stack \/ (~first /\ stack' = [st EXCEPT ![r] = e])
  BY <1>5, <1>12
<1> HIDE DEF first, st, z
<1>16. \A n \in OrderIds \ {x.id, r} : stack'[n] = stack[n]
  BY <1>10, <1>11, <1>15 DEF Stacks
<1>17. CurSound' /\ MatchedOnce' /\ \A o : ~Working(o)'
  BY <1>2, IdleIsSound
<1>18. Touches({x.id, r}) /\ Given({x.id, r}) /\ \A o \in {x.id, r} : StaysMarket(o)
  <2>1. Given({x.id, r})
    BY <1>7, <1>8 DEF Given
  <2>2. \A o \in {x.id, r} : StaysMarket(o)
    BY <1>2, <1>7, <1>8 DEF StaysMarket, dbVars
  <2>3. Touches({x.id, r})
    BY <1>2, <1>7, <1>8, <1>16, <1>17 DEF Touches, dbVars
  <2> QED BY <2>1, <2>2, <2>3
<1>19. RowsInv' /\ FinalKept
  BY <1>2, <1>6, RowsUntouched
<1>20. SnapshotsInv' /\ RequestsInv'
  BY <1>2, <1>6, <1>18, WaitingStay
<1>21. BootSound'
  <2>1. boot' \subseteq boot \ {x.id, r}
    BY <1>2, <1>7, <1>8
  <2> QED BY <1>6, <1>7, <1>18, <2>1, BootStays
<1>22. BookSound'
  <2>1. ~InStack(stack', x.id)
    BY <1>7, <1>8, <1>10, <1>11, <1>15 DEF InStack, Stacks
  <2>2. RestsSound(r)'
    <3>1. order' = order /\ voided' = voided /\ r \notin boot' /\ ~Working(r)'
      BY <1>2, <1>17 DEF dbVars
    <3>2. Disturbed' = Disturbed
      BY <1>2 DEF dbVars, Disturbed
    <3>3. RestsSound(r)
      BY <1>6, <1>8 DEF BookSound
    <3>4. CASE stack' = stack
      BY <1>2, <1>8, NotRepricing, <3>1, <3>2, <3>3, <3>4 DEF RestsSound
    <3>5. CASE ~first /\ stack' = [st EXCEPT ![r] = e]
      <4>1. stack'[r] = e
        BY <1>11, <3>5 DEF Stacks
      <4>2. stack'[r].row = z /\ stack'[r].key = z.price
        BY <1>13, <4>1
      <4>3. r \notin voided => order[r].state = "OPENED" /\ z.left <= order[r].left
                                /\ z = [order[r] EXCEPT !.left = z.left]
        <5>1. order[r] \in Row
          BY <1>7
        <5>2. PICK w \in Row : w = order[r]
          BY <5>1
        <5>3. w.left \in Nat
          BY RowFields
        <5> QED BY <1>8, <1>9, <1>13, <5>2, <5>3
      <4> QED BY <1>8, <1>14, <3>1, <3>2, <3>5, <4>2, <4>3 DEF RestsSound
    <3> QED BY <1>15, <3>4, <3>5
  <2>3. \A o \in {x.id, r} : InStack(stack', o) => RestsSound(o)'
    BY <2>1, <2>2
  <2> QED BY <1>2, NotRepricing, <1>6, <1>18, <2>3, BookStays
<1> QED BY <1>17, <1>19, <1>20, <1>21, <1>22 DEF MirrorKept

-----------------------------------------------------------------------------
(* The theorems.                                                           *)

LEMMA MirrorInit == Init => MirrorInv
<1> SUFFICES ASSUME Init PROVE MirrorInv
  OBVIOUS
<1>1. TypeInv
  BY TypeInit
<1>2. \A o \in OrderIds : order[o] = NoRow /\ held[o] = 0 /\ ~InStack(stack, o)
  BY DEF Init, InStack
<1>3. NoRow.state = "NONE"
  BY DEF NoRow
<1>4. RowSound(NoRow) /\ Claim(NoRow) = 0
  BY <1>3 DEF RowSound, Claim
<1>5. RowsInv
  BY <1>2, <1>3, <1>4 DEF Init, RowsInv
<1>6. SnapshotsInv /\ RequestsInv
  <2>1. 1 .. Len(queue) = {}
    BY DEF Init
  <2> QED BY <1>2, <1>3, <2>1 DEF Init, SnapshotsInv, RequestsInv
<1>7. BookSound /\ BootSound
  BY <1>2 DEF Init, BookSound, BootSound
<1>8. CurSound /\ MatchedOnce
  BY DEF Init, Idle, CurSound, MatchedOnce
<1> QED BY <1>1, <1>5, <1>6, <1>7, <1>8, MirrorParts

LEMMA MirrorStep == Orderly /\ MirrorInv /\ [Next]_vars => MirrorInv' /\ FinalKept
<1> SUFFICES ASSUME Orderly, MirrorInv, [Next]_vars PROVE MirrorInv' /\ FinalKept
  OBVIOUS
<1>1. TypeInv'
  BY TypeNext, MirrorParts
<1> SUFFICES MirrorKept
  BY <1>1 DEF MirrorKept, MirrorInv, MemoryInv
<1>2. CASE Web
  BY <1>2, CreateOrderMirror, RequestCancelMirror, RequestUpdateMirror, RequestMarketMirror DEF Web
<1>3. CASE Worker
  BY <1>3, PlaceOrderMirror, CancelOrderMirror, UpdateOrderMirror, MarketOrderMirror,
     MarketExecuteMirror, MatchMirror, MatchFailsMirror, FinishMirror, LoadOpenedOrderMirror
     DEF Worker
<1>4. CASE SendPlaceOrder \/ Restart \/ Redeliver \/ CancelKeyExpires
  BY <1>4, SendPlaceOrderMirror, RestartMirror, RedeliverMirror, CancelKeyMirror
<1>5. CASE UNCHANGED vars
  BY <1>5, NothingMirror DEF vars
<1> QED BY <1>2, <1>3, <1>4, <1>5 DEF Next, Quiescent

(* The worker's memory and the database stay in step, after any sequence of *)
(* fills, updates, cancels, redeliveries and restarts.                     *)
THEOREM MirrorSound == ASSUME Orderly PROVE Spec => []MirrorInv
<1>1. Init => MirrorInv
  BY MirrorInit
<1>2. MirrorInv /\ [Next]_vars => MirrorInv'
  BY MirrorStep
<1> QED BY <1>1, <1>2, PTL DEF Spec

(* Only SpecialOrders changes the prices of many rows. *)
Settled == cur.phase # "reprice"

LEMMA NoRepricing == TypeInv /\ Settled /\ [Next]_vars => Settled'
<1> SUFFICES ASSUME TypeInv, cur.phase # "reprice", [Next]_vars PROVE cur'.phase # "reprice"
  BY DEF Settled
<1>1. cur \in Works
  BY DEF TypeInv, TypeOK, Works
<1>2. Idle.phase # "reprice"
  BY DEF Idle
<1>3. \A x, st : Process(x, st) => cur'.phase # "reprice"
  BY <1>2 DEF Process
<1>4. CASE PlaceOrderTask \/ UpdateOrderTask \/ LoadOpenedOrder
  <2>1. PlaceOrderTask => cur' = cur \/ \E x, st : Process(x, st)
    BY DEF PlaceOrderTask
  <2>2. UpdateOrderTask => cur' = cur \/ \E x, st : Process(x, st)
    BY DEF UpdateOrderTask
  <2>3. LoadOpenedOrder => cur'.phase = "market" \/ \E x, st : Process(x, st)
    BY DEF LoadOpenedOrder
  <2> QED BY <1>3, <1>4, <2>1, <2>2, <2>3
<1>10. CASE MarketOrderTask
  <2>1. cur' = cur \/ cur'.phase = "market"
    BY <1>10 DEF MarketOrderTask
  <2> QED BY <2>1
<1>5. CASE MarketExecute
  <2>1. cur' = Idle \/ \E T : cur' = [cur EXCEPT !.phase = "match", !.todo = T]
    BY <1>5 DEF MarketExecute
  <2> QED BY <1>1, <1>2, <2>1 DEF Works
<1>6. CASE Match
  BY <1>1, <1>6 DEF Match, Execute, Works
<1>7. CASE MatchFails \/ Finish \/ Restart
  BY <1>2, <1>7 DEF MatchFails, Finish, Restart
<1>8. CASE Web \/ SendPlaceOrder \/ CancelOrderTask \/ Redeliver \/ CancelKeyExpires
  BY <1>8 DEF Web, CreateOrder, RequestCancel, RequestUpdate, RequestMarket, SendPlaceOrder,
              CancelOrderTask, Redeliver, CancelKeyExpires
<1>9. CASE UNCHANGED vars
  BY <1>9 DEF vars
<1> QED BY <1>4, <1>5, <1>6, <1>7, <1>8, <1>9, <1>10 DEF Next, Worker, Quiescent

LEMMA MirrorIsMemory == MirrorInv /\ Settled => MemoryMirrorsDatabase
<1> SUFFICES ASSUME MirrorInv, cur.phase # "reprice" PROVE MemoryMirrorsDatabase
  BY DEF Settled
<1>1. BookSound /\ CurSound
  BY MirrorParts
<1>2. voided \subseteq Disturbed
  BY DEF Disturbed
<1> QED BY <1>1, <1>2 DEF MemoryMirrorsDatabase, BookSound, RestsSound, CurSound

(* What the worker matches with is what the database holds: matching_orders *)
(* and execute never decide from an order that is not the committed row.   *)
THEOREM MemoryMirrors == ASSUME Orderly PROVE Spec => []MemoryMirrorsDatabase
<1>1. Init => Settled
  BY DEF Init, Idle, Settled
<1>2. MirrorInv => TypeInv
  BY MirrorParts
<1> QED BY <1>1, <1>2, NoRepricing, MirrorIsMemory, MirrorSound, PTL DEF Spec

(* What was taken for an order and is still held covers what execute, cancel *)
(* and update may still give back: rounding never favours the owner.       *)
THEOREM HoldsCover == ASSUME Orderly PROVE Spec => []HoldCovers
<1>1. MirrorInv => HoldCovers
  BY MirrorParts DEF RowsInv, HoldCovers
<1> QED BY <1>1, MirrorSound, PTL

(* No two orders are matched a second time, so the unique constraint on    *)
(* ExecutionResult does not make execute raise.                            *)
THEOREM OrdersMatchOnce == ASSUME Orderly PROVE Spec => []MatchedOnce
<1>1. MirrorInv => MatchedOnce
  BY MirrorParts
<1> QED BY <1>1, MirrorSound, PTL

(* No late task, stale object or restart changes a row that has ended.     *)
THEOREM FinalRowsKept == ASSUME Orderly PROVE Spec => FinalRowsStay
<1>1. MirrorInv /\ [Next]_vars =>
        [\A o \in OrderIds \ voided :
            order[o].state = "CANCELED" \/ (order[o].state = "CLOSED" /\ ~order[o].market)
                => order'[o] = order[o]]_vars
  BY MirrorStep DEF FinalKept, Final
<1> QED BY <1>1, MirrorSound, PTL DEF Spec, FinalRowsStay

-----------------------------------------------------------------------------
(***************************************************************************)
(* Theorems of OrderBook about the order in which orders are matched, for  *)
(* every value of its constants under Orderly: price-time priority, a book *)
(* that is never crossed between tasks, and market sells that fill.        *)
(***************************************************************************)

-----------------------------------------------------------------------------
(* What a set of offers is worth to an order.                              *)

(* What one offer counts. *)
Worth(x, st) ==
    [o \in OrderIds |-> st[o].row.left * (IF MarketBuy(x) THEN st[o].row.price ELSE 1)]

(* There are finitely many orders. *)
LEMMA OrdersAreFinite == \A S : S \subseteq OrderIds => IsFiniteSet(S)
<1>1. IsFiniteSet(OrderIds)
  BY OrderBookAssumption, FS_Interval DEF OrderIds
<1> QED BY <1>1, FS_Subset

(* What an offer counts is a natural number. *)
LEMMA WorthIsNat ==
    ASSUME NEW x, NEW st \in Stacks
    PROVE  \A o \in OrderIds : Worth(x, st)[o] \in Nat
<1> SUFFICES ASSUME NEW o \in OrderIds PROVE Worth(x, st)[o] \in Nat
  OBVIOUS
<1>1. st[o].row.left \in Nat /\ st[o].row.price \in Nat
  BY DEF Stacks, Row
<1>2. \A m, n \in Nat : m * n \in Nat
  OBVIOUS
<1> QED BY <1>1, <1>2 DEF Worth

(* Offered is the sum of it. *)
LEMMA OfferedIsSum ==
    ASSUME NEW x, NEW st, NEW S, S \subseteq OrderIds
    PROVE  Offered(x, st, S) = SumFunctionOnSet(Worth(x, st), S)
<1> DEFINE f == [o \in S |-> st[o].row.left * (IF MarketBuy(x) THEN st[o].row.price ELSE 1)]
           g == Worth(x, st)
<1>1. Offered(x, st, S) = SumFunctionOnSet(f, S)
  BY DEF Offered, SumFunction
<1>2. \A o \in S : f[o] = g[o]
  BY DEF Worth
<1>3. IsFiniteSet(S)
  BY OrdersAreFinite
<1> HIDE DEF f, g
<1>4. SumFunctionOnSet(f, S) = SumFunctionOnSet(g, S)
  BY <1>2, <1>3, SumOfEqual
<1> QED BY <1>1, <1>4 DEF g

(* Fewer offers are worth no more, and none are worth nothing. *)
LEMMA OfferedGrows ==
    ASSUME NEW x, NEW st \in Stacks, NEW S, S \subseteq OrderIds
    PROVE  /\ Offered(x, st, S) \in Nat
           /\ Offered(x, st, {}) = 0
           /\ \A U \in SUBSET S : Offered(x, st, U) <= Offered(x, st, S)
<1> DEFINE g == Worth(x, st)
<1>1. IsFiniteSet(S) /\ \A o \in S : g[o] \in Nat
  BY OrdersAreFinite, WorthIsNat
<1>2. /\ Offered(x, st, {}) = SumFunctionOnSet(g, {})
      /\ Offered(x, st, S) = SumFunctionOnSet(g, S)
      /\ \A U \in SUBSET S : Offered(x, st, U) = SumFunctionOnSet(g, U)
  BY OfferedIsSum
<1> HIDE DEF g
<1>3. SumFunctionOnSet(g, S) \in Nat
  BY <1>1, SumIsNat
<1>4. SumFunctionOnSet(g, {}) = 0
  BY SumOfNone
<1>5. \A U \in SUBSET S : SumFunctionOnSet(g, U) <= SumFunctionOnSet(g, S)
  BY <1>1, SumOfPart
<1> QED BY <1>2, <1>3, <1>4, <1>5

(* One offer of several. *)
LEMMA OfferedWithout ==
    ASSUME NEW x, NEW st \in Stacks, NEW S, S \subseteq OrderIds, NEW r \in S
    PROVE  Offered(x, st, S) = Worth(x, st)[r] + Offered(x, st, S \ {r})
<1> DEFINE g == Worth(x, st)
<1>1. IsFiniteSet(S) /\ \A o \in S : g[o] \in Int
  BY OrdersAreFinite, WorthIsNat
<1>2. /\ Offered(x, st, S) = SumFunctionOnSet(g, S)
      /\ Offered(x, st, S \ {r}) = SumFunctionOnSet(g, S \ {r})
  BY OfferedIsSum
<1> HIDE DEF g
<1>3. SumFunctionOnSet(g, S) = g[r] + SumFunctionOnSet(g, S \ {r})
  BY <1>1, SumWithout
<1> QED BY <1>2, <1>3 DEF g

(* It depends on the objects of the offers and on the kind of the order. *)
LEMMA OfferedSame ==
    ASSUME NEW x, NEW y, MarketBuy(x) = MarketBuy(y), NEW st, NEW su, NEW S, S \subseteq OrderIds,
           \A o \in S : su[o] = st[o]
    PROVE  Offered(y, su, S) = Offered(x, st, S)
<1>1. [o \in S |-> su[o].row.left * (IF MarketBuy(y) THEN su[o].row.price ELSE 1)]
        = [o \in S |-> st[o].row.left * (IF MarketBuy(x) THEN st[o].row.price ELSE 1)]
  OBVIOUS
<1> QED BY <1>1 DEF Offered

-----------------------------------------------------------------------------
(* The order in which offers come.                                         *)

(* Before is a strict order on the orders of one operation. *)
LEMMA BeforeIsOrder ==
    ASSUME NEW x \in Row, NEW y \in Row, x.op = y.op, Before(x, y)
    PROVE  /\ ~Before(y, x)
           /\ \A z \in Row : z.op = x.op /\ Before(y, z) => Before(x, z)
<1>1. /\ x.price \in Nat /\ y.price \in Nat /\ x.id \in Int /\ y.id \in Int
      /\ \A z \in Row : z.price \in Nat /\ z.id \in Int
  BY DEF Row
<1>2. ~Before(y, x)
  BY <1>1 DEF Before
<1>3. ASSUME NEW z \in Row, z.op = x.op, Before(y, z) PROVE Before(x, z)
  BY <1>1, <1>3 DEF Before
<1> QED BY <1>2, <1>3

(* Some order of a finite set comes after none of the others. *)
LEMMA FirstExists ==
    ASSUME NEW st \in Stacks, NEW S, S \subseteq OrderIds, S # {},
           \A m, n \in S : st[m].row.op = st[n].row.op
    PROVE  \E m \in S : \A n \in S : ~Before(st[n].row, st[m].row)
<1> DEFINE T == {s \in SUBSET S : s # {} => \E m \in s : \A n \in s : ~Before(st[n].row, st[m].row)}
<1>0. \A o \in S : st[o].row \in Row
  BY DEF Stacks
<1>1. ASSUME NEW s \in SUBSET S, \A t \in SUBSET s : t # s => t \in T
      PROVE  s \in T
  <2> SUFFICES ASSUME s # {} PROVE \E m \in s : \A n \in s : ~Before(st[n].row, st[m].row)
    OBVIOUS
  <2>1. PICK c \in s : TRUE
    OBVIOUS
  <2>2. ~Before(st[c].row, st[c].row)
    BY <1>0, BeforeIsOrder
  <2>3. CASE s \ {c} = {}
    BY <2>2, <2>3
  <2>4. CASE s \ {c} # {}
    <3>0. s \ {c} \in T
      <4> HIDE DEF T
      <4>1. s \ {c} \in SUBSET s /\ s \ {c} # s
        OBVIOUS
      <4> QED BY <1>1, <4>1
    <3>1. PICK m \in s \ {c} : \A n \in s \ {c} : ~Before(st[n].row, st[m].row)
      BY <2>4, <3>0
    <3>2. CASE ~Before(st[c].row, st[m].row)
      BY <3>1, <3>2
    <3>3. CASE Before(st[c].row, st[m].row)
      <4>1. \A n \in s \ {c} : Before(st[n].row, st[c].row) => Before(st[n].row, st[m].row)
        BY <1>0, <3>3, BeforeIsOrder
      <4> QED BY <2>2, <3>1, <4>1
    <3> QED BY <3>2, <3>3
  <2> QED BY <2>3, <2>4
<1>2. IsFiniteSet(S)
  BY OrdersAreFinite
<1> HIDE DEF T
<1>3. S \in T
  BY <1>1, <1>2, SetInduction
<1> QED BY <1>3 DEF T

-----------------------------------------------------------------------------
(* The orders that matching_orders selects.                                *)

(* Their better ones are among them, and all but the last are used up. *)
LEMMA MatchingIsBest ==
    ASSUME NEW st \in Stacks, NEW x \in Row, NEW v
    PROVE  BestFirst(x, st, Matching(x, st), v)
<1> DEFINE O == Offers(x, st)
           T == Matching(x, st)
           b(o) == {n \in O : Before(st[n].row, st[o].row)}
<1>1. /\ T \subseteq O /\ O \subseteq OrderIds
      /\ \A o \in O : o \in T <=> Offered(x, st, b(o)) < Wanted(x)
  BY DEF Matching, Offers
<1>2. /\ \A o \in OrderIds : st[o].row \in Row
      /\ \A o \in O : st[o].row.op # x.op
      /\ Wanted(x) \in Nat
  <2>1. \A o \in O : st[o].row.op # x.op
    BY DEF Offers
  <2>2. Wanted(x) \in Nat
    BY RowFields, MoneyAssumption DEF Wanted
  <2> QED BY <2>1, <2>2 DEF Stacks
<1>3. \A m, n \in O : st[m].row.op = st[n].row.op
  BY <1>1, <1>2, RowFields
<1>4. \A o \in O : \A n \in b(o) : b(n) \subseteq b(o)
  <2> SUFFICES ASSUME NEW o \in O, NEW n \in b(o), NEW m \in b(n) PROVE m \in b(o)
    OBVIOUS
  <2>1. Before(st[m].row, st[n].row) /\ Before(st[n].row, st[o].row)
    OBVIOUS
  <2>2. /\ st[m].row \in Row /\ st[n].row \in Row /\ st[o].row \in Row
        /\ st[m].row.op = st[n].row.op /\ st[o].row.op = st[m].row.op
    BY <1>1, <1>2, <1>3
  <2> QED BY <2>1, <2>2, BeforeIsOrder
<1>5. \A o : b(o) \subseteq O
  OBVIOUS
<1>6. ASSUME NEW r \in T, NEW n \in OrderIds, InStack(st, n), SameSide(st[n].row, st[r].row),
             Before(st[n].row, st[r].row)
      PROVE  n \in O
  <2>1. /\ r \in OrderIds /\ SameBook(x, st[r].row)
        /\ PriceMatch(x, st[r].row.price) /\ st[r].row.op # x.op
    BY <1>1 DEF Offers
  <2>2. st[n].row.op = st[r].row.op /\ SameBook(x, st[n].row)
    BY <1>6, <2>1 DEF SameSide, SameBook
  <2>3. PriceMatch(x, st[n].row.price)
    <3>1. /\ x.op \in {"BUY", "SELL"} /\ st[r].row.op \in {"BUY", "SELL"} /\ x.price \in Nat
          /\ st[r].row.price \in Nat /\ st[n].row.price \in Nat
      BY <1>2, <2>1, RowFields
    <3> QED BY <1>6, <2>1, <2>2, <3>1 DEF PriceMatch, Before
  <2> QED BY <1>6, <2>1, <2>2, <2>3 DEF Offers
<1> HIDE DEF O, T
<1>7. ASSUME NEW r \in T
      PROVE  /\ Offered(x, st, Ahead(st, T, r)) < Wanted(x)
             /\ \A n \in OrderIds \ v :
                   /\ InStack(st, n) /\ SameSide(st[n].row, st[r].row)
                   /\ Before(st[n].row, st[r].row)
                   => n \in T
  <2>1. b(r) \subseteq OrderIds /\ Ahead(st, T, r) \in SUBSET b(r)
    BY <1>1 DEF Ahead
  <2>2. Offered(x, st, b(r)) < Wanted(x)
    BY <1>1
  <2>3. \A U \in SUBSET b(r) : Offered(x, st, U) < Wanted(x)
    <3> DEFINE B == b(r)
    <3>1. B \subseteq OrderIds /\ Offered(x, st, B) < Wanted(x)
      BY <2>1, <2>2
    <3> HIDE DEF B
    <3>2. Offered(x, st, B) \in Nat /\ \A U \in SUBSET B : Offered(x, st, U) <= Offered(x, st, B)
      BY <3>1, OfferedGrows
    <3>3. \A U \in SUBSET B : Offered(x, st, U) \in Nat
      BY <3>1, OfferedGrows
    <3>4. \A U \in SUBSET B : Offered(x, st, U) < Wanted(x)
      BY <1>2, <3>1, <3>2, <3>3
    <3> QED BY <3>4 DEF B
  <2>4. ASSUME NEW n \in OrderIds \ v, InStack(st, n), SameSide(st[n].row, st[r].row),
               Before(st[n].row, st[r].row)
        PROVE  n \in T
    <3>1. n \in O /\ r \in O
      BY <1>1, <1>6, <2>4
    <3>2. b(n) \in SUBSET b(r)
      BY <1>4, <2>4, <3>1
    <3> QED BY <1>1, <2>3, <3>1, <3>2
  <2> QED BY <2>1, <2>3, <2>4
<1> QED BY <1>7 DEF BestFirst, T

(* They cover an order that all offers cover, or are all the offers. *)
LEMMA MatchingIsEnough ==
    ASSUME NEW st \in Stacks, NEW x \in Row, NEW v, ~MarketBuy(x)
    PROVE  /\ Covers(x, st, Matching(x, st)) \/ Offers(x, st) = Matching(x, st)
           /\ Fulfilled(x, st) => Covers(x, st, Matching(x, st))
<1> DEFINE O == Offers(x, st)
           T == Matching(x, st)
           b(o) == {n \in O : Before(st[n].row, st[o].row)}
<1>1. /\ T \subseteq O /\ O \subseteq OrderIds
      /\ \A o \in O : o \in T <=> Offered(x, st, b(o)) < Wanted(x)
  BY DEF Matching, Offers
<1>2. /\ \A o \in OrderIds : st[o].row \in Row
      /\ \A o \in O : st[o].row.op # x.op
      /\ Wanted(x) = x.left /\ x.left \in Nat
  <2>1. \A o \in O : st[o].row.op # x.op
    BY DEF Offers
  <2>2. Wanted(x) = x.left /\ x.left \in Nat
    BY RowFields DEF Wanted
  <2> QED BY <2>1, <2>2 DEF Stacks
<1>3. \A m, n \in O : st[m].row.op = st[n].row.op
  BY <1>1, <1>2, RowFields
<1>4. Fulfilled(x, st) => Covers(x, st, O)
  BY <1>2 DEF Fulfilled, Covers
<1> HIDE DEF O, T
<1>5. ASSUME O # T PROVE Covers(x, st, T)
  <2> DEFINE S == O \ T
  <2>1. S # {} /\ S \subseteq OrderIds /\ \A m, n \in S : st[m].row.op = st[n].row.op
    BY <1>1, <1>3, <1>5
  <2> HIDE DEF S
  <2>2. PICK m \in S : \A n \in S : ~Before(st[n].row, st[m].row)
    BY <2>1, FirstExists
  <2>3. m \in O /\ m \notin T /\ b(m) \in SUBSET T
    BY <2>2 DEF S
  <2>4. Offered(x, st, b(m)) \in Nat /\ Offered(x, st, T) \in Nat
        /\ Offered(x, st, b(m)) <= Offered(x, st, T)
    <3> DEFINE B == b(m)
    <3>1. B \in SUBSET T /\ B \subseteq OrderIds /\ T \subseteq OrderIds
      BY <1>1, <2>3
    <3> HIDE DEF B
    <3>2. Offered(x, st, B) \in Nat /\ Offered(x, st, T) \in Nat
          /\ Offered(x, st, B) <= Offered(x, st, T)
      BY <3>1, OfferedGrows
    <3> QED BY <3>2 DEF B
  <2>5. ~(Offered(x, st, b(m)) < Wanted(x))
    BY <1>1, <2>3
  <2> QED BY <1>2, <2>4, <2>5 DEF Covers
<1> QED BY <1>4, <1>5 DEF O, T

-----------------------------------------------------------------------------
(* Steps that leave the match in progress alone, and the book.             *)

(* st holds no order but those of stack, with their terms. *)
Shrinks(st, su, v) ==
    \A o \in OrderIds \ v :
        InStack(su, o) => /\ InStack(st, o)
                          /\ su[o].row.op = st[o].row.op /\ su[o].row.user = st[o].row.user
                          /\ su[o].row.price = st[o].row.price

(* A book does not become crossed by losing orders. *)
LEMMA UncrossedShrinks ==
    ASSUME NEW st, NEW su, NEW v, NEW w, v \subseteq w, Uncrossed(st, v), Shrinks(st, su, w)
    PROVE  Uncrossed(su, w)
<1> SUFFICES ASSUME NEW b \in OrderIds \ w, NEW s \in OrderIds \ w,
                    InStack(su, b), su[b].row.op = "BUY", InStack(su, s), su[s].row.op = "SELL",
                    SameBook(su[b].row, su[s].row)
             PROVE  su[b].row.price < su[s].row.price
  BY DEF Uncrossed
<1>1. /\ b \in OrderIds \ v /\ s \in OrderIds \ v
      /\ InStack(st, b) /\ st[b].row.op = "BUY" /\ InStack(st, s) /\ st[s].row.op = "SELL"
      /\ SameBook(st[b].row, st[s].row)
      /\ su[b].row.price = st[b].row.price /\ su[s].row.price = st[s].row.price
  BY DEF Shrinks, SameBook
<1> QED BY <1>1 DEF Uncrossed

(* An order without offers joins it. *)
LEMMA UncrossedAdds ==
    ASSUME NEW st \in Stacks, NEW v, Uncrossed(st, v), NEW x \in Row, x.id \in OrderIds,
           ~InStack(st, x.id), ~x.market, x.id \in v \/ Offers(x, st) \ v = {}
    PROVE  Uncrossed(Added(st, x), v)
<1> DEFINE su == Added(st, x)
<1>1. su[x.id].row = x /\ \A o \in OrderIds \ {x.id} : su[o] = st[o]
  BY DEF Added, Stacks
<1>2. \A o \in OrderIds \ {x.id} : InStack(su, o) = InStack(st, o)
  BY <1>1 DEF InStack
<1> SUFFICES ASSUME NEW b \in OrderIds \ v, NEW s \in OrderIds \ v,
                    InStack(su, b), su[b].row.op = "BUY", InStack(su, s), su[s].row.op = "SELL",
                    SameBook(su[b].row, su[s].row)
             PROVE  su[b].row.price < su[s].row.price
  BY DEF Uncrossed
<1> HIDE DEF su
<1>3. \A o \in OrderIds \ v : o \notin Offers(x, st) \/ x.id \in v
  OBVIOUS
<1>4. /\ \A o \in OrderIds : st[o].row.price \in Nat
      /\ x.price \in Nat
  BY DEF Stacks, Row
<1>5. CASE b = x.id
  <2>1. /\ su[b].row = x /\ x.op = "BUY" /\ s # x.id /\ su[s] = st[s] /\ InStack(st, s)
        /\ st[s].row.op = "SELL" /\ SameBook(x, st[s].row) /\ s \notin Offers(x, st)
    BY <1>1, <1>2, <1>3, <1>5
  <2>2. ~PriceMatch(x, st[s].row.price)
    BY <2>1 DEF Offers
  <2> QED BY <1>4, <2>1, <2>2 DEF PriceMatch
<1>6. CASE s = x.id
  <2>1. /\ su[s].row = x /\ x.op = "SELL" /\ b # x.id /\ su[b] = st[b] /\ InStack(st, b)
        /\ st[b].row.op = "BUY" /\ SameBook(st[b].row, x) /\ b \notin Offers(x, st)
    BY <1>1, <1>2, <1>3, <1>6
  <2>2. ~PriceMatch(x, st[b].row.price)
    BY <2>1 DEF Offers, SameBook
  <2> QED BY <1>4, <2>1, <2>2 DEF PriceMatch
<1>7. CASE b # x.id /\ s # x.id
  <2>1. su[b] = st[b] /\ su[s] = st[s] /\ InStack(st, b) /\ InStack(st, s)
    BY <1>1, <1>2, <1>7
  <2> QED BY <2>1 DEF Uncrossed
<1> QED BY <1>5, <1>6, <1>7

(* A step that leaves the worker's memory and the void fills alone. *)
LEMMA MatchingUntouched ==
    ASSUME MatchingInv, stack' = stack, cur' = cur, voided' = voided
    PROVE  MatchingInv'
<1> USE DEF MatchingInv
<1> QED OBVIOUS

(* A step that leaves nothing at work. *)
LEMMA MatchingIdle ==
    ASSUME cur' = Idle, Uncrossed(stack', voided')
    PROVE  MatchingInv'
  BY DEF MatchingInv, Idle

(* OrderProcessor.process books an order without offers, or starts to match *)
(* it with the best.                                                        *)
LEMMA ProcessMatches ==
    ASSUME NEW x \in Row, x.id \in OrderIds, ~x.market, NEW st \in Stacks,
           Uncrossed(st, voided), voided' = voided, ~InStack(st, x.id), Process(x, st)
    PROVE  MatchingInv'
<1>1. CASE stack' = st /\ cur' = Idle
  BY <1>1, MatchingIdle
<1>2. CASE Offers(x, st) = {} /\ stack' = Added(st, x) /\ cur' = Idle
  <2>1. Uncrossed(Added(st, x), voided)
    BY <1>2, UncrossedAdds
  <2> QED BY <1>2, <2>1, MatchingIdle
<1>3. CASE stack' = st /\ cur' = [phase |-> "match", obj |-> x, todo |-> Matching(x, st)]
  <2>1. BestFirst(x, st, Matching(x, st), voided)
    BY MatchingIsBest
  <2>2. ~MarketBuy(x)
    BY DEF MarketBuy
  <2>3. Covers(x, st, Matching(x, st)) \/ Offers(x, st) = Matching(x, st)
    BY <2>2, MatchingIsEnough
  <2>4. Enough(x, st, Matching(x, st), voided)
    BY <2>3 DEF Enough
  <2>5. stack' = st /\ cur'.obj = x /\ cur'.todo = Matching(x, st)
    BY <1>3
  <2> QED BY <2>1, <2>4, <2>5 DEF MatchingInv
<1> QED BY <1>1, <1>2, <1>3 DEF Process

-----------------------------------------------------------------------------
(* The steps.                                                              *)

(* process(place_order) starts to match, or books the order. *)
LEMMA PlaceOrderMatching == MirrorInv /\ MatchingInv /\ PlaceOrderTask => MatchingInv'
<1> SUFFICES ASSUME MirrorInv, MatchingInv, PlaceOrderTask PROVE MatchingInv'
  OBVIOUS
<1>1. PICK x : x = Head(queue).row
  OBVIOUS
<1>2. Take("place") /\ voided' = voided
      /\ IF x.id \in onPlace THEN UNCHANGED <<stack, cur>> ELSE Process(x, stack)
  BY <1>1 DEF PlaceOrderTask, dbVars
<1>3. x \in Row /\ x.id \in OrderIds /\ 1 \in 1 .. Len(queue) /\ x = queue[1].row
      /\ queue[1].type = "place"
  BY <1>1, <1>2, TaskFinds
<1>4. TypeInv /\ SnapshotsInv
  BY MirrorParts
<1>5. stack \in Stacks /\ Limit(x)
  BY <1>3, <1>4 DEF TypeInv, TypeOK, Stacks, QueueOK, MessageOK
<1>6. CASE x.id \in onPlace
  BY <1>2, <1>6, MatchingUntouched
<1>7. CASE x.id \notin onPlace
  <2>1. ~InStack(stack, x.id)
    BY <1>3, <1>4, <1>7 DEF SnapshotsInv, NewOrder
  <2> QED BY <1>2, <1>3, <1>5, <1>7, <2>1, ProcessMatches DEF MatchingInv, Limit
<1> QED BY <1>6, <1>7

(* cancel_order takes an order out of the book. *)
LEMMA CancelOrderMatching == MirrorInv /\ MatchingInv /\ CancelOrderTask => MatchingInv'
<1> SUFFICES ASSUME MirrorInv, MatchingInv, CancelOrderTask PROVE MatchingInv'
  OBVIOUS
<1>1. PICK x : x = order[Head(queue).row.id]
  OBVIOUS
<1>2. /\ Take("cancel") /\ cur' = cur /\ voided' = voided
      /\ stack' = stack \/ stack' = Removed(stack, x.id)
  BY <1>1 DEF CancelOrderTask, CancelRow, dbVars
<1>3. /\ cur = Idle /\ queue[1].row.id \in OrderIds /\ Head(queue) = queue[1]
      /\ order[queue[1].row.id].id = queue[1].row.id
  BY <1>2, TaskFinds
<1>4. x.id \in OrderIds
  BY <1>1, <1>3
<1>5. TypeInv /\ BookSound
  BY MirrorParts
<1>6. stack \in Stacks /\ (InStack(stack, x.id) => stack[x.id].key = stack[x.id].row.price)
  BY <1>4, <1>5 DEF TypeInv, TypeOK, Stacks, BookSound, RestsSound
<1>7. \A n \in OrderIds : InStack(stack', n) => stack'[n] = stack[n]
  BY <1>2, <1>4, <1>6, RemovedIsGone
<1>8. Shrinks(stack, stack', voided')
  BY <1>7 DEF Shrinks, InStack
<1>9. Uncrossed(stack', voided')
  BY <1>2, <1>8, UncrossedShrinks DEF MatchingInv
<1> QED BY <1>2, <1>3, <1>9, MatchingIdle

(* update_order takes an order out of the book and processes it again. *)
LEMMA UpdateOrderMatching == MirrorInv /\ MatchingInv /\ UpdateOrderTask => MatchingInv'
<1> SUFFICES ASSUME MirrorInv, MatchingInv, UpdateOrderTask PROVE MatchingInv'
  OBVIOUS
<1> DEFINE m == Head(queue).row
           x == order[m.id]
           y == Updated(x, m)
           found == InStack(stack, x.id) /\ x.user \notin Bots
           st == IF found THEN Removed(stack, x.id) ELSE stack
<1>1. /\ Take("update") /\ voided' = voided
      /\ UpdateRefused(x, y) => stack' = st /\ cur' = cur
      /\ ~UpdateRefused(x, y) => IF found THEN Process(y, st) ELSE UNCHANGED <<stack, cur>>
  BY DEF UpdateOrderTask, dbVars
<1>2. TypeInv /\ BookSound
  BY MirrorParts
<1>3. /\ cur = Idle /\ Head(queue) = queue[1] /\ queue[1].type = "update" /\ 1 \in 1 .. Len(queue)
      /\ m \in Row /\ m.id \in OrderIds /\ x.id = m.id
  BY <1>1, TaskFinds
<1>4. stack \in Stacks /\ x \in Row /\ x = order[x.id] /\ x.id \in OrderIds
  BY <1>2, <1>3 DEF TypeInv, TypeOK, Stacks
<1>5. m.price > 0
  BY <1>2, <1>3 DEF TypeInv, QueueOK, MessageOK
<1>6. InStack(stack, x.id) => stack[x.id].key = stack[x.id].row.price
  BY <1>2, <1>4 DEF BookSound, RestsSound
<1>7. /\ st \in Stacks /\ (found => ~InStack(st, x.id))
      /\ \A n \in OrderIds : InStack(st, n) => st[n] = stack[n]
  <2>1. Removed(stack, x.id) \in Stacks
    BY <1>2, <1>4, StackUpdates DEF TypeInv
  <2>2. /\ ~InStack(Removed(stack, x.id), x.id)
        /\ \A n \in OrderIds \ {x.id} : Removed(stack, x.id)[n] = stack[n]
    BY <1>4, <1>6, RemovedIsGone
  <2>3. CASE found
    <3>1. st = Removed(stack, x.id)
      BY <2>3
    <3> QED BY <2>1, <2>2, <3>1 DEF InStack
  <2>4. CASE ~found
    BY <1>4, <2>4
  <2> QED BY <2>3, <2>4
<1> HIDE DEF st
<1>8. Uncrossed(st, voided)
  <2>1. Shrinks(stack, st, voided)
    BY <1>7 DEF Shrinks, InStack
  <2> QED BY <2>1, UncrossedShrinks DEF MatchingInv
<1>9. CASE UpdateRefused(x, y)
  BY <1>1, <1>3, <1>8, <1>9, MatchingIdle
<1>10. CASE ~UpdateRefused(x, y) /\ ~found
  BY <1>1, <1>10, MatchingUntouched
<1>11. CASE ~UpdateRefused(x, y) /\ found
  <2>1. y \in Row /\ y.id = x.id /\ Limit(y)
    <3>1. DatabaseOK /\ Stored(order, x)
      BY <1>2, <1>4, TypeParts DEF Stored, Exists
    <3> HIDE DEF x, m
    <3> QED BY <1>3, <1>4, <1>5, <1>11, <3>1, UpdateIsTyped
  <2>2. PICK z : z = y
    OBVIOUS
  <2> HIDE DEF y, x
  <2>3. /\ z \in Row /\ z.id \in OrderIds /\ ~z.market /\ ~InStack(st, z.id) /\ Process(z, st)
    BY <1>1, <1>4, <1>7, <1>11, <2>1, <2>2 DEF Limit
  <2> QED BY <1>1, <1>7, <1>8, <2>3, ProcessMatches
<1> QED BY <1>9, <1>10, <1>11

(* A market order starts before it knows what the book offers. *)
LEMMA MarketOrderMatching == MirrorInv /\ MatchingInv /\ MarketOrderTask => MatchingInv'
<1> SUFFICES ASSUME MatchingInv, MarketOrderTask PROVE MatchingInv'
  OBVIOUS
<1>1. stack' = stack /\ voided' = voided /\ (cur' = cur \/ cur'.phase = "market")
  BY DEF MarketOrderTask, CreateRow, dbVars
<1> QED BY <1>1 DEF MatchingInv

(* market_execute goes ahead when the book offers enough. *)
LEMMA MarketExecuteMatching == MirrorInv /\ MatchingInv /\ MarketExecute => MatchingInv'
<1> SUFFICES ASSUME MirrorInv, MatchingInv, MarketExecute PROVE MatchingInv'
  OBVIOUS
<1>1. PICK x : x = cur.obj
  OBVIOUS
<1>2. /\ cur.phase = "market" /\ stack' = stack /\ voided' = voided
      /\ \/ /\ Fulfilled(x, stack)
            /\ cur' = [cur EXCEPT !.phase = "match", !.todo = Matching(x, stack)]
         \/ cur' = Idle
  BY <1>1 DEF MarketExecute, CancelRow, dbVars
<1>3. TypeInv /\ CurSound
  BY MirrorParts
<1>4. cur \in Works /\ x \in Row /\ stack \in Stacks
  BY <1>1, <1>3 DEF TypeInv, TypeOK, Works, Stacks
<1>5. CASE cur' = Idle
  BY <1>2, <1>5, MatchingIdle DEF MatchingInv
<1>6. CASE /\ Fulfilled(x, stack)
           /\ cur' = [cur EXCEPT !.phase = "match", !.todo = Matching(x, stack)]
  <2>1. cur'.obj = x /\ cur'.todo = Matching(x, stack)
    BY <1>1, <1>4, <1>6 DEF Works
  <2>2. BestFirst(x, stack, Matching(x, stack), voided)
    BY <1>4, MatchingIsBest
  <2>3. ~MarketBuy(x) =>
            /\ Covers(x, stack, Matching(x, stack))
    BY <1>4, <1>6, MatchingIsEnough
  <2>4. Enough(x, stack, Matching(x, stack), voided)
    BY <2>3 DEF Enough, MarketBuy
  <2> QED BY <1>2, <2>1, <2>2, <2>4 DEF MatchingInv
<1> QED BY <1>2, <1>5, <1>6

(* load_opened_orders processes the next order of the database. *)
LEMMA LoadOpenedOrderMatching == MirrorInv /\ MatchingInv /\ LoadOpenedOrder => MatchingInv'
<1> SUFFICES ASSUME MirrorInv, MatchingInv, LoadOpenedOrder PROVE MatchingInv'
  OBVIOUS
<1>1. PICK o \in boot :
        /\ cur = Idle
        /\ IF order[o].market
           THEN /\ cur' = [phase |-> "market", obj |-> order[o], todo |-> {}]
                /\ UNCHANGED stack
           ELSE Process(order[o], stack)
        /\ voided' = voided
  BY DEF LoadOpenedOrder, dbVars
<1>2. PICK x : x = order[o]
  OBVIOUS
<1>3. TypeInv /\ BookSound
  BY MirrorParts
<1>4. x.id = o /\ x \in Row /\ o \in OrderIds /\ stack \in Stacks
  BY <1>2, <1>3 DEF TypeInv, TypeOK, Exists, Stacks
<1>5. ~InStack(stack, o)
  BY <1>1, <1>3, <1>4, NotRepricing DEF BookSound, RestsSound
<1>6. CASE x.market
  BY <1>1, <1>2, <1>6 DEF MatchingInv
<1>7. CASE ~x.market
  BY <1>1, <1>2, <1>4, <1>5, <1>7, ProcessMatches DEF MatchingInv
<1> QED BY <1>6, <1>7

(* A restarted worker has an empty book. *)
LEMMA RestartMatching == MatchingInv /\ Restart => MatchingInv'
<1> SUFFICES ASSUME MatchingInv, Restart PROVE MatchingInv'
  OBVIOUS
<1>1. cur' = Idle /\ stack' = [o \in OrderIds |-> NoEntry]
  BY DEF Restart
<1>2. Uncrossed(stack', voided')
  BY <1>1 DEF Uncrossed, InStack
<1> QED BY <1>1, <1>2, MatchingIdle

(* A fill that raises ends the task. *)
LEMMA MatchFailsMatching == MirrorInv /\ MatchingInv /\ MatchFails => MatchingInv'
<1> SUFFICES ASSUME MirrorInv, MatchingInv, MatchFails PROVE MatchingInv'
  OBVIOUS
<1>0. PICK x : x = cur.obj
  OBVIOUS
<1>8. PICK r \in OrderIds : \E q :
        /\ Best(r)
        /\ \/ stack' = stack
           \/ stack' = [stack EXCEPT ![r].row.left = @ - q]
           \/ stack' = [Removed(stack, x.id) EXCEPT ![r].row.left = @ - q]
  BY <1>0 DEF MatchFails
<1>1. PICK q :
        /\ x = cur.obj /\ Best(r)
        /\ \/ stack' = stack
           \/ stack' = [stack EXCEPT ![r].row.left = @ - q]
           \/ stack' = [Removed(stack, x.id) EXCEPT ![r].row.left = @ - q]
  BY <1>0, <1>8
<1>2. cur.phase = "match" /\ cur' = Idle /\ voided' = voided
  BY DEF MatchFails, dbVars
<1>3. x.id \in OrderIds /\ ~InStack(stack, x.id) /\ stack \in Stacks
  BY <1>1, <1>2, WorkIsSound
<1>4. InStack(stack, r)
  BY <1>1, <1>2, RestingIsSound
<1>5. Removed(stack, x.id) = stack
  <2>1. NoEntry.key = NoEntry.row.price
    BY DEF NoEntry, NoRow
  <2>2. stack[x.id] = NoEntry
    BY <1>3 DEF InStack
  <2> QED BY <1>3, <2>1, <2>2 DEF Removed, Stacks
<1>6. Shrinks(stack, stack', voided')
  <2>1. CASE stack' = stack
    BY <2>1 DEF Shrinks
  <2>2. CASE stack' = [stack EXCEPT ![r].row.left = @ - q]
    <3>1. \A n \in OrderIds \ {r} : stack'[n] = stack[n]
      BY <2>2, <1>3 DEF Stacks
    <3>2. /\ stack'[r].row.op = stack[r].row.op /\ stack'[r].row.user = stack[r].row.user
          /\ stack'[r].row.price = stack[r].row.price
      BY <2>2, <1>3 DEF Stacks, Row
    <3> QED BY <1>4, <3>1, <3>2 DEF Shrinks, InStack
  <2> QED BY <1>1, <1>5, <2>1, <2>2
<1>7. Uncrossed(stack', voided')
  BY <1>2, <1>6, UncrossedShrinks DEF MatchingInv
<1> QED BY <1>2, <1>7, MatchingIdle

(* When the last match is made, a limit order that is still open has no     *)
(* offer left.                                                              *)
LEMMA FinishMatching == MirrorInv /\ MatchingInv /\ Finish => MatchingInv'
<1> SUFFICES ASSUME MirrorInv, MatchingInv, Finish PROVE MatchingInv'
  OBVIOUS
<1>1. PICK x : x = cur.obj
  OBVIOUS
<1>2. /\ cur.phase = "match" /\ cur.todo = {} /\ cur' = Idle /\ voided' = voided
      /\ \/ stack' = stack
         \/ stack' = Removed(stack, x.id)
         \/ ~x.market /\ x.state = "OPENED" /\ stack' = Added(stack, x)
  BY <1>1 DEF Finish, CancelRow, CloseMarket, dbVars
<1>3. TypeInv /\ RowsInv
  BY MirrorParts
<1>4. /\ x \in Row /\ x.id \in OrderIds /\ stack \in Stacks /\ ~InStack(stack, x.id)
      /\ x.id \notin voided => x = order[x.id]
  BY <1>1, <1>2, WorkIsSound
<1>5. CASE stack' = stack
  BY <1>2, <1>5, MatchingIdle DEF MatchingInv
<1>6. CASE stack' = Removed(stack, x.id)
  <2>1. \A n \in OrderIds : InStack(stack', n) => stack'[n] = stack[n]
    BY <1>4, <1>6, RemovedIsGone
  <2>2. Shrinks(stack, stack', voided')
    BY <2>1 DEF Shrinks, InStack
  <2> QED BY <1>2, <2>2, MatchingIdle, UncrossedShrinks DEF MatchingInv
<1>7. CASE ~x.market /\ x.state = "OPENED" /\ stack' = Added(stack, x)
  <2>1. Covers(x, stack, {}) \/ Offers(x, stack) \ voided \subseteq {}
    BY <1>1, <1>2, <1>7 DEF MatchingInv, Enough
  <2>2. Covers(x, stack, {}) => x.left = 0
    <3>1. Offered(x, stack, {}) = 0 /\ x.left \in Nat
      BY <1>4, OfferedGrows, RowFields
    <3> QED BY <3>1 DEF Covers
  <2>3. x.id \notin voided => x.left > 0
    <3>1. x.id \notin voided => RowSound(x)
      BY <1>3, <1>4 DEF RowsInv
    <3> QED BY <1>7, <3>1 DEF RowSound, MarketBuy
  <2>4. x.left \in Nat
    BY <1>4, RowFields
  <2>5. x.id \in voided \/ Offers(x, stack) \ voided = {}
    BY <2>1, <2>2, <2>3, <2>4
  <2>6. Uncrossed(Added(stack, x), voided)
    BY <1>4, <1>7, <2>5, UncrossedAdds DEF MatchingInv
  <2> QED BY <1>2, <1>7, <2>6, MatchingIdle
<1> QED BY <1>2, <1>5, <1>6, <1>7

(* What a fill takes from an order is what its offer counted, unless it     *)
(* leaves the order with nothing.                                           *)
LEMMA FillTakesWorth ==
    ASSUME NEW x \in Row, NEW y \in Row, y.price > 0, NEW q, q = FillQuantity(x, y),
           NEW x1, x1 = Filled(x, q, y.price), NEW w, NEW rest \in Nat,
           w = y.left * (IF MarketBuy(x) THEN y.price ELSE 1)
    PROVE  /\ w + rest < Wanted(x) => q = y.left /\ rest < Wanted(x1)
           /\ ~MarketBuy(x) /\ w + rest >= x.left => rest >= x1.left
<1>1. /\ x.left \in Nat /\ y.left \in Nat /\ y.price \in Nat /\ x.cost \in Nat
      /\ x.market \in BOOLEAN /\ x.op \in {"BUY", "SELL"}
  BY RowFields
<1>2. /\ q \in Nat /\ q <= y.left
      /\ ~MarketBuy(x) => q <= x.left
      /\ MarketBuy(x) => Value(q, y.price) <= x.cost
  BY FillIsBounded
<1>3. /\ x1.op = x.op /\ x1.market = x.market
      /\ MarketBuy(x) => x1.left = 0 /\ x1.cost = x.cost - Value(q, y.price)
      /\ ~MarketBuy(x) => x1.left = x.left - q
  BY FilledFields
<1>4. MarketBuy(x1) = MarketBuy(x)
  BY <1>3 DEF MarketBuy
<1>5. CASE ~MarketBuy(x)
  <2>1. /\ w = y.left /\ Wanted(x) = x.left /\ Wanted(x1) = x.left - q
        /\ q = Least(x.left, y.left)
    BY <1>1, <1>3, <1>4, <1>5 DEF Wanted, FillQuantity
  <2> QED BY <1>1, <1>3, <1>5, <2>1 DEF Least
<1>6. CASE MarketBuy(x)
  <2> DEFINE c == x.cost * Scale
             v == Value(q, y.price)
  <2>1. /\ w = y.left * y.price /\ Wanted(x) = c /\ Wanted(x1) = (x.cost - v) * Scale
        /\ c >= y.price * y.left => q = y.left
        /\ c \in Nat
    <3>1. MarketBuy(x1)
      BY <1>4, <1>6
    <3>2. Wanted(x) = c /\ Wanted(x1) = (x.cost - v) * Scale
      BY <1>3, <1>6, <3>1 DEF Wanted
    <3>3. w = y.left * y.price
      BY <1>6
    <3>4. c >= y.price * y.left => q = y.left
      BY <1>6 DEF FillQuantity
    <3>5. c \in Nat
      BY <1>1, MoneyAssumption
    <3> QED BY <3>2, <3>3, <3>4, <3>5
  <2>2. y.price * y.left = y.left * y.price /\ y.left * y.price \in Nat
    BY <1>1
  <2>3. ASSUME q = y.left PROVE v \in Nat /\ v * Scale <= w
    <3>1. q * y.price \in Nat /\ v \in Nat /\ Scale * v <= q * y.price
      BY <1>1, <1>2, ValueIsNat, Quotient DEF Value
    <3>2. Scale * v = v * Scale
      BY <3>1, MoneyAssumption
    <3> QED BY <2>1, <2>3, <3>1, <3>2
  <2>4. v \in Nat => (x.cost - v) * Scale = c - v * Scale /\ v * Scale \in Nat
    BY <1>1, MoneyAssumption
  <2> HIDE DEF c, v
  <2>5. ASSUME w + rest < Wanted(x) PROVE q = y.left /\ rest < Wanted(x1)
    <3>1. y.price * y.left <= c
      BY <2>1, <2>2, <2>5
    <3>2. q = y.left
      BY <2>1, <2>2, <3>1
    <3>3. v \in Nat /\ v * Scale <= w
      BY <2>3, <3>2
    <3>4. Wanted(x1) = c - v * Scale /\ v * Scale \in Nat
      BY <2>1, <2>4, <3>3
    <3>5. w \in Nat
      BY <2>1, <2>2
    <3>6. \A a, b, d, e \in Nat : d <= a /\ a + b < e => b < e - d
      OBVIOUS
    <3>7. v * Scale \in Nat /\ w + rest < c
      BY <2>1, <2>5, <3>4
    <3> QED BY <2>1, <3>2, <3>3, <3>4, <3>5, <3>6, <3>7
  <2> QED BY <1>6, <2>5
<1> QED BY <1>5, <1>6

(* Each match takes the best of the offers and uses it up, unless it is the *)
(* last that the order needs.                                               *)
LEMMA MatchMatching == MirrorInv /\ MatchingInv /\ Match => MatchingInv'
<1> SUFFICES ASSUME MirrorInv, MatchingInv, Match PROVE MatchingInv'
  OBVIOUS
<1>1. PICK r \in OrderIds : Best(r) /\ Execute(r)
  BY DEF Match
<1>2. cur.phase = "match"
  BY DEF Match
<1>3. PICK x, y : x = cur.obj /\ y = stack[r].row
  OBVIOUS
<1>4. PICK p, q : p = y.price /\ q = FillQuantity(x, y)
  OBVIOUS
<1> DEFINE x1 == Filled(x, q, p)
           y1 == Filled(y, q, p)
           st == IF VoidCancels(x, q, p) THEN Removed(stack, x.id) ELSE stack
           st1 == [st EXCEPT ![r].row = y1]
           gone == y1.state = "CLOSED" \/ VoidCancels(y, q, p) \/ DustCancels(y1)
           T == cur.todo
           U == T \ {r}
<1>5. /\ voided' = voided \cup {z \in {x.id, r} : Void(IF z = r THEN y ELSE x, q, p)}
      /\ stack' = IF gone THEN Removed(st1, r) ELSE st1
      /\ cur' = [cur EXCEPT !.obj = x1, !.todo = @ \ {r}]
  BY <1>1, <1>3, <1>4 DEF Execute
<1>6. TypeInv /\ CurSound
  BY MirrorParts
<1>7. /\ x \in Row /\ x.id \in OrderIds /\ ~InStack(stack, x.id) /\ stack \in Stacks
      /\ cur \in Works
  BY <1>2, <1>3, <1>6, WorkIsSound DEF TypeInv, TypeOK, Works
<1>8. /\ y \in Row /\ y.id = r /\ p \in Nat /\ p > 0
      /\ InStack(stack, r) /\ r \in T /\ stack[r].key = p /\ r # x.id
  BY <1>1, <1>2, <1>3, <1>4, RestingIsSound, ZenonT(60)
<1>9. q \in Nat /\ q <= y.left /\ x1 \in Row /\ y1 \in Row /\ ~MarketBuy(y)
  BY <1>1, <1>2, <1>3, <1>4, NextFill
<1>10. /\ x1.market = x.market /\ x1.op = x.op /\ x1.user = x.user
       /\ x1.price = x.price \/ x.market
       /\ y1.op = y.op /\ y1.user = y.user /\ y1.price = p /\ y1.left = y.left - q
       /\ y1.state = IF y1.left = 0 /\ ~Void(y, q, p) THEN "CLOSED" ELSE y.state
  <2>1. ~y.market
    BY <1>1, <1>2, <1>3, RestingIsSound
  <2> QED BY <1>4, <1>7, <1>8, <1>9, <2>1, FilledFields
<1>11. T \subseteq OrderIds /\ \A n \in T : InStack(stack, n)
  BY <1>2, <1>6, <1>7 DEF TypeInv, CurOK, TodoOK, Works
<1>12. x.id \notin T
  BY <1>7, <1>11
(* The stacks after the fill. *)
<1>13. st \in Stacks /\ st[r] = stack[r] /\ ~InStack(st, x.id)
       /\ \A n \in OrderIds \ {x.id} : st[n] = stack[n]
  <2>1. Removed(stack, x.id) \in Stacks
    BY <1>6, <1>7, StackUpdates DEF TypeInv
  <2> QED BY <1>7, <1>8, <2>1, RemovedIsGone
<1>14. cur'.obj = x1 /\ cur'.todo = U
  <2> HIDE DEF x1
  <2> QED BY <1>5, <1>7 DEF Works
<1> HIDE DEF x1, y1, st, T
<1>15. st1 \in Stacks /\ st1[r].row = y1 /\ st1[r].key = p /\ ~InStack(st1, x.id)
       /\ \A n \in OrderIds \ {r} : st1[n] = st[n]
  BY <1>8, <1>9, <1>13 DEF Stacks, InStack
<1> HIDE DEF st1
<1>16. /\ \A n \in OrderIds \ {r, x.id} : stack'[n] = stack[n]
       /\ InStack(stack', r) => stack'[r].row = y1 /\ ~gone
       /\ ~InStack(stack', x.id)
  <2>1. CASE gone
    <3>1. stack' = Removed(st1, r)
      BY <1>5, <2>1
    <3>2. ~InStack(stack', r) /\ \A n \in OrderIds \ {r} : stack'[n] = st1[n]
      BY <1>10, <1>15, <3>1, RemovedIsGone
    <3> QED BY <1>7, <1>8, <1>13, <1>15, <3>2 DEF InStack
  <2>2. CASE ~gone
    <3>1. stack' = st1
      BY <1>5, <2>2
    <3> QED BY <1>13, <1>15, <2>2, <3>1
  <2> QED BY <2>1, <2>2
<1>17. q = y.left => ~InStack(stack', r) \/ r \in voided'
  <2>1. q = y.left => y1.left = 0
    BY <1>9, <1>10, RowFields
  <2>2. r \in voided' \/ ~Void(y, q, p)
    BY <1>5
  <2> QED BY <1>10, <1>16, <2>1, <2>2
<1>18. \A n \in OrderIds : InStack(stack', n) =>
          /\ n # x.id /\ InStack(stack, n) /\ stack'[n].row.op = stack[n].row.op
          /\ stack'[n].row.user = stack[n].row.user /\ stack'[n].row.price = stack[n].row.price
  <2> SUFFICES ASSUME NEW n \in OrderIds, InStack(stack', n)
               PROVE  /\ n # x.id /\ InStack(stack, n) /\ stack'[n].row.op = stack[n].row.op
                      /\ stack'[n].row.user = stack[n].row.user
                      /\ stack'[n].row.price = stack[n].row.price
    OBVIOUS
  <2>1. CASE n = r
    BY <1>3, <1>4, <1>8, <1>10, <1>16, <2>1
  <2>2. CASE n # r
    BY <1>16, <2>2 DEF InStack
  <2> QED BY <2>1, <2>2
<1>19. voided \subseteq voided'
  BY <1>5
<1>20. Uncrossed(stack', voided')
  <2>1. Shrinks(stack, stack', voided')
    BY <1>18 DEF Shrinks
  <2> QED BY <1>19, <2>1, UncrossedShrinks DEF MatchingInv
(* What the offers that remain are worth. *)
<1>21. MarketBuy(x1) = MarketBuy(x)
  BY <1>10 DEF MarketBuy
<1>22. \A n \in U : n \in OrderIds /\ n # r /\ n # x.id /\ stack'[n] = stack[n]
  BY <1>11, <1>12, <1>16
<1>23. ASSUME NEW S \in SUBSET T, r \in S
       PROVE  /\ Offered(x, stack, S) = Worth(x, stack)[r] + Offered(x1, stack', S \ {r})
              /\ Offered(x1, stack', S \ {r}) \in Nat
  <2>1. S \subseteq OrderIds
    BY <1>11
  <2>2. Offered(x, stack, S) = Worth(x, stack)[r] + Offered(x, stack, S \ {r})
    BY <1>7, <1>23, <2>1, OfferedWithout
  <2> DEFINE V == S \ {r}
  <2>3. V \subseteq OrderIds /\ \A n \in V : stack'[n] = stack[n]
    BY <1>22, <2>1
  <2> HIDE DEF V
  <2>4. Offered(x1, stack', V) = Offered(x, stack, V)
    BY <1>21, <2>3, OfferedSame
  <2>5. Offered(x, stack, V) \in Nat
    BY <1>7, <2>3, OfferedGrows
  <2> QED BY <2>2, <2>4, <2>5 DEF V
<1>24. Worth(x, stack)[r] = y.left * (IF MarketBuy(x) THEN y.price ELSE 1)
  BY <1>3 DEF Worth
<1>25. ASSUME NEW rest \in Nat
       PROVE  /\ Worth(x, stack)[r] + rest < Wanted(x) => q = y.left /\ rest < Wanted(x1)
              /\ ~MarketBuy(x) /\ Worth(x, stack)[r] + rest >= x.left => rest >= x1.left
  <2>1. x1 = Filled(x, q, y.price)
    BY <1>4 DEF x1
  <2> QED BY <1>4, <1>7, <1>8, <1>24, <2>1, FillTakesWorth
<1>26. BestFirst(x, stack, T, voided) /\ Enough(x, stack, T, voided)
  BY <1>2, <1>3 DEF MatchingInv, T
<1>27. ASSUME NEW m \in U
       PROVE  /\ q = y.left
              /\ Offered(x1, stack', Ahead(stack', U, m)) < Wanted(x1)
              /\ \A n \in OrderIds \ voided' :
                    /\ InStack(stack', n) /\ SameSide(stack'[n].row, stack'[m].row)
                    /\ Before(stack'[n].row, stack'[m].row)
                    => n \in U
  <2> DEFINE A == Ahead(stack, T, m)
  <2>1. A \in SUBSET T /\ r \in A
    BY <1>1, <1>8 DEF Ahead, Best, T
  <2>2. Offered(x, stack, A) < Wanted(x)
    BY <1>26 DEF BestFirst
  <2>3. Ahead(stack', U, m) = A \ {r}
    BY <1>22 DEF Ahead
  <2> HIDE DEF A
  <2>4. /\ Offered(x, stack, A) = Worth(x, stack)[r] + Offered(x1, stack', A \ {r})
        /\ Offered(x1, stack', A \ {r}) \in Nat
    BY <1>23, <2>1
  <2>5. q = y.left /\ Offered(x1, stack', A \ {r}) < Wanted(x1)
    BY <1>25, <2>2, <2>4
  <2>6. ASSUME NEW n \in OrderIds \ voided',
               InStack(stack', n), SameSide(stack'[n].row, stack'[m].row),
               Before(stack'[n].row, stack'[m].row)
        PROVE  n \in U
    <3>1. n # r /\ n # x.id /\ stack'[n] = stack[n] /\ stack'[m] = stack[m] /\ n \notin voided
      BY <1>16, <1>17, <1>18, <1>19, <1>22, <2>5, <2>6
    <3>2. n \in T
      BY <1>26, <2>6, <3>1 DEF BestFirst, InStack
    <3> QED BY <3>1, <3>2
  <2> QED BY <2>3, <2>5, <2>6
<1>28. BestFirst(x1, stack', U, voided')
  BY <1>27 DEF BestFirst
<1>29. Covers(x, stack, T) /\ ~MarketBuy(x) => Covers(x1, stack', U)
  <2>1. /\ Offered(x, stack, T) = Worth(x, stack)[r] + Offered(x1, stack', U)
        /\ Offered(x1, stack', U) \in Nat
    BY <1>8, <1>23
  <2> QED BY <1>25, <2>1 DEF Covers
<1>30. Enough(x1, stack', U, voided')
  <2>1. x.market /\ x.op = "SELL" => Covers(x1, stack', U)
    BY <1>26, <1>29 DEF Enough, MarketBuy
  <2>2. ASSUME ~x.market PROVE Covers(x1, stack', U) \/ Offers(x1, stack') \ voided' \subseteq U
    <3>1. ~MarketBuy(x)
      BY <2>2 DEF MarketBuy
    <3>2. CASE Covers(x, stack, T)
      BY <1>29, <3>1, <3>2
    <3>3. CASE Offers(x, stack) \ voided \subseteq T /\ q = y.left
      <4>1. ASSUME NEW n \in Offers(x1, stack') \ voided' PROVE n \in U
        <5>1. n \in OrderIds /\ InStack(stack', n) /\ n \notin voided'
          BY DEF Offers
        <5>2. n # r /\ n # x.id
          BY <1>17, <1>18, <3>3, <5>1
        <5>3. n \in Offers(x, stack)
          <6>1. /\ InStack(stack, n) /\ stack'[n].row.op = stack[n].row.op
                /\ stack'[n].row.user = stack[n].row.user
                /\ stack'[n].row.price = stack[n].row.price
            BY <1>18, <5>1
          <6> QED BY <1>10, <2>2, <5>1, <6>1 DEF Offers, SameBook, PriceMatch
        <5> QED BY <1>19, <3>3, <5>1, <5>2, <5>3
      <4> QED BY <4>1
    <3>4. CASE q # y.left
      <4>1. q = x.left
        BY <1>1, <1>2, <1>3, <1>4, <3>1, <3>4, NextFill
      <4>2. x1.left = 0
        <5>1. x1.left = x.left - q
          BY <1>7, <3>1, FilledFields DEF x1
        <5> QED BY <4>1, <5>1, <1>7, RowFields
      <4>3. Offered(x1, stack', U) \in Nat
        BY <1>8, <1>23
      <4> QED BY <4>2, <4>3 DEF Covers
    <3> QED BY <1>26, <2>2, <3>2, <3>3, <3>4 DEF Enough
  <2> QED BY <1>10, <2>1, <2>2 DEF Enough
<1> QED BY <1>14, <1>20, <1>28, <1>30 DEF MatchingInv

(* At first there is no order. *)
LEMMA MatchingInit == Init => MatchingInv
  BY DEF Init, MatchingInv, Uncrossed, InStack, Idle

(* No step of the worker or of a request upsets the matching. *)
LEMMA MatchingStep == MirrorInv /\ MatchingInv /\ [Next]_vars => MatchingInv'
<1> SUFFICES ASSUME MirrorInv, MatchingInv, [Next]_vars PROVE MatchingInv'
  OBVIOUS
<1>1. CASE Web \/ SendPlaceOrder \/ Redeliver \/ CancelKeyExpires \/ UNCHANGED vars
  <2>1. CreateOrder => stack' = stack /\ cur' = cur /\ voided' = voided
    <3>1. CreateOrder => UNCHANGED <<stack, cur>> /\ \E x : CreateRow(x)
      BY DEF CreateOrder
    <3> QED BY <3>1 DEF CreateRow
  <2>2. RequestCancel \/ RequestUpdate \/ RequestMarket \/ SendPlaceOrder \/ Redeliver
        \/ CancelKeyExpires \/ UNCHANGED vars
          => stack' = stack /\ cur' = cur /\ voided' = voided
    BY DEF RequestCancel, RequestUpdate, RequestMarket,
       SendPlaceOrder, Redeliver, CancelKeyExpires, vars, dbVars
  <2> QED BY <1>1, <2>1, <2>2, MatchingUntouched DEF Web
<1>2. CASE Worker
  BY <1>2, PlaceOrderMatching, CancelOrderMatching, UpdateOrderMatching, MarketOrderMatching,
     MarketExecuteMatching, MatchMatching, MatchFailsMatching, FinishMatching,
     LoadOpenedOrderMatching DEF Worker
<1>3. CASE Restart
  BY <1>3, RestartMatching
<1> QED BY <1>1, <1>2, <1>3 DEF Next, Quiescent

(* While an order is matched only the offer that is matched next is filled. *)
LEMMA OnlyBestIsFilled ==
    ASSUME MirrorInv, cur.phase = "match", [Next]_vars,
           NEW o \in OrderIds, InStack(stack, o), order'[o].left # order[o].left
    PROVE  Best(o)
<1>1. /\ cur.obj.id # o /\ cur.obj.id \in OrderIds /\ order[o].state # "NONE"
      /\ order \in [OrderIds -> Row] /\ cur # Idle
  <2>1. TypeInv /\ cur.obj.id # o /\ cur.obj.id \in OrderIds /\ order \in [OrderIds -> Row]
    BY WorkIsSound, MirrorParts
  <2>2. order[o].state # "NONE"
    BY <2>1, StoredHaveRows
  <2> QED BY <2>1, <2>2 DEF Idle
<1>2. CASE CreateOrder
  <2>1. PICK n \in OrderIds : Free(n) /\ \E x : x.id = n /\ CreateRow(x)
    BY <1>2 DEF CreateOrder
  <2>2. PICK x : order' = [order EXCEPT ![n] = x]
    BY <2>1 DEF CreateRow
  <2>3. n # o
    BY <1>1, <2>1 DEF Free
  <2> QED BY <1>1, <2>2, <2>3
<1>3. CASE Finish
  <2>1. \/ order' = order
        \/ \E x : order' = [order EXCEPT ![cur.obj.id] = x]
    BY <1>3 DEF Finish, CancelRow, CloseMarket, dbVars
  <2> QED BY <1>1, <2>1
<1>4. CASE Match
  <2>1. PICK r \in OrderIds : Best(r) /\ Execute(r)
    BY <1>4 DEF Match
  <2>2. \E x, y : order' = [order EXCEPT ![cur.obj.id] = x, ![r] = y]
    BY <2>1 DEF Execute
  <2> QED BY <1>1, <2>1, <2>2
<1>5. CASE \/ RequestCancel \/ RequestUpdate \/ RequestMarket \/ SendPlaceOrder \/ MatchFails
           \/ Restart \/ Redeliver \/ CancelKeyExpires \/ UNCHANGED vars
  <2>1. order' = order
    BY <1>5 DEF RequestCancel, RequestUpdate, RequestMarket, SendPlaceOrder, MatchFails,
       Restart, Redeliver, CancelKeyExpires, vars, dbVars
  <2> QED BY <2>1
<1>6. ~(PlaceOrderTask \/ CancelOrderTask \/ UpdateOrderTask \/ MarketOrderTask \/ LoadOpenedOrder)
  BY <1>1 DEF PlaceOrderTask, CancelOrderTask, UpdateOrderTask, MarketOrderTask, LoadOpenedOrder, Take
<1>7. ~MarketExecute
  BY DEF MarketExecute
<1> QED BY <1>2, <1>3, <1>4, <1>5, <1>6, <1>7 DEF Next, Web, Worker, Quiescent

-----------------------------------------------------------------------------
(* The book and what is left to match stay as matching_orders found them.  *)
THEOREM MatchingSound == ASSUME Orderly PROVE Spec => []MatchingInv
<1>1. Init => MatchingInv
  BY MatchingInit
<1>2. MirrorInv /\ MatchingInv /\ [Next]_vars => MatchingInv'
  BY MatchingStep
<1> QED BY <1>1, <1>2, MirrorSound, PTL DEF Spec

(* process and update_order never leave in the book two orders that could  *)
(* have been executed with each other.                                     *)
THEOREM BookStaysUncrossed == ASSUME Orderly PROVE Spec => []BookUncrossed
<1>1. MatchingInv => BookUncrossed
  BY DEF MatchingInv, Uncrossed, BookUncrossed
<1> QED BY <1>1, MatchingSound, PTL

(* A market sell at work finds enough to sell in what is left to match. *)
LEMMA WorkFills ==
    ASSUME MirrorInv, MatchingInv
    PROVE  MarketSellsFill
<1> SUFFICES ASSUME cur.phase = "match", cur.todo = {}, cur.obj.market, cur.obj.op = "SELL"
             PROVE  cur.obj.left = 0
  BY DEF MarketSellsFill
<1>1. Covers(cur.obj, stack, {})
  BY DEF MatchingInv, Enough
<1>2. cur.obj \in Row /\ stack \in Stacks
  BY WorkIsSound
<1>3. Offered(cur.obj, stack, {}) = 0 /\ cur.obj.left \in Nat
  BY <1>2, OfferedGrows, RowFields
<1> QED BY <1>1, <1>3 DEF Covers

(* A market sell that market_execute lets go ahead sells all its quantity, *)
(* so what add_to_book would do with the rest never happens.               *)
THEOREM MarketSellsAreFilled == ASSUME Orderly PROVE Spec => []MarketSellsFill
<1>1. MirrorInv /\ MatchingInv => MarketSellsFill
  BY WorkFills
<1> QED BY <1>1, MirrorSound, MatchingSound, PTL

(* A resting order is filled only while no better one of its side rests. *)
LEMMA NoBetterRests ==
    ASSUME MirrorInv, MatchingInv, [Next]_vars,
           NEW o \in OrderIds, NEW n \in OrderIds \ voided,
           cur.phase = "match", InStack(stack, o), InStack(stack, n),
           stack[o].row.op = stack[n].row.op, SameBook(stack[o].row, stack[n].row),
           order'[o].left # order[o].left
    PROVE  ~Before(stack[n].row, stack[o].row)
<1> SUFFICES ASSUME Before(stack[n].row, stack[o].row) PROVE FALSE
  OBVIOUS
<1>1. Best(o)
  BY OnlyBestIsFilled
<1>2. SameSide(stack[n].row, stack[o].row)
  BY DEF SameSide, SameBook
<1>3. n \in cur.todo
  BY <1>1, <1>2 DEF MatchingInv, BestFirst, Best
<1>4. stack[n].row \in Row /\ stack[o].row \in Row
  BY WorkIsSound DEF Stacks
<1>5. ~Before(stack[o].row, stack[n].row)
  BY <1>4, BeforeIsOrder
<1>6. n = o
  BY <1>1, <1>3, <1>5 DEF Best
<1> QED BY <1>4, <1>6, BeforeIsOrder

(* execute fills a resting order only when no better one of its side is in *)
(* the book, whatever is created, cancelled or restarted between fills.    *)
THEOREM PriceTimePriorityKept == ASSUME Orderly PROVE Spec => PriceTimePriority
<1>1. MirrorInv /\ MatchingInv /\ [Next]_vars =>
        [\A o \in OrderIds, n \in OrderIds \ voided :
            /\ cur.phase = "match" /\ InStack(stack, o) /\ InStack(stack, n)
            /\ stack[o].row.op = stack[n].row.op /\ SameBook(stack[o].row, stack[n].row)
            /\ order'[o].left # order[o].left
            => ~Before(stack[n].row, stack[o].row)]_vars
  BY NoBetterRests
<1> QED BY <1>1, MirrorSound, MatchingSound, PTL DEF Spec, PriceTimePriority
==============================================================================

------------------------- MODULE SpecialOrdersProofs -------------------------
(***************************************************************************)
(* Theorems of SpecialOrders: its types, and that a stop-limit order waits *)
(* for its price.  A look at the price of an order that was cancelled      *)
(* meanwhile, or a trigger of an order whose cancel waits ("late"), is     *)
(* left aside.                                                             *)
(***************************************************************************)
EXTENDS SpecialOrdersInv, OrderBookProofs

-----------------------------------------------------------------------------
(* Sequences of messages.                                                  *)

(* SetToSeq lists the set. *)
LEMMA SetIsListed ==
    ASSUME NEW S, IsFiniteSet(S)
    PROVE  /\ SetToSeq(S) \in Seq(S)
           /\ \A i \in 1 .. Len(SetToSeq(S)) : SetToSeq(S)[i] \in S
           /\ \A x \in S : \E i \in 1 .. Len(SetToSeq(S)) : SetToSeq(S)[i] = x
<1> DEFINE n == Cardinality(S)
           f == SetToSeq(S)
<1>1. n \in Nat /\ ExistsBijection(1 .. n, S)
  BY FS_CardinalityType
<1>2. \E g \in [1 .. n -> S] : IsInjective(g)
  BY <1>1 DEF ExistsBijection, Bijection, Injection
<1>3. f \in [1 .. n -> S] /\ IsInjective(f)
  BY <1>2 DEF SetToSeq
<1>4. f \in Injection(1 .. n, S)
  BY <1>3 DEF Injection
<1>5. Cardinality(1 .. n) = n
  BY <1>1, FS_Interval
<1> HIDE DEF n, f
<1>6. f \in Surjection(1 .. n, S)
  BY <1>4, <1>5, FS_Injection DEF n
<1>7. f \in Seq(S) /\ Len(f) = n
  BY <1>1, <1>3
<1>8. \A x \in S : \E i \in 1 .. n : f[i] = x
  BY <1>6 DEF Surjection
<1> QED BY <1>3, <1>7, <1>8 DEF f

(* A queue followed by another. *)
LEMMA QueuesJoined ==
    ASSUME NEW q \in Seq(Message), NEW s \in Seq(Message)
    PROVE  /\ (q \o s) \in Seq(Message) /\ Len(q) \in Nat /\ Len(s) \in Nat
           /\ Len(q \o s) = Len(q) + Len(s)
           /\ \A i \in 1 .. Len(q) : (q \o s)[i] = q[i]
           /\ \A i \in 1 .. Len(q \o s) : i \in 1 .. Len(q) \/
                 (i - Len(q) \in 1 .. Len(s) /\ (q \o s)[i] = s[i - Len(q)])
           /\ \A i \in 1 .. Len(s) : i + Len(q) \in 1 .. Len(q \o s)
                                     /\ (q \o s)[i + Len(q)] = s[i]
<1>1. /\ (q \o s) \in Seq(Message) /\ Len(q) \in Nat /\ Len(s) \in Nat
      /\ Len(q \o s) = Len(q) + Len(s)
      /\ \A i \in 1 .. Len(q) + Len(s) :
            (q \o s)[i] = IF i <= Len(q) THEN q[i] ELSE s[i - Len(q)]
  BY SMT
<1>2. \A i \in 1 .. Len(s) : /\ i + Len(q) \in 1 .. Len(q) + Len(s) /\ ~(i + Len(q) <= Len(q))
                             /\ (i + Len(q)) - Len(q) = i
  BY <1>1
<1> QED BY <1>1, <1>2

-----------------------------------------------------------------------------
(* The types.                                                              *)

(* What stop_limit_processor sends. *)
PlaceOf(o) == [type |-> "place", row |-> order[o]]

SendsStops(n, T) ==
    /\ n \in toLook /\ marking = {} /\ InTime(n, T)
    /\ T \subseteq Triggered(n)
    /\ toLook' = toLook \ {n}
    /\ loaded' = (loaded \ {o \in T : ~Tracked(o)}) \cup (T \cap inStack)
    /\ marking' = T
    /\ UNCHANGED <<dbVars, unsent, stack, cur, boot, onCancel, onPlace, counts,
                   stop, inStack, lastPrice, traded, repricings>>
    /\ queue' \in Seq(Message) /\ Len(queue) \in Nat /\ Len(queue') \in Nat
    /\ Len(queue) <= Len(queue')
    /\ \A i \in 1 .. Len(queue) : queue'[i] = queue[i]
    /\ \A i \in 1 .. Len(queue') : i \in 1 .. Len(queue) \/ \E o \in T : queue'[i] = PlaceOf(o)
    /\ \A o \in T : \E i \in 1 .. Len(queue') : i > Len(queue) /\ queue'[i] = PlaceOf(o)

LEMMA StopsAreSent ==
    ASSUME TypeInv, NEW n \in OrderIds, TriggerStops(n)
    PROVE  \E T \in SUBSET OrderIds : SendsStops(n, T)
<1>1. PICK shown : 
        LET T == Triggered(n) \ shown
            row(o) == [type |-> "place", row |-> order[o]]
        IN  /\ n \in toLook /\ marking = {} /\ InTime(n, T)
            /\ toLook' = toLook \ {n}
            /\ queue' = queue \o SetToSeq({row(o) : o \in T})
            /\ loaded' = (loaded \ {o \in T : ~Tracked(o)}) \cup (T \cap inStack)
            /\ marking' = T
            /\ UNCHANGED <<dbVars, unsent, stack, cur, boot, onCancel, onPlace, counts,
                           stop, inStack, lastPrice, traded, repricings>>
  BY DEF TriggerStops
<1>2. PICK T : T = Triggered(n) \ shown
  OBVIOUS
<1>3. PICK s : s = SetToSeq({PlaceOf(o) : o \in T})
  OBVIOUS
<1>4. /\ n \in toLook /\ marking = {} /\ InTime(n, T)
      /\ toLook' = toLook \ {n}
      /\ queue' = queue \o s
      /\ loaded' = (loaded \ {o \in T : ~Tracked(o)}) \cup (T \cap inStack)
      /\ marking' = T
      /\ UNCHANGED <<dbVars, unsent, stack, cur, boot, onCancel, onPlace, counts,
                     stop, inStack, lastPrice, traded, repricings>>
  BY <1>1, <1>2, <1>3 DEF PlaceOf
<1>5. T \subseteq Triggered(n) /\ T \subseteq OrderIds
  BY <1>2 DEF Triggered
<1>6. queue \in Seq(Message) /\ order \in [OrderIds -> Row]
  BY DEF TypeInv, TypeOK
<1> DEFINE S == {PlaceOf(o) : o \in T}
<1>7. IsFiniteSet(S)
  <2>1. IsFiniteSet(T)
    BY <1>5, OrdersAreFinite, FS_Subset
  <2>2. PICK f : f = [o \in T |-> PlaceOf(o)]
    OBVIOUS
  <2>3. f \in Surjection(T, S)
    BY <2>2 DEF Surjection
  <2> HIDE DEF S
  <2> QED BY <2>1, <2>3, FS_Surjection
<1>8. S \subseteq Message
  BY <1>5, <1>6 DEF PlaceOf, Message
<1>9. /\ s \in Seq(S)
      /\ \A i \in 1 .. Len(s) : s[i] \in S
      /\ \A x \in S : \E i \in 1 .. Len(s) : s[i] = x
  BY <1>3, <1>7, SetIsListed
<1>10. s \in Seq(Message)
  <2> HIDE DEF S
  <2> QED BY <1>8, <1>9
<1>11. /\ queue' \in Seq(Message) /\ Len(queue) \in Nat /\ Len(s) \in Nat
       /\ Len(queue') = Len(queue) + Len(s)
       /\ \A i \in 1 .. Len(queue) : queue'[i] = queue[i]
       /\ \A i \in 1 .. Len(queue') : i \in 1 .. Len(queue) \/
             (i - Len(queue) \in 1 .. Len(s) /\ queue'[i] = s[i - Len(queue)])
       /\ \A i \in 1 .. Len(s) : i + Len(queue) \in 1 .. Len(queue')
                                 /\ queue'[i + Len(queue)] = s[i]
  BY <1>4, <1>6, <1>10, QueuesJoined
<1>12. \A i \in 1 .. Len(queue') : i \in 1 .. Len(queue) \/ \E o \in T : queue'[i] = PlaceOf(o)
  BY <1>9, <1>11
<1>13. ASSUME NEW o \in T PROVE \E i \in 1 .. Len(queue') : i > Len(queue) /\ queue'[i] = PlaceOf(o)
  <2>1. PICK i \in 1 .. Len(s) : s[i] = PlaceOf(o)
    BY <1>9
  <2>2. i + Len(queue) \in 1 .. Len(queue') /\ queue'[i + Len(queue)] = PlaceOf(o)
    BY <1>11, <2>1
  <2>3. i + Len(queue) > Len(queue)
    BY <1>11
  <2> QED BY <2>2, <2>3
<1> HIDE DEF S
<1>14. SendsStops(n, T)
  BY <1>4, <1>5, <1>11, <1>12, <1>13 DEF SendsStops
<1> QED BY <1>5, <1>14

LEMMA NextIsTyped == NextOK => TypeInv'
  BY DEF NextOK, TypeInv, TypeOK, DatabaseOK, ProcessesOK, BookOK, CountersOK, Stacks, Works

(* The row a stop-limit request inserts. *)
CreatesStop(x, s) ==
    /\ x \in Row /\ Limit(x) /\ x.id \in OrderIds /\ x.state = "OPENED" /\ ~x.market
    /\ x.left = x.qty /\ x.left > 0 /\ x.cost = 0 /\ s \in Nat
    /\ AtRest /\ Free(x.id) /\ CreateRow(x)
    /\ stop' = [stop EXCEPT ![x.id] = s]
    /\ UNCHANGED <<unsent, queue, stack, cur, boot, onCancel, onPlace, counts,
                   inStack, loaded, lastPrice, traded, toLook, marking, repricings>>

LEMMA StopIsCreated ==
    ASSUME CreateStopOrder
    PROVE  \E x, s : CreatesStop(x, s)
<1>1. PICK u \in Users, op \in {"BUY", "SELL"}, p \in Prices, q \in Quantities,
            s \in Stops, o \in OrderIds :
        LET x == [id |-> o, user |-> u, op |-> op, market |-> FALSE, price |-> p,
                  qty |-> q, left |-> q, cost |-> 0, state |-> "OPENED"]
        IN  /\ AtRest /\ Room /\ Free(o)
            /\ CreateRow(x)
            /\ stop' = [stop EXCEPT ![o] = s]
            /\ UNCHANGED <<unsent, queue, stack, cur, boot, onCancel, onPlace, counts,
                           inStack, loaded, lastPrice, traded, toLook, marking, repricings>>
  BY DEF CreateStopOrder
<1>2. PICK x : x = [id |-> o, user |-> u, op |-> op, market |-> FALSE, price |-> p,
                    qty |-> q, left |-> q, cost |-> 0, state |-> "OPENED"]
  OBVIOUS
<1>3. x \in Row /\ Limit(x)
  BY <1>2, OrderBookAssumption DEF Row, Limit, Created, OrderIds
<1>4. /\ x.id = o /\ x.state = "OPENED" /\ ~x.market /\ x.left = x.qty /\ x.cost = 0
      /\ x.left > 0 /\ s \in Nat
  BY <1>2, OrderBookAssumption, SpecialAssumption
<1>5. CreatesStop(x, s)
  BY <1>1, <1>2, <1>3, <1>4 DEF CreatesStop
<1> QED BY <1>5

LEMMA CreateStopTypes ==
    ASSUME TypeInv, NEW x, NEW s, CreatesStop(x, s)
    PROVE  TypeInv' /\ Kept(order, order')
<1>1. DatabaseOK' /\ Kept(order, order')
  BY TypeParts, CreateKeepsDatabase DEF CreatesStop, Limit
<1>2. ProcessesOK(order', unsent, queue, boot) /\ BookOK(order', stack, cur)
  BY <1>1, TypeParts, Carried
<1>3. NextOK
  BY <1>1, <1>2, TypeParts DEF CreatesStop, NextOK, CountersOK, counts
<1> QED BY <1>1, <1>3, NextIsTyped

(* The worker starts with some of the open orders. *)
LEMMA RestartInStackTypes == TypeInv /\ SpecialTypeOK /\ RestartInStack => TypeInv'
<1> SUFFICES ASSUME TypeInv, SpecialTypeOK, RestartInStack PROVE NextOK
  BY NextIsTyped
<1>1. /\ stack' = [o \in OrderIds |-> NoEntry] /\ cur' = Idle
      /\ boot' = {o \in inStack : Open(o)}
      /\ restarts' = restarts + 1
      /\ UNCHANGED <<dbVars, unsent, queue, onCancel, onPlace, updates, duplicates>>
  BY DEF RestartInStack
<1>2. DatabaseOK' /\ order' = order
  BY <1>1, TypeParts, DatabaseKept
<1>3. BookOK(order, stack', cur')
  <2>1. stack' \in Stacks
    BY <1>1, EmptyIsTyped DEF Stacks
  <2>2. StackOK(order, stack')
    BY <1>1 DEF StackOK, InStack
  <2> QED BY <1>1, <2>1, <2>2, IdleBook
<1>4. boot' \subseteq OrderIds /\ \A o \in boot' : Exists(order, o)
  <2>1. ASSUME NEW o \in inStack, Open(o) PROVE Exists(order, o)
    BY <2>1, TypeParts DEF SpecialTypeOK, Open, DatabaseOK, RowsOK, NoRow, Exists
  <2> QED BY <1>1, <2>1 DEF Exists
<1>5. ProcessesOK(order', unsent', queue', boot')
  BY <1>1, <1>2, <1>4, TypeParts DEF ProcessesOK
<1>6. CountersOK'
  BY <1>1, TypeParts DEF CountersOK
<1> QED BY <1>2, <1>3, <1>5, <1>6 DEF NextOK

(* The rows sent are rows of limit orders. *)
LEMMA TriggerStopsTypes ==
    ASSUME SpecialTypeInv, NEW n \in OrderIds, NEW T \in SUBSET OrderIds, SendsStops(n, T)
    PROVE  TypeInv'
<1> SUFFICES NextOK
  BY NextIsTyped
<1>0. TypeInv /\ OnlyLimits
  BY DEF SpecialTypeInv
<1>1. DatabaseOK' /\ order' = order
  BY <1>0, TypeParts, DatabaseKept DEF SendsStops
<1>2. ASSUME NEW o \in T PROVE MessageOK(order, PlaceOf(o))
  <2>1. order[o].state = "OPENED" /\ ~order[o].market /\ o \in OrderIds
    BY <1>0 DEF SendsStops, Triggered, Open, OnlyLimits
  <2>2. order[o].id = o /\ Created(order[o])
    BY <1>0, <2>1, TypeParts DEF DatabaseOK, RowsOK, NoRow
  <2> QED BY <2>1, <2>2 DEF MessageOK, PlaceOf, Exists, Stored, Limit
<1>3. QueueOK(order, queue')
  <2>1. QueueOK(order, queue)
    BY <1>0, TypeParts DEF ProcessesOK
  <2>2. ASSUME NEW i \in 1 .. Len(queue') PROVE MessageOK(order, queue'[i])
    BY <1>2, <2>1 DEF SendsStops, QueueOK
  <2> QED BY <2>2 DEF QueueOK
<1>4. ProcessesOK(order', unsent', queue', boot')
  BY <1>0, <1>1, <1>3, TypeParts DEF ProcessesOK, SendsStops
<1>5. BookOK(order', stack', cur') /\ CountersOK'
  BY <1>0, <1>1, TypeParts DEF BookOK, CountersOK, SendsStops, counts
<1> QED BY <1>1, <1>4, <1>5 DEF NextOK

(* otc_bulk_update starts. *)
LEMMA OtcBulkTypes == TypeInv /\ OtcBulkUpdate => TypeInv'
<1> SUFFICES ASSUME TypeInv, OtcBulkUpdate PROVE NextOK
  BY NextIsTyped
<1>1. PICK p \in OtcPrices :
        /\ cur' = [phase |-> "reprice", obj |-> [NoRow EXCEPT !.price = p], todo |-> External]
        /\ UNCHANGED <<dbVars, unsent, queue, stack, boot, onCancel, onPlace, counts>>
  BY DEF OtcBulkUpdate
<1>2. [NoRow EXCEPT !.price = p] \in Row
  BY EmptyIsTyped, SpecialAssumption DEF Row
<1>3. cur' \in Works
  BY <1>1, <1>2 DEF Works, External
<1>4. CurOK(order, stack, cur')
  BY <1>1 DEF CurOK
<1>5. DatabaseOK' /\ order' = order
  BY <1>1, TypeParts, DatabaseKept
<1> QED BY <1>1, <1>3, <1>4, <1>5, TypeParts DEF NextOK, BookOK, CountersOK, counts

(* A limit of the external price is a price. *)
LEMMA OtcPriceIsPrice ==
    ASSUME NEW x \in Row, NEW p \in OtcPrices
    PROVE  OtcPrice(x, p) \in Nat /\ OtcPrice(x, p) > 0
<1>1. p \in Nat /\ p > 0 /\ \A op \in {"BUY", "SELL"} : OtcLimit[op] \in Nat /\ OtcLimit[op] > 0
  BY SpecialAssumption
<1> QED BY <1>1 DEF OtcPrice, Least

(* The row otc_bulk_update writes for one order, if it does. *)
Reprices(o, x, y) ==
    /\ cur.phase = "reprice" /\ o \in cur.todo /\ x = order[o]
    /\ y = [x EXCEPT !.price = OtcPrice(x, cur.obj.price)]
    /\ cur' = [cur EXCEPT !.todo = @ \ {o}]
    /\ UNCHANGED <<matches, fees, voided, unsent, queue, stack, onCancel, onPlace,
                   counts, stopVars, repricings>>
    /\ \/ UNCHANGED <<order, amount, held, boot>>
       \/ /\ ~UpdateRefused(x, y)
          /\ order' = [order EXCEPT ![o] = y]
          /\ amount' = Credited(x.user, Only(HeldIn(x), -Charge(x, y)))
          /\ held' = [held EXCEPT ![o] = @ + Charge(x, y)]
          /\ boot' = boot \cup {o}

LEMMA OrderIsRepriced == RepriceOrder => \E o, x, y : Reprices(o, x, y)
<1> SUFFICES ASSUME RepriceOrder PROVE \E o, x, y : Reprices(o, x, y)
  OBVIOUS
<1>1. PICK o \in cur.todo :
        LET x == order[o]
            y == [x EXCEPT !.price = OtcPrice(x, cur.obj.price)]
        IN  /\ cur.phase = "reprice"
            /\ cur' = [cur EXCEPT !.todo = @ \ {o}]
            /\ IF y = x \/ UpdateRefused(x, y)
               THEN UNCHANGED <<order, amount, held, boot>>
               ELSE /\ order' = [order EXCEPT ![o] = y]
                    /\ amount' = Credited(x.user, Only(HeldIn(x), -Charge(x, y)))
                    /\ held' = [held EXCEPT ![o] = @ + Charge(x, y)]
                    /\ boot' = boot \cup {o}
            /\ UNCHANGED <<matches, fees, voided, unsent, queue, stack, onCancel, onPlace,
                           counts, stopVars, repricings>>
  BY DEF RepriceOrder
<1>2. PICK x : x = order[o]
  OBVIOUS
<1>3. PICK y : y = [x EXCEPT !.price = OtcPrice(x, cur.obj.price)]
  OBVIOUS
<1>4. Reprices(o, x, y)
  BY <1>1, <1>2, <1>3 DEF Reprices
<1> QED BY <1>4

(* It keeps all but the price. *)
LEMMA RepricedRow ==
    ASSUME SpecialTypeInv, NEW o, NEW x, NEW y, Reprices(o, x, y)
    PROVE  /\ o \in OrderIds /\ x \in Row /\ Stored(order, x) /\ x.id = o /\ ~x.market
           /\ y \in Row /\ y.id = o /\ y.op = x.op /\ y.user = x.user /\ y.market = x.market
           /\ y.qty = x.qty /\ y.left = x.left /\ y.cost = x.cost /\ y.state = x.state
           /\ y.price > 0
           /\ ~UpdateRefused(x, y) =>
                 /\ Limit(y) /\ x.state = "OPENED" /\ Charge(x, y) \in Int
                 /\ amount[x.user][HeldIn(x)] + (-Charge(x, y)) >= 0
<1>1. TypeInv /\ SpecialTypeOK /\ OnlyLimits /\ StopsInv
  BY DEF SpecialTypeInv
<1>2. o \in OrderIds /\ x \in Row /\ cur.obj.price \in OtcPrices
  BY <1>1, TypeParts DEF DatabaseOK, BookOK, Works, Reprices, SpecialTypeOK
<1>3. PICK p : p = OtcPrice(x, cur.obj.price)
  OBVIOUS
<1>4. p \in Nat /\ p > 0 /\ y = [x EXCEPT !.price = p]
  BY <1>2, <1>3, OtcPriceIsPrice DEF Reprices
<1>5. /\ y \in Row /\ y.id = x.id /\ y.op = x.op /\ y.user = x.user /\ y.market = x.market
      /\ y.qty = x.qty /\ y.left = x.left /\ y.cost = x.cost /\ y.state = x.state
      /\ y.price > 0
  BY <1>2, <1>4 DEF Row
<1>6. ~x.market
  BY <1>1, <1>2 DEF Reprices, OnlyLimits
<1>7. x.id = o /\ Stored(order, x)
  <2>1. x # NoRow
    <3>1. cur.phase = "reprice" => \A n \in cur.todo : order[n].state # "NONE"
      BY <1>1 DEF SpecialTypeOK
    <3> QED BY <3>1 DEF Reprices, NoRow
  <2> QED BY <1>1, <1>2, <2>1, TypeParts DEF Reprices, DatabaseOK, RowsOK, Stored, Exists
<1>8. ASSUME ~UpdateRefused(x, y)
      PROVE  /\ Limit(y) /\ x.state = "OPENED" /\ Charge(x, y) \in Int
             /\ amount[x.user][HeldIn(x)] + (-Charge(x, y)) >= 0
  <2>1. x.state = "OPENED"
    BY <1>8 DEF UpdateRefused
  <2>2. Limit(y)
    BY <1>5, <1>6, <2>1 DEF Limit, Created
  <2>3. Refund(x) \in Nat /\ Refund(y) \in Nat
    BY <1>2, <1>5, RefundIsNat
  <2>4. Charge(x, y) \in Int
    BY <1>2, <1>5, <2>3, RowFields DEF Charge
  <2>5. amount[x.user][HeldIn(x)] \in Nat
    BY <1>1, <1>2, TypeParts, RowFields, HeldInCurrency DEF DatabaseOK
  <2>6. y = x \/ ~(amount[x.user][HeldIn(x)] < Charge(x, y))
    BY <1>8 DEF UpdateRefused
  <2>7. y = x => Charge(x, y) = 0
    BY <1>2, <2>3, RowFields DEF Charge
  <2> QED BY <2>1, <2>2, <2>4, <2>5, <2>6, <2>7
<1> QED BY <1>2, <1>5, <1>6, <1>7, <1>8

LEMMA RepriceTypes ==
    ASSUME SpecialTypeInv, NEW o, NEW x, NEW y, Reprices(o, x, y)
    PROVE  TypeInv' /\ Kept(order, order')
<1>1. /\ o \in OrderIds /\ x \in Row /\ Stored(order, x) /\ x.id = o
      /\ y \in Row /\ y.id = o /\ y.op = x.op
      /\ ~UpdateRefused(x, y) =>
            /\ Limit(y) /\ Charge(x, y) \in Int
            /\ amount[x.user][HeldIn(x)] + (-Charge(x, y)) >= 0
  BY RepricedRow
<1>2. TypeInv
  BY DEF SpecialTypeInv
<1>3. DatabaseOK' /\ Kept(order, order')
  <2>1. CASE UNCHANGED <<order, amount, held, boot>>
    BY <1>2, <2>1, TypeParts, DatabaseKept DEF Reprices, dbVars
  <2>2. CASE /\ ~UpdateRefused(x, y)
             /\ order' = [order EXCEPT ![o] = y]
             /\ amount' = Credited(x.user, Only(HeldIn(x), -Charge(x, y)))
             /\ held' = [held EXCEPT ![o] = @ + Charge(x, y)]
    <3>1. /\ order \in [OrderIds -> Row] /\ amount \in [Users -> [Currencies -> Nat]]
          /\ held \in [OrderIds -> Int] /\ RowsOK(order) /\ DatabaseOK
      BY <1>2, TypeParts DEF DatabaseOK
    <3>2. order' \in [OrderIds -> Row] /\ RowsOK(order') /\ Kept(order, order')
      BY <1>1, <2>2, <3>1 DEF RowsOK, Kept, Limit, Reprices
    <3>3. amount' \in [Users -> [Currencies -> Nat]]
      <4>1. -Charge(x, y) \in Int
        BY <1>1, <2>2
      <4> QED BY <1>1, <2>2, <3>1, <4>1, RowFields, HeldInCurrency, CreditedIsTyped
    <3>4. held' \in [OrderIds -> Int]
      BY <1>1, <2>2, <3>1
    <3> QED BY <3>1, <3>2, <3>3, <3>4 DEF DatabaseOK, Reprices
  <2> QED BY <2>1, <2>2 DEF Reprices
<1>4. ProcessesOK(order', unsent, queue, boot) /\ BookOK(order', stack, cur)
  BY <1>2, <1>3, TypeParts, Carried
<1>5. Exists(order', o)
  BY <1>1, <1>3 DEF Kept, Exists, Stored
<1>6. ProcessesOK(order', unsent', queue', boot')
  BY <1>1, <1>4, <1>5 DEF ProcessesOK, Reprices
<1>7. BookOK(order', stack', cur')
  <2>1. cur' = [cur EXCEPT !.todo = @ \ {o}] /\ cur \in Works /\ cur.phase = "reprice"
    BY <1>4 DEF Reprices, BookOK
  <2>2. cur' \in Works /\ cur'.phase = "reprice"
    BY <2>1 DEF Works
  <2> QED BY <1>4, <2>2 DEF BookOK, CurOK, Reprices
<1>8. CountersOK'
  BY <1>2, TypeParts DEF CountersOK, Reprices, counts
<1> QED BY <1>3, <1>6, <1>7, <1>8, NextIsTyped DEF NextOK

(* The updated orders leave the stack. *)
LEMMA ReloadTypes == TypeInv /\ ReloadRepriced => TypeInv'
<1> SUFFICES ASSUME TypeInv, ReloadRepriced PROVE NextOK
  BY NextIsTyped
<1>1. /\ \A o \in OrderIds : stack'[o] \in {stack[o], Removed(stack, o)[o]}
      /\ DOMAIN stack' = OrderIds /\ stack' = [o \in OrderIds |-> stack'[o]] /\ cur' = Idle
      /\ UNCHANGED <<dbVars, unsent, queue, boot, onCancel, onPlace, counts>>
  BY DEF ReloadRepriced
<1>2. DatabaseOK' /\ order' = order
  BY <1>1, TypeParts, DatabaseKept
<1>3. stack \in Stacks /\ StackOK(order, stack)
  BY TypeParts DEF BookOK
<1>4. \A o \in OrderIds : stack'[o] \in {stack[o], NoEntry}
  BY <1>1, <1>3 DEF Removed, Stacks
<1>5. stack' \in Stacks
  BY <1>1, <1>3, <1>4, EmptyIsTyped DEF Stacks
<1>6. StackOK(order, stack')
  BY <1>3, <1>4 DEF StackOK, EntryOK, InStack
<1>7. BookOK(order', stack', cur')
  BY <1>1, <1>2, <1>5, <1>6, IdleBook
<1> QED BY <1>1, <1>2, <1>7, TypeParts DEF NextOK, ProcessesOK, CountersOK, counts

(* A step that leaves database and worker alone. *)
LEMMA MarkStopsTypes == TypeInv /\ (MarkStops \/ UNCHANGED vars) => TypeInv' /\ UNCHANGED vars
<1> SUFFICES ASSUME TypeInv, UNCHANGED vars PROVE TypeInv'
  BY DEF MarkStops
<1> QED BY TypeNext

LEMMA PlaceKeyTypes == TypeInv /\ PlaceKeyExpires => TypeInv'
<1> SUFFICES ASSUME TypeInv, PlaceKeyExpires PROVE NextOK
  BY NextIsTyped
<1>1. /\ UNCHANGED <<dbVars, unsent, queue, stack, cur, boot, onCancel, counts>>
      /\ onPlace' \subseteq onPlace
  BY DEF PlaceKeyExpires
<1>2. DatabaseOK' /\ order' = order
  BY <1>1, TypeParts, DatabaseKept
<1> QED BY <1>1, <1>2, TypeParts DEF NextOK, CountersOK, counts

-----------------------------------------------------------------------------
(* What is asked of the queue and of the snapshots.                        *)

LEMMA SomeWait ==
    ASSUME TypeInv, NEW t, NEW o, Waiting(t, o)
    PROVE  t # "market" => o \in OrderIds /\ order[o].state # "NONE"
<1>1. PICK i \in 1 .. Len(queue) : queue[i].type = t /\ queue[i].row.id = o
  BY DEF Waiting
<1>2. t # "market" => Exists(order, o)
  BY <1>1, TypeParts DEF ProcessesOK, QueueOK, MessageOK
<1> QED BY <1>2, TypeParts DEF Exists, DatabaseOK, RowsOK, NoRow, Created, OrderIds

LEMMA TailWaits ==
    ASSUME TypeInv, OnlyLimits, queue # <<>>, queue' = Tail(queue)
    PROVE  /\ \A t, o : Waiting(t, o)' => Waiting(t, o)
           /\ \A i \in 1 .. Len(queue') : queue'[i].type \in {"place", "cancel"}
           /\ Waiting(Head(queue).type, Head(queue).row.id)
<1>1. queue \in Seq(Message)
  BY DEF TypeInv, TypeOK
<1>2. /\ Len(queue) \in Nat /\ Len(Tail(queue)) = Len(queue) - 1 /\ Len(queue) >= 1
      /\ queue[1] = Head(queue)
      /\ \A i \in 1 .. Len(Tail(queue)) : Tail(queue)[i] = queue[i + 1]
  BY <1>1, TailQueue
<1>3. \A i \in 1 .. Len(queue') : i + 1 \in 1 .. Len(queue) /\ queue'[i] = queue[i + 1]
  BY <1>2
<1>4. 1 \in 1 .. Len(queue)
  BY <1>2
<1> QED BY <1>2, <1>3, <1>4 DEF Waiting, OnlyLimits

LEMMA EnqueuedWaits ==
    ASSUME TypeInv, OnlyLimits, NEW t \in {"place", "cancel"}, NEW x, Enqueued(t, x)
    PROVE  /\ \A u, o : Waiting(u, o)' => Waiting(u, o) \/ (u = t /\ o = x.id)
           /\ \A i \in 1 .. Len(queue') : queue'[i].type \in {"place", "cancel"}
<1>1. queue \in Seq(Message) /\ queue' = Append(queue, [type |-> t, row |-> x])
  BY DEF TypeInv, TypeOK, Enqueued
<1>2. PICK m : m = [type |-> t, row |-> x]
  OBVIOUS
<1>3. m.type = t /\ m.row.id = x.id
  BY <1>2
<1>4. /\ Len(queue) \in Nat /\ Len(queue') = Len(queue) + 1
      /\ \A i \in 1 .. Len(queue') : i \in 1 .. Len(queue) \/ i = Len(queue) + 1
      /\ \A i \in 1 .. Len(queue) : queue'[i] = queue[i]
      /\ queue'[Len(queue) + 1] = m
  BY <1>1, <1>2, QueueLonger
<1> QED BY <1>3, <1>4 DEF Waiting, OnlyLimits

-----------------------------------------------------------------------------
(* That stops wait for their price.                                        *)

(* What is asked of the worker's phase. *)
PhaseOK(c, ord) ==
    /\ c.phase # "market" /\ ~c.obj.market
    /\ c.phase = "reprice" =>
           /\ c.obj.price \in OtcPrices /\ c.obj.id = 0
           /\ \A o \in c.todo : ord[o].state # "NONE" /\ ~IsStop(o)

LEMMA SpecialParts ==
    SpecialTypeInv <=>
        /\ TypeInv
        /\ stop \in [OrderIds -> Nat] /\ lastPrice \in [OrderIds -> Nat] /\ traded \subseteq Nat
        /\ inStack \cup loaded \cup marking \subseteq OrderIds
        /\ \A o \in inStack \cup loaded \cup marking : order[o].state # "NONE"
        /\ PhaseOK(cur, order)
        /\ \A o \in OrderIds : ~order[o].market
        /\ \A i \in 1 .. Len(queue) : queue[i].type \in {"place", "cancel"}
        /\ \A x \in unsent : ~IsStop(x.id)
        /\ \A o \in OrderIds : IsStop(o) => order[o].state # "NONE" /\ (SentOut(o) => Reached(o))
        /\ \A o \in OrderIds : lastPrice[o] # 0 =>
              lastPrice[o] \in traded \/ order[o].state = "CANCELED"
  BY DEF SpecialTypeInv, SpecialTypeOK, OnlyLimits, StopsInv, PhaseOK

(* An order that exists goes on existing, of the same operation. *)
LEMMA StaysCreated ==
    ASSUME TypeInv, TypeInv', Kept(order, order')
    PROVE  \A o \in OrderIds : order[o].state # "NONE" =>
              order'[o].state # "NONE" /\ order'[o].op = order[o].op
<1>1. SUFFICES ASSUME NEW o \in OrderIds, order[o].state # "NONE"
               PROVE  order'[o].state # "NONE" /\ order'[o].op = order[o].op
  OBVIOUS
<1>2. order[o].id = o
  BY <1>1, TypeParts DEF DatabaseOK, RowsOK, NoRow
<1>3. order'[o].id = o /\ order'[o].op = order[o].op
  BY <1>2 DEF Kept
<1>4. order'[o] # NoRow
  BY <1>3 DEF NoRow, OrderIds
<1>5. RowsOK(order')
  BY DEF TypeInv
<1> QED BY <1>3, <1>4, <1>5 DEF RowsOK, Created

(* What a step has to keep. *)
SentKept ==
    /\ stop' = stop /\ traded \subseteq traded' /\ traded' \subseteq Nat
    /\ lastPrice' \in [OrderIds -> Nat]
    /\ inStack' \cup loaded' \cup marking' \subseteq inStack \cup loaded \cup marking \cup {o \in OrderIds : order'[o].state # "NONE"}
    /\ \A o \in OrderIds : ~order'[o].market
    /\ \A i \in 1 .. Len(queue') : queue'[i].type \in {"place", "cancel"}
    /\ \A x \in unsent' : ~IsStop(x.id)
    /\ \A o \in OrderIds : IsStop(o) /\ SentOut(o)' => SentOut(o) \/ Reached(o)'
    /\ \A o \in OrderIds : lastPrice'[o] # 0 =>
          lastPrice'[o] \in traded' \/ order'[o].state = "CANCELED"

LEMMA SentStays ==
    ASSUME SpecialTypeInv, TypeInv', Kept(order, order'), SentKept, PhaseOK(cur', order')
    PROVE  SpecialTypeInv'
<1>1. TypeInv
  BY SpecialParts
<1>2. \A o \in OrderIds : order[o].state # "NONE" =>
              order'[o].state # "NONE" /\ order'[o].op = order[o].op
  BY <1>1, StaysCreated
<1>3. ASSUME NEW o \in OrderIds, IsStop(o)
      PROVE  order'[o].state # "NONE" /\ (SentOut(o)' => Reached(o)')
  <2>1. order'[o].state # "NONE" /\ order'[o].op = order[o].op
    BY <1>2, <1>3, SpecialParts
  <2>2. Reached(o) => Reached(o)'
    BY <2>1 DEF Reached, SentKept
  <2> QED BY <1>3, <2>1, <2>2, SpecialParts DEF SentKept
<1>4. \A o \in OrderIds : IsStop(o)' = IsStop(o)
  BY DEF IsStop, SentKept
<1>5. \A o \in inStack' \cup loaded' \cup marking' : o \in OrderIds /\ order'[o].state # "NONE"
  BY <1>2, SpecialParts DEF SentKept
<1>6. PhaseOK(cur, order)' 
  BY DEF PhaseOK, IsStop, SentKept
<1>7. stop' \in [OrderIds -> Nat]
  BY SpecialParts DEF SentKept
<1>8. \A x \in unsent' : ~IsStop(x.id)'
  BY DEF SentKept, IsStop
<1>9. SpecialTypeOK'
  BY <1>5, <1>6, <1>7 DEF SentKept, SpecialTypeOK, PhaseOK
<1>10. OnlyLimits'
  BY <1>6 DEF SentKept, OnlyLimits, PhaseOK
<1>11. StopsInv'
  BY <1>3, <1>4, <1>6, <1>8 DEF SentKept, StopsInv, PhaseOK
<1> QED BY <1>9, <1>10, <1>11 DEF SpecialTypeInv
(* A step that leaves the database alone. *)
LEMMA NothingWritten ==
    ASSUME SpecialTypeInv, TypeInv', UNCHANGED <<dbVars, stopVars>>, unsent' \subseteq unsent,
           \A i \in 1 .. Len(queue') : queue'[i].type \in {"place", "cancel"},
           PhaseOK(cur', order),
           \A o \in OrderIds :
              /\ IsStop(o)
              /\ InStack(stack', o) \/ o \in boot' \/ Processed(o)' \/ Waiting("place", o)'
              => SentOut(o)
    PROVE  SpecialTypeInv'
<1>1. order' = order
  BY DEF dbVars
<1>2. Kept(order, order') /\ PhaseOK(cur', order')
  BY <1>1 DEF Kept
<1>3. \A o \in OrderIds : IsStop(o) /\ SentOut(o)' => SentOut(o)
  <2>1. SUFFICES ASSUME NEW o \in OrderIds, IsStop(o), SentOut(o)' PROVE SentOut(o)
    OBVIOUS
  <2>2. inStack' = inStack /\ loaded' = loaded /\ marking' = marking
    BY DEF stopVars
  <2>3. \/ InStack(stack', o) \/ o \in boot' \/ Processed(o)' \/ Waiting("place", o)'
        \/ order'[o].left < order'[o].qty \/ o \in inStack' \cup loaded' \cup marking'
    BY <2>1 DEF SentOut
  <2> QED BY <1>1, <2>1, <2>2, <2>3 DEF SentOut
<1>4. SentKept
  BY <1>1, <1>3, SpecialParts DEF SentKept, stopVars
<1> QED BY <1>2, <1>4, SentStays

LEMMA QuietStops == SpecialTypeInv /\ UNCHANGED <<vars, stopVars>> => SpecialTypeInv'
<1> SUFFICES ASSUME SpecialTypeInv, UNCHANGED <<vars, stopVars>> PROVE SpecialTypeInv'
  OBVIOUS
<1>1. TypeInv'
  BY MarkStopsTypes DEF SpecialTypeInv
<1>2. UNCHANGED <<dbVars, stopVars, unsent, queue, stack, cur, boot>>
  BY DEF vars
<1>3. PhaseOK(cur', order) /\ \A i \in 1 .. Len(queue') : queue'[i].type \in {"place", "cancel"}
  BY <1>2, SpecialParts
<1>4. \A o \in OrderIds : InStack(stack', o) \/ o \in boot' \/ Processed(o)' \/ Waiting("place", o)'
                          => SentOut(o)
  BY <1>2 DEF SentOut, Processed, Waiting
<1> QED BY <1>1, <1>2, <1>3, <1>4, NothingWritten

(* What a step of Next needs of the types. *)
LEMMA BaseTypes == SpecialTypeInv /\ [Next]_vars => TypeInv /\ TypeInv'
  BY TypeNext DEF SpecialTypeInv

LEMMA RequestCancelStops ==
    SpecialTypeInv /\ RequestCancel /\ UNCHANGED stopVars => SpecialTypeInv'
<1> SUFFICES ASSUME SpecialTypeInv, RequestCancel, UNCHANGED stopVars PROVE SpecialTypeInv'
  OBVIOUS
<1>1. TypeInv' /\ TypeInv /\ OnlyLimits
  BY BaseTypes DEF Next, Web, SpecialTypeInv
<1>2. PICK x : /\ Enqueued("cancel", x)
               /\ UNCHANGED <<dbVars, unsent, stack, cur, boot, onCancel, onPlace, counts>>
  BY DEF RequestCancel
<1>3. /\ \A u, o : Waiting(u, o)' => Waiting(u, o) \/ (u = "cancel" /\ o = x.id)
      /\ \A i \in 1 .. Len(queue') : queue'[i].type \in {"place", "cancel"}
  BY <1>1, <1>2, EnqueuedWaits
<1>4. \A o \in OrderIds : InStack(stack', o) \/ o \in boot' \/ Processed(o)' \/ Waiting("place", o)'
                          => SentOut(o)
  BY <1>2, <1>3 DEF SentOut, Processed
<1>5. PhaseOK(cur', order)
  BY <1>2, SpecialParts
<1> QED BY <1>1, <1>2, <1>3, <1>4, <1>5, NothingWritten

LEMMA SendPlaceOrderStops ==
    SpecialTypeInv /\ SendPlaceOrder /\ UNCHANGED stopVars => SpecialTypeInv'
<1> SUFFICES ASSUME SpecialTypeInv, SendPlaceOrder, UNCHANGED stopVars PROVE SpecialTypeInv'
  OBVIOUS
<1>1. TypeInv' /\ TypeInv /\ OnlyLimits
  BY BaseTypes DEF Next, SpecialTypeInv
<1>2. PICK x \in unsent :
               /\ Enqueued("place", x) /\ unsent' = unsent \ {x}
               /\ UNCHANGED <<dbVars, stack, cur, boot, onCancel, onPlace, counts>>
  BY DEF SendPlaceOrder
<1>3. /\ \A u, o : Waiting(u, o)' => Waiting(u, o) \/ (u = "place" /\ o = x.id)
      /\ \A i \in 1 .. Len(queue') : queue'[i].type \in {"place", "cancel"}
  BY <1>1, <1>2, EnqueuedWaits
<1>4. ~IsStop(x.id)
  BY <1>2, SpecialParts
<1>5. \A o \in OrderIds :
         IsStop(o) /\ (InStack(stack', o) \/ o \in boot' \/ Processed(o)' \/ Waiting("place", o)')
             => SentOut(o)
  BY <1>2, <1>3, <1>4 DEF SentOut, Processed
<1>6. PhaseOK(cur', order)
  BY <1>2, SpecialParts
<1> QED BY <1>1, <1>2, <1>3, <1>5, <1>6, NothingWritten

LEMMA CancelKeyStops ==
    SpecialTypeInv /\ CancelKeyExpires /\ UNCHANGED stopVars => SpecialTypeInv'
<1> SUFFICES ASSUME SpecialTypeInv, CancelKeyExpires, UNCHANGED stopVars PROVE SpecialTypeInv'
  OBVIOUS
<1>1. TypeInv' /\ UNCHANGED <<dbVars, unsent, queue, stack, cur, boot>>
  BY BaseTypes DEF Next, CancelKeyExpires
<1>2. PhaseOK(cur', order) /\ \A i \in 1 .. Len(queue') : queue'[i].type \in {"place", "cancel"}
  BY <1>1, SpecialParts
<1>3. \A o \in OrderIds : InStack(stack', o) \/ o \in boot' \/ Processed(o)' \/ Waiting("place", o)'
                          => SentOut(o)
  BY <1>1 DEF SentOut, Processed, Waiting
<1> QED BY <1>1, <1>2, <1>3, NothingWritten

LEMMA PlaceKeyStops == SpecialTypeInv /\ PlaceKeyExpires => SpecialTypeInv'
<1> SUFFICES ASSUME SpecialTypeInv, PlaceKeyExpires PROVE SpecialTypeInv'
  OBVIOUS
<1>1. TypeInv'
  BY PlaceKeyTypes DEF SpecialTypeInv
<1>2. UNCHANGED <<dbVars, stopVars, unsent, queue, stack, cur, boot>>
  BY DEF PlaceKeyExpires
<1>3. PhaseOK(cur', order) /\ \A i \in 1 .. Len(queue') : queue'[i].type \in {"place", "cancel"}
  BY <1>2, SpecialParts
<1>4. \A o \in OrderIds : InStack(stack', o) \/ o \in boot' \/ Processed(o)' \/ Waiting("place", o)'
                          => SentOut(o)
  BY <1>2 DEF SentOut, Processed, Waiting
<1> QED BY <1>1, <1>2, <1>3, <1>4, NothingWritten

(* An order that is given to the worker. *)
LEMMA ProcessSends ==
    ASSUME NEW x \in Row, NEW st \in Stacks, Process(x, st), ~x.market
    PROVE  /\ \A o \in OrderIds : InStack(stack', o) \/ Processed(o)' => InStack(st, o) \/ o = x.id
           /\ cur'.phase \in {"idle", "match"} /\ ~cur'.obj.market
<1>1. \A o \in OrderIds : o # x.id => stack'[o] = st[o]
  BY ProcessTouches
<1>2. cur' = Idle \/ cur' = [phase |-> "match", obj |-> x, todo |-> Matching(x, st)]
  BY DEF Process
<1>3. /\ cur'.phase \in {"idle", "match"} /\ ~cur'.obj.market
      /\ cur'.phase # "idle" => cur'.obj = x
  BY <1>2 DEF Idle, NoRow
<1> QED BY <1>1, <1>3 DEF InStack, Processed

LEMMA PlaceOrderStops ==
    SpecialTypeInv /\ PlaceOrderTask /\ UNCHANGED stopVars => SpecialTypeInv'
<1> SUFFICES ASSUME SpecialTypeInv, PlaceOrderTask, UNCHANGED stopVars PROVE SpecialTypeInv'
  OBVIOUS
<1>1. TypeInv' /\ TypeInv /\ OnlyLimits
  BY BaseTypes DEF Next, Worker, SpecialTypeInv
<1>2. PICK x : x = Head(queue).row
  OBVIOUS
<1>3. /\ Take("place") /\ UNCHANGED dbVars
      /\ (stack' = stack /\ cur' = cur) \/ Process(x, stack)
  BY <1>2 DEF PlaceOrderTask
<1>4. /\ queue # <<>> /\ queue' = Tail(queue) /\ Head(queue).type = "place"
      /\ unsent' = unsent /\ boot' = boot /\ cur = Idle
  BY <1>3 DEF Take
<1>5. /\ \A t, o : Waiting(t, o)' => Waiting(t, o)
      /\ \A i \in 1 .. Len(queue') : queue'[i].type \in {"place", "cancel"}
      /\ Waiting("place", x.id)
  BY <1>1, <1>2, <1>4, TailWaits
<1>6. x \in Row /\ ~x.market
  BY <1>1, <1>2, <1>3, TakeKeepsProcesses DEF MessageOK, Limit
<1>7. stack \in Stacks
  BY <1>1 DEF TypeInv, TypeOK, Stacks
<1>8. /\ \A o \in OrderIds : InStack(stack', o) \/ Processed(o)' => InStack(stack, o) \/ o = x.id
      /\ cur'.phase \in {"idle", "match"} /\ ~cur'.obj.market
  <2>1. CASE Process(x, stack)
    BY <1>6, <1>7, <2>1, ProcessSends
  <2>2. CASE stack' = stack /\ cur' = cur
    BY <1>4, <2>2 DEF Idle, NoRow, Processed
  <2> QED BY <1>3, <2>1, <2>2
<1>9. PhaseOK(cur', order)
  BY <1>8 DEF PhaseOK
<1>10. \A o \in OrderIds : InStack(stack', o) \/ o \in boot' \/ Processed(o)' \/ Waiting("place", o)'
                          => SentOut(o)
  BY <1>4, <1>5, <1>8 DEF SentOut
<1> QED BY <1>1, <1>3, <1>4, <1>5, <1>9, <1>10, NothingWritten

LEMMA LoadOpenedOrderStops ==
    SpecialTypeInv /\ LoadOpenedOrder /\ UNCHANGED stopVars => SpecialTypeInv'
<1> SUFFICES ASSUME SpecialTypeInv, LoadOpenedOrder, UNCHANGED stopVars PROVE SpecialTypeInv'
  OBVIOUS
<1>1. TypeInv' /\ TypeInv
  BY BaseTypes DEF Next, Worker, SpecialTypeInv
<1>2. PICK o \in boot :
        /\ boot' = boot \ {o}
        /\ IF order[o].market
           THEN /\ cur' = [phase |-> "market", obj |-> order[o], todo |-> {}]
                /\ UNCHANGED stack
           ELSE Process(order[o], stack)
        /\ UNCHANGED <<dbVars, unsent, queue, onCancel, onPlace, counts>>
  BY DEF LoadOpenedOrder
<1>3. o \in OrderIds /\ order[o] \in Row /\ ~order[o].market /\ order[o].id = o
  BY <1>1, SpecialParts, TypeParts DEF ProcessesOK, DatabaseOK, Exists
<1>4. stack \in Stacks /\ Process(order[o], stack)
  BY <1>1, <1>2, <1>3 DEF TypeInv, TypeOK, Stacks
<1>5. /\ \A n \in OrderIds : InStack(stack', n) \/ Processed(n)' => InStack(stack, n) \/ n = o
      /\ cur'.phase \in {"idle", "match"} /\ ~cur'.obj.market
  BY <1>3, <1>4, ProcessSends
<1>6. PhaseOK(cur', order)
  BY <1>5 DEF PhaseOK
<1>7. \A n \in OrderIds : InStack(stack', n) \/ n \in boot' \/ Processed(n)' \/ Waiting("place", n)'
                          => SentOut(n)
  BY <1>2, <1>5 DEF SentOut, Waiting
<1>8. \A i \in 1 .. Len(queue') : queue'[i].type \in {"place", "cancel"}
  BY <1>2, SpecialParts
<1> QED BY <1>1, <1>2, <1>6, <1>7, <1>8, NothingWritten

LEMMA MatchFailsStops ==
    SpecialTypeInv /\ MatchFails /\ UNCHANGED stopVars => SpecialTypeInv'
<1> SUFFICES ASSUME SpecialTypeInv, MatchFails, UNCHANGED stopVars PROVE SpecialTypeInv'
  OBVIOUS
<1>1. TypeInv' /\ TypeInv
  BY BaseTypes DEF Next, Worker, SpecialTypeInv
<1>2. PICK r \in OrderIds : \E q :
        LET st == IF VoidCancels(cur.obj, q, stack[r].row.price) THEN Removed(stack, cur.obj.id) ELSE stack
        IN  /\ Best(r)
            /\ stack' \in {stack, [st EXCEPT ![r].row.left = @ - q]}
  BY DEF MatchFails
<1>3. cur' = Idle /\ boot' = {} /\ UNCHANGED <<dbVars, unsent, queue>> /\ cur.phase = "match"
  BY DEF MatchFails
<1>4. InStack(stack, r) /\ stack \in Stacks
  BY <1>1, <1>2, <1>3 DEF Best, TypeInv, TypeOK, CurOK, TodoOK, Stacks
<1>5. \A o \in OrderIds : InStack(stack', o) => InStack(stack, o)
  BY <1>2, <1>4 DEF Removed, InStack, Stacks
<1>6. PhaseOK(cur', order)
  BY <1>3 DEF PhaseOK, Idle, NoRow
<1>7. \A o \in OrderIds : InStack(stack', o) \/ o \in boot' \/ Processed(o)' \/ Waiting("place", o)'
                          => SentOut(o)
  BY <1>3, <1>5 DEF SentOut, Waiting, Processed, Idle
<1>8. \A i \in 1 .. Len(queue') : queue'[i].type \in {"place", "cancel"}
  BY <1>3, SpecialParts
<1> QED BY <1>1, <1>3, <1>6, <1>7, <1>8, NothingWritten
LEMMA CreateLimitStops == SpecialTypeInv /\ CreateLimitOrder => SpecialTypeInv'
<1> SUFFICES ASSUME SpecialTypeInv, CreateLimitOrder PROVE SpecialTypeInv'
  OBVIOUS
<1>1. TypeInv' /\ TypeInv /\ DatabaseOK
  BY BaseTypes, TypeParts DEF Next, Web, CreateLimitOrder, SpecialTypeInv
<1>2. PICK u \in Users, op \in {"BUY", "SELL"}, p \in Prices, q \in Quantities, n \in OrderIds :
        LET x == [id |-> n, user |-> u, op |-> op, market |-> FALSE, price |-> p,
                  qty |-> q, left |-> q, cost |-> 0, state |-> "OPENED"]
        IN  /\ Room /\ Free(n)
            /\ CreateRow(x)
            /\ unsent' = unsent \cup {x}
            /\ UNCHANGED <<queue, stack, cur, boot, onCancel, onPlace, counts>>
  <2>1. CreateOrder
    BY DEF CreateLimitOrder
  <2> QED BY <2>1 DEF CreateOrder
<1>3. PICK x : x = [id |-> n, user |-> u, op |-> op, market |-> FALSE, price |-> p,
                    qty |-> q, left |-> q, cost |-> 0, state |-> "OPENED"]
  OBVIOUS
<1>4. /\ x \in Row /\ Created(x) /\ x.id = n /\ ~x.market /\ x.left = x.qty /\ x.state = "OPENED"
      /\ x.qty \in Nat
  BY <1>3, OrderBookAssumption DEF Row, Created, OrderIds
<1>5. /\ Free(n) /\ CreateRow(x) /\ unsent' = unsent \cup {x}
      /\ UNCHANGED <<queue, stack, cur, boot>>
  BY <1>2, <1>3
<1>6. Kept(order, order')
  BY <1>1, <1>4, <1>5, CreateKeepsDatabase
<1>7. order[n].state = "NONE" /\ order' = [order EXCEPT ![n] = x] /\ order \in [OrderIds -> Row]
  BY <1>1, <1>4, <1>5 DEF Free, CreateRow, DatabaseOK
<1>8. ~IsStop(n)
  BY <1>7, SpecialParts
<1>9. /\ inStack' \subseteq inStack \cup {n} /\ loaded' \subseteq loaded \cup {n}
      /\ UNCHANGED <<stop, lastPrice, traded, marking>>
  <2>1. {o \in OrderIds : order'[o] # order[o]} \subseteq {n}
    BY <1>7
  <2> QED BY <2>1 DEF CreateLimitOrder
<1>10. SentKept
  <2>1. \A o \in OrderIds : o # n => order'[o] = order[o]
    BY <1>7
  <2>2. order'[n] = x
    BY <1>7
  <2>3. \A o \in OrderIds : IsStop(o) /\ SentOut(o)' => SentOut(o)
    BY <1>5, <1>8, <1>9, <2>1 DEF SentOut, Waiting, Processed
  <2>4. \A o \in OrderIds : lastPrice'[o] # 0 =>
          lastPrice'[o] \in traded' \/ order'[o].state = "CANCELED"
    BY <1>7, <1>9, <2>1, SpecialParts
  <2>5. \A o \in OrderIds : ~order'[o].market
    BY <1>4, <2>1, <2>2, SpecialParts
  <2>6. \A z \in unsent' : ~IsStop(z.id)
    BY <1>4, <1>5, <1>8, SpecialParts
  <2>7. inStack' \cup loaded' \cup marking'
           \subseteq inStack \cup loaded \cup marking \cup {o \in OrderIds : order'[o].state # "NONE"}
    BY <1>4, <1>9, <2>2
  <2>8. \A i \in 1 .. Len(queue') : queue'[i].type \in {"place", "cancel"}
    BY <1>5, SpecialParts
  <2> QED BY <1>9, <2>3, <2>4, <2>5, <2>6, <2>7, <2>8, SpecialParts DEF SentKept
<1>11. PhaseOK(cur', order')
  BY <1>1, <1>5, <1>6, StaysCreated, SpecialParts, TypeParts DEF PhaseOK, BookOK, Works
<1> QED BY <1>1, <1>6, <1>10, <1>11, SentStays

LEMMA CreateStopStops ==
    ASSUME SpecialTypeInv, NEW x, NEW s, CreatesStop(x, s)
    PROVE  SpecialTypeInv'
<1>1. TypeInv /\ TypeInv' /\ Kept(order, order')
  BY CreateStopTypes DEF SpecialTypeInv
<1>2. PICK n : n = x.id
  OBVIOUS
<1>3. /\ n \in OrderIds /\ order[n].state = "NONE" /\ order' = [order EXCEPT ![n] = x]
      /\ order \in [OrderIds -> Row] /\ stop \in [OrderIds -> Nat]
      /\ stop' = [stop EXCEPT ![n] = s] /\ s \in Nat /\ cur = Idle /\ boot = {}
      /\ x.left = x.qty /\ x.qty \in Nat /\ ~x.market /\ x.state = "OPENED"
      /\ UNCHANGED <<unsent, queue, stack, cur, boot, inStack, loaded, lastPrice, traded, marking>>
  BY <1>1, <1>2, SpecialParts DEF CreatesStop, Free, CreateRow, TypeInv, TypeOK, AtRest, Row
<1>4. /\ \A o \in OrderIds : o # n => order'[o] = order[o] /\ stop'[o] = stop[o]
      /\ order'[n] = x /\ stop' \in [OrderIds -> Nat]
  BY <1>3
<1>5. ~SentOut(n)'
  <2>1. ~InStack(stack, n) /\ ~Waiting("place", n)
    BY <1>1, <1>3, StoredHaveRows, SomeWait
  <2>2. n \notin inStack \cup loaded \cup marking
    BY <1>3, SpecialParts
  <2> QED BY <1>3, <1>4, <2>1, <2>2 DEF SentOut, Waiting, Processed, Idle
<1>6. \A z \in unsent : z.id # n /\ z.id \in OrderIds
  BY <1>1, <1>3, StoredHaveRows, WaitingRows
<1>7. \A o \in OrderIds : o # n => IsStop(o)' = IsStop(o) /\ SentOut(o)' = SentOut(o) /\ Reached(o)' = Reached(o)
  BY <1>3, <1>4 DEF IsStop, SentOut, Reached, Waiting, Processed
<1>8. /\ \A o \in OrderIds : order[o].state # "NONE" => order'[o].state # "NONE"
      /\ \A o \in OrderIds : ~order'[o].market
      /\ \A o \in OrderIds : order[o].state = "CANCELED" => order'[o].state = "CANCELED"
  BY <1>3, <1>4, SpecialParts
<1>9. SpecialTypeOK'
  BY <1>3, <1>4, <1>8, SpecialParts DEF SpecialTypeOK, Idle
<1>10. OnlyLimits'
  BY <1>3, <1>8, SpecialParts DEF OnlyLimits, Idle, NoRow
<1>11. StopsInv'
  <2>1. \A o \in OrderIds : IsStop(o)' => order'[o].state # "NONE" /\ (SentOut(o)' => Reached(o)')
    BY <1>3, <1>4, <1>5, <1>7, <1>8, SpecialParts
  <2>2. \A z \in unsent' : ~IsStop(z.id)'
    BY <1>3, <1>6, <1>7, SpecialParts
  <2>3. \A o \in OrderIds : lastPrice'[o] # 0 => lastPrice'[o] \in traded' \/ order'[o].state = "CANCELED"
    BY <1>3, <1>8, SpecialParts
  <2> QED BY <1>3, <2>1, <2>2, <2>3 DEF StopsInv, Idle
<1> QED BY <1>1, <1>9, <1>10, <1>11 DEF SpecialTypeInv

LEMMA MarkStopsStops == SpecialTypeInv /\ MarkStops => SpecialTypeInv'
<1> SUFFICES ASSUME SpecialTypeInv, MarkStops PROVE SpecialTypeInv'
  OBVIOUS
<1>1. TypeInv' /\ UNCHANGED <<order, unsent, queue, stack, cur, boot>>
  BY MarkStopsTypes DEF SpecialTypeInv, vars, dbVars
<1>2. /\ inStack' = inStack \cup marking /\ marking' = {}
      /\ UNCHANGED <<stop, loaded, lastPrice, traded>>
  BY DEF MarkStops
<1>3. \A o \in OrderIds : SentOut(o)' => SentOut(o)
  BY <1>1, <1>2 DEF SentOut, Waiting, Processed
<1>4. SentKept
  BY <1>1, <1>2, <1>3, SpecialParts DEF SentKept
<1>5. PhaseOK(cur', order') /\ Kept(order, order')
  BY <1>1, SpecialParts DEF Kept
<1> QED BY <1>1, <1>4, <1>5, SentStays

(* What was triggered was reached. *)
LEMMA TriggeredAreReached ==
    ASSUME SpecialTypeInv, "late" \notin SpecialRaces, NEW n \in OrderIds, InTime(n, {}), NEW o \in Triggered(n)
    PROVE  Reached(o)
<1>1. o \in OrderIds /\ lastPrice[n] # 0 /\ Reaches(o, order[n].op, lastPrice[n])
  BY DEF Triggered
<1>2. lastPrice[n] \in traded
  BY <1>1, SpecialParts DEF InTime
<1>3. order[o].op \in {"BUY", "SELL"} /\ order[n].op \in {"BUY", "SELL"}
  BY <1>1, SpecialParts DEF TypeInv, TypeOK, Row
<1> QED BY <1>1, <1>2, <1>3 DEF Reached, Reaches

LEMMA TriggerStopsStops ==
    ASSUME SpecialTypeInv, "late" \notin SpecialRaces,
           NEW n \in OrderIds, NEW T \in SUBSET OrderIds, SendsStops(n, T)
    PROVE  SpecialTypeInv'
<1>1. TypeInv' /\ TypeInv
  BY TriggerStopsTypes DEF SpecialTypeInv
<1>2. \A o \in T : Reached(o) /\ order[o].state = "OPENED"
  BY TriggeredAreReached DEF SendsStops, InTime, Triggered, Open
<1>3. /\ UNCHANGED <<order, unsent, stack, cur, boot, stop, inStack, lastPrice, traded>>
      /\ loaded' \subseteq loaded \cup inStack /\ marking' = T
  BY DEF SendsStops, dbVars
<1>4. \A o : Waiting("place", o)' => Waiting("place", o) \/ o \in T
  <2>1. SUFFICES ASSUME NEW o, Waiting("place", o)' PROVE Waiting("place", o) \/ o \in T
    OBVIOUS
  <2>2. PICK i \in 1 .. Len(queue') : queue'[i].type = "place" /\ queue'[i].row.id = o
    BY <2>1 DEF Waiting
  <2>3. CASE i \in 1 .. Len(queue)
    BY <2>2, <2>3 DEF Waiting, SendsStops
  <2>4. CASE \E m \in T : queue'[i] = PlaceOf(m)
    <3>1. PICK m \in T : queue'[i] = PlaceOf(m)
      BY <2>4
    <3>2. order[m].id = m
      BY <1>1, <1>2, TypeParts DEF DatabaseOK, RowsOK, NoRow
    <3>3. queue'[i].row = order[m]
      BY <3>1 DEF PlaceOf
    <3> QED BY <2>2, <3>2, <3>3
  <2> QED BY <2>3, <2>4 DEF SendsStops
<1>5. \A i \in 1 .. Len(queue') : queue'[i].type \in {"place", "cancel"}
  <2>1. \A o : PlaceOf(o).type = "place"
    BY DEF PlaceOf
  <2>2. \A i \in 1 .. Len(queue) : queue[i].type \in {"place", "cancel"}
    BY SpecialParts
  <2> QED BY <2>1, <2>2 DEF SendsStops
<1>6. \A o \in OrderIds : SentOut(o)' => SentOut(o) \/ Reached(o)'
  <2>1. \A o \in OrderIds : Reached(o)' = Reached(o) /\ Processed(o)' = Processed(o)
    BY <1>3 DEF Reached, Processed
  <2> QED BY <1>2, <1>3, <1>4, <2>1 DEF SentOut
<1>7. SentKept
  BY <1>2, <1>3, <1>5, <1>6, SpecialParts DEF SentKept
<1>8. PhaseOK(cur', order') /\ Kept(order, order')
  BY <1>3, SpecialParts DEF Kept
<1> QED BY <1>1, <1>7, <1>8, SentStays

LEMMA RestartInStackStops == SpecialTypeInv /\ RestartInStack => SpecialTypeInv'
<1> SUFFICES ASSUME SpecialTypeInv, RestartInStack PROVE SpecialTypeInv'
  OBVIOUS
<1>1. TypeInv'
  BY RestartInStackTypes DEF SpecialTypeInv
<1>2. /\ stack' = [o \in OrderIds |-> NoEntry] /\ cur' = Idle
      /\ boot' \subseteq inStack /\ loaded' = inStack
      /\ UNCHANGED <<order, unsent, queue, stop, inStack, lastPrice, traded, marking>>
  BY DEF RestartInStack, dbVars
<1>3. \A o \in OrderIds : SentOut(o)' => SentOut(o)
  BY <1>2 DEF SentOut, Waiting, Processed, InStack, Idle
<1>4. SentKept
  BY <1>2, <1>3, SpecialParts DEF SentKept
<1>5. PhaseOK(cur', order') /\ Kept(order, order')
  BY <1>2 DEF Kept, PhaseOK, Idle, NoRow
<1> QED BY <1>1, <1>4, <1>5, SentStays

LEMMA OtcBulkStops == SpecialTypeInv /\ OtcBulkUpdate => SpecialTypeInv'
<1> SUFFICES ASSUME SpecialTypeInv, OtcBulkUpdate PROVE SpecialTypeInv'
  OBVIOUS
<1>1. TypeInv'
  BY OtcBulkTypes DEF SpecialTypeInv
<1>2. PICK p \in OtcPrices :
        /\ cur' = [phase |-> "reprice", obj |-> [NoRow EXCEPT !.price = p], todo |-> External]
        /\ UNCHANGED <<dbVars, unsent, queue, stack, boot, onCancel, onPlace, counts, stopVars>>
  BY DEF OtcBulkUpdate
<1>3. /\ cur'.phase = "reprice" /\ cur'.todo = External
      /\ cur'.obj.price = p /\ cur'.obj.id = 0 /\ ~cur'.obj.market
  BY <1>2 DEF NoRow
<1>4. \A o \in OrderIds : InStack(stack', o) \/ o \in boot' \/ Processed(o)' \/ Waiting("place", o)'
                          => SentOut(o)
  BY <1>2, <1>3 DEF SentOut, Waiting, Processed, OrderIds
<1>5. PhaseOK(cur', order)
  BY <1>3 DEF PhaseOK, External
<1>6. \A i \in 1 .. Len(queue') : queue'[i].type \in {"place", "cancel"}
  BY <1>2, SpecialParts
<1> QED BY <1>1, <1>2, <1>4, <1>5, <1>6, NothingWritten

LEMMA RepriceStops ==
    ASSUME SpecialTypeInv, NEW o, NEW x, NEW y, Reprices(o, x, y)
    PROVE  SpecialTypeInv'
<1>1. TypeInv /\ TypeInv' /\ Kept(order, order')
  BY RepriceTypes DEF SpecialTypeInv
<1>2. /\ o \in OrderIds /\ y.qty = x.qty /\ y.left = x.left /\ y.market = x.market /\ y.state = x.state
      /\ x = order[o]
  BY RepricedRow DEF Reprices
<1>3. order \in [OrderIds -> Row] /\ cur \in Works
  BY <1>1, TypeParts DEF DatabaseOK, BookOK
<1>4. /\ order' \in {order, [order EXCEPT ![o] = y]} /\ boot' \subseteq boot \cup {o}
      /\ UNCHANGED <<unsent, queue, stack, stopVars>> /\ cur' = [cur EXCEPT !.todo = @ \ {o}]
      /\ cur.phase = "reprice" /\ o \in cur.todo
  BY DEF Reprices
<1>5. \A n \in OrderIds : order'[n].left = order[n].left /\ order'[n].qty = order[n].qty
                          /\ order'[n].market = order[n].market /\ order'[n].state = order[n].state
  BY <1>2, <1>3, <1>4
<1>6. ~IsStop(o)
  BY <1>4, SpecialParts DEF PhaseOK
<1>7. cur'.phase = cur.phase /\ cur'.obj = cur.obj /\ cur'.todo \subseteq cur.todo /\ cur.todo \subseteq OrderIds
  BY <1>3, <1>4 DEF Works
<1>8. \A n \in OrderIds : IsStop(n) /\ SentOut(n)' => SentOut(n)
  <2>1. \A n : Processed(n)' = Processed(n) /\ Waiting("place", n)' = Waiting("place", n)
    BY <1>4, <1>7 DEF Processed, Waiting
  <2> QED BY <1>4, <1>5, <1>6, <2>1 DEF SentOut, stopVars
<1>9. SentKept
  BY <1>4, <1>5, <1>8, SpecialParts DEF SentKept, stopVars
<1>10. PhaseOK(cur', order')
  BY <1>5, <1>7, SpecialParts DEF PhaseOK
<1> QED BY <1>1, <1>9, <1>10, SentStays

LEMMA ReloadStops == SpecialTypeInv /\ ReloadRepriced => SpecialTypeInv'
<1> SUFFICES ASSUME SpecialTypeInv, ReloadRepriced PROVE SpecialTypeInv'
  OBVIOUS
<1>1. TypeInv' /\ TypeInv
  BY ReloadTypes DEF SpecialTypeInv
<1>2. /\ stack' = [o \in OrderIds |-> IF o \in boot /\ order[o].user \notin Bots
                                    THEN Removed(stack, o)[o] ELSE stack[o]]
      /\ loaded' = (loaded \ boot) \cup (boot \cap inStack)
      /\ cur' = Idle
      /\ UNCHANGED <<order, unsent, queue, boot, stop, inStack, lastPrice, traded, marking>>
  BY DEF ReloadRepriced, dbVars
<1>3. \A o \in OrderIds : InStack(stack', o) => InStack(stack, o)
  <2>1. stack \in Stacks
    BY <1>1, TypeParts DEF BookOK
  <2> QED BY <1>2, <2>1 DEF InStack, Removed, Stacks
<1>4. \A o \in OrderIds : SentOut(o)' => SentOut(o)
  <2>1. \A o : Waiting("place", o)' = Waiting("place", o) /\ ~Processed(o)'
    BY <1>2 DEF Waiting, Processed, Idle
  <2> QED BY <1>2, <1>3, <2>1 DEF SentOut
<1>5. SentKept
  BY <1>2, <1>4, SpecialParts DEF SentKept
<1>6. PhaseOK(cur', order') /\ Kept(order, order')
  BY <1>2 DEF Kept, PhaseOK, Idle, NoRow
<1> QED BY <1>1, <1>5, <1>6, SentStays
(* The last prices after a step that cancels, or fills at a price traded.  *)
LEMMA LastPricesAreTraded ==
    ASSUME SpecialTypeInv, TypeInv', traded \subseteq traded',
           NEW p \in Nat, lastPrice' = LastPrices(p),
           \A o \in OrderIds : order'[o] = order[o] \/ order'[o].state = "CANCELED" \/ o \in FilledIn,
           FilledIn # {} => p \in traded'
    PROVE  /\ lastPrice' \in [OrderIds -> Nat]
           /\ \A o \in OrderIds : lastPrice'[o] # 0 =>
                 lastPrice'[o] \in traded' \/ order'[o].state = "CANCELED"
<1>1. \A o \in OrderIds : order'[o].price \in Nat
  BY DEF TypeInv, TypeOK, Row
<1>2. \A o \in OrderIds :
         lastPrice'[o] = IF o \in CanceledIn THEN order'[o].price
                         ELSE IF o \in FilledIn THEN p ELSE lastPrice[o]
  BY DEF LastPrices
<1>3. lastPrice' \in [OrderIds -> Nat]
  BY <1>1, SpecialParts DEF LastPrices
<1>4. \A o \in OrderIds : order'[o].state = "CANCELED" \/ o \in FilledIn \/ lastPrice'[o] = lastPrice[o]
                          \/ o \in CanceledIn
  BY <1>2
<1>5. \A o \in CanceledIn : order'[o].state = "CANCELED"
  BY DEF CanceledIn
<1>6. ASSUME NEW o \in OrderIds, lastPrice'[o] # 0
      PROVE  lastPrice'[o] \in traded' \/ order'[o].state = "CANCELED"
  <2>1. CASE o \in CanceledIn
    BY <1>5, <2>1
  <2>2. CASE o \notin CanceledIn /\ o \in FilledIn
    BY <1>2, <2>2
  <2>3. CASE o \notin CanceledIn /\ o \notin FilledIn
    <3>1. lastPrice'[o] = lastPrice[o]
      BY <1>2, <2>3
    <3>2. lastPrice[o] \in traded \/ order[o].state = "CANCELED"
      BY <1>6, <3>1, SpecialParts
    <3> QED BY <2>3, <3>1, <3>2
  <2> QED BY <2>1, <2>2, <2>3
<1> QED BY <1>3, <1>6

(* One order is cancelled, or none. *)
CancelsOne(x) == order' = order \/ order' = [order EXCEPT ![x.id] = [x EXCEPT !.state = "CANCELED"]]

LEMMA CancelTaskStops == SpecialTypeInv /\ CancelTask => SpecialTypeInv'
<1> SUFFICES ASSUME SpecialTypeInv, CancelTask PROVE SpecialTypeInv'
  OBVIOUS
<1>1. TypeInv' /\ TypeInv /\ DatabaseOK /\ OnlyLimits
  BY BaseTypes, TypeParts DEF Next, Worker, CancelTask, SpecialTypeInv
<1>2. PICK x : x = order[Head(queue).row.id]
  OBVIOUS
<1>3. /\ Take("cancel") /\ UNCHANGED <<cur, onPlace>>
      /\ UNCHANGED <<dbVars, stack>>
         \/ (stack' = Removed(stack, x.id) /\ (UNCHANGED dbVars \/ (x.state = "OPENED" /\ CancelRow(x))))
      /\ lastPrice' = LastPrices(0)
      /\ UNCHANGED <<stop, inStack, loaded, traded, marking>>
  BY <1>2 DEF CancelTask, CancelOrderTask
<1>4. /\ queue # <<>> /\ queue' = Tail(queue) /\ unsent' = unsent /\ boot' = boot /\ cur = Idle
  BY <1>3 DEF Take
<1>5. /\ \A t, o : Waiting(t, o)' => Waiting(t, o)
      /\ \A i \in 1 .. Len(queue') : queue'[i].type \in {"place", "cancel"}
  BY <1>1, <1>4, TailWaits
<1>6. /\ x \in Row /\ Stored(order, x) /\ Created(x) /\ ~x.market
      /\ x.id \in OrderIds /\ order[x.id] = x
  <2>1. Exists(order, Head(queue).row.id)
    BY <1>1, <1>3, TakeKeepsProcesses DEF MessageOK
  <2> QED BY <1>1, <1>2, <2>1, SpecialParts DEF Exists, Stored, DatabaseOK, RowsOK, NoRow, OrderIds
<1>7. order \in [OrderIds -> Row]
  BY <1>1 DEF DatabaseOK
<1>8. Kept(order, order')
  BY <1>1, <1>3, <1>6, DatabaseKept, CancelKeepsDatabase
<1>9. order' = order \/ order' = [order EXCEPT ![x.id] = [x EXCEPT !.state = "CANCELED"]]
  BY <1>3 DEF CancelRow, dbVars
<1>10. \A o \in OrderIds : /\ order'[o] = order[o] \/ order'[o].state = "CANCELED"
                           /\ order'[o].market = order[o].market /\ order'[o].left = order[o].left
                           /\ order'[o].qty = order[o].qty
  BY <1>6, <1>7, <1>9 DEF Row
<1>11. FilledIn = {}
  BY <1>3 DEF FilledIn, CancelRow, dbVars
<1>12. /\ lastPrice' \in [OrderIds -> Nat]
       /\ \A o \in OrderIds : lastPrice'[o] # 0 =>
                 lastPrice'[o] \in traded' \/ order'[o].state = "CANCELED"
  BY <1>1, <1>3, <1>10, <1>11, LastPricesAreTraded
<1>13. \A o \in OrderIds : InStack(stack', o) => InStack(stack, o)
  <2>1. stack \in Stacks
    BY <1>1, TypeParts DEF BookOK
  <2> QED BY <1>3, <2>1 DEF InStack, Removed, Stacks
<1>14. \A o \in OrderIds : SentOut(o)' => SentOut(o)
  <2>1. \A o : Processed(o)' = Processed(o)
    BY <1>3 DEF Processed
  <2> QED BY <1>3, <1>4, <1>5, <1>10, <1>13, <2>1 DEF SentOut
<1>15. SentKept
  BY <1>3, <1>4, <1>5, <1>10, <1>12, <1>14, SpecialParts DEF SentKept
<1>16. PhaseOK(cur', order')
  BY <1>3, <1>4 DEF PhaseOK, Idle, NoRow
<1> QED BY <1>1, <1>8, <1>15, <1>16, SentStays

LEMMA FinishStops == SpecialTypeInv /\ FinishMatch => SpecialTypeInv'
<1> SUFFICES ASSUME SpecialTypeInv, FinishMatch PROVE SpecialTypeInv'
  OBVIOUS
<1>1. TypeInv' /\ TypeInv /\ DatabaseOK
  BY BaseTypes, TypeParts DEF Next, Worker, FinishMatch, SpecialTypeInv
<1>2. PICK x : x = cur.obj
  OBVIOUS
<1>3. Finish /\ ~x.market
  BY <1>2, SpecialParts DEF FinishMatch, PhaseOK
<1>4. /\ cur.phase = "match"
      /\ stack' \in {stack, Removed(stack, x.id), Added(stack, x)}
      /\ UNCHANGED dbVars \/ CancelRow(x)
      /\ cur' = Idle /\ UNCHANGED <<unsent, queue, boot>>
  BY <1>2, <1>3 DEF Finish
<1>5. /\ lastPrice' = LastPrices(0)
      /\ inStack' \subseteq inStack \cup loaded
      /\ UNCHANGED <<stop, loaded, traded, marking>>
  BY DEF FinishMatch, SavedInStack
<1>6. x \in Row /\ Stored(order, x) /\ Created(x)
  BY <1>1, <1>2, <1>4 DEF TypeInv, TypeOK, CurOK
<1>7. order \in [OrderIds -> Row] /\ x.id \in OrderIds
  BY <1>1, <1>6 DEF Stored, Exists, DatabaseOK
<1>8. Kept(order, order')
  BY <1>1, <1>4, <1>6, DatabaseKept, CancelKeepsDatabase
<1>9. order' = order \/ order' = [order EXCEPT ![x.id] = [x EXCEPT !.state = "CANCELED"]]
  BY <1>4 DEF CancelRow, dbVars
<1>10. \A o \in OrderIds : /\ order'[o] = order[o] \/ order'[o].state = "CANCELED"
                           /\ ~order'[o].market
                           /\ o # x.id => order'[o] = order[o]
  <2>1. PICK z : z = [x EXCEPT !.state = "CANCELED"]
    OBVIOUS
  <2>2. z.state = "CANCELED" /\ z.market = x.market
    BY <1>6, <2>1 DEF Row
  <2>3. order' = order \/ order' = [order EXCEPT ![x.id] = z]
    BY <1>9, <2>1
  <2> QED BY <1>3, <1>7, <2>2, <2>3, SpecialParts
<1>11. FilledIn = {}
  BY <1>4 DEF FilledIn, CancelRow, dbVars
<1>12. /\ lastPrice' \in [OrderIds -> Nat]
       /\ \A o \in OrderIds : lastPrice'[o] # 0 =>
                 lastPrice'[o] \in traded' \/ order'[o].state = "CANCELED"
  BY <1>1, <1>5, <1>10, <1>11, LastPricesAreTraded
<1>13. \A o \in OrderIds : InStack(stack', o) => InStack(stack, o) \/ o = x.id
  <2>1. stack \in Stacks
    BY <1>1, TypeParts DEF BookOK
  <2> QED BY <1>4, <1>7, <2>1 DEF InStack, Removed, Added, Stacks
<1>14. Processed(x.id)
  BY <1>2, <1>4 DEF Processed
<1>15. \A o \in OrderIds : SentOut(o)' => SentOut(o)
  <2>1. \A o : Waiting("place", o)' = Waiting("place", o) /\ ~Processed(o)'
    BY <1>4 DEF Waiting, Processed, Idle
  <2> QED BY <1>4, <1>5, <1>10, <1>13, <1>14, <2>1 DEF SentOut
<1>16. SentKept
  BY <1>4, <1>5, <1>10, <1>12, <1>15, SpecialParts DEF SentKept
<1>17. PhaseOK(cur', order')
  BY <1>4 DEF PhaseOK, Idle, NoRow
<1> QED BY <1>1, <1>8, <1>16, <1>17, SentStays

(* What a match does to the orders, the stack and the phase. *)
LEMMA MatchTouchesTwo ==
    ASSUME TypeInv, Match
    PROVE  \E r \in OrderIds : \E x, y, q, p :
              /\ Best(r) /\ cur.phase = "match" /\ x = cur.obj /\ y = stack[r].row
              /\ p = y.price /\ q = FillQuantity(x, y) /\ ~ExecuteFails(x, y, q)
              /\ order' = [order EXCEPT
                    ![x.id] = Saved(x, q, p),
                    ![r] = IF DustCancels(Filled(y, q, p)) THEN [Filled(y, q, p) EXCEPT !.state = "CANCELED"]
                           ELSE Saved(y, q, p)]
              /\ ~Void(x, q, p) => <<x.id, r>> \in matches'
              /\ ~Void(y, q, p) => <<y.id, x.id>> \in matches'
              /\ LET st == IF VoidCancels(x, q, p) THEN Removed(stack, x.id) ELSE stack
                     st1 == [st EXCEPT ![r].row = Filled(y, q, p)]
                 IN  stack' \in {st1, Removed(st1, r)}
              /\ cur' = [cur EXCEPT !.obj = Filled(x, q, p), !.todo = @ \ {r}]
              /\ UNCHANGED <<unsent, queue, boot>>
<1>1. PICK r \in OrderIds : Best(r) /\ Execute(r)
  BY DEF Match
<1>2. cur.phase = "match" /\ UNCHANGED <<unsent, queue, boot>>
  BY DEF Match
<1>3. PICK x, y : x = cur.obj /\ y = stack[r].row
  OBVIOUS
<1>4. PICK q, p : q = FillQuantity(x, y) /\ p = y.price
  OBVIOUS
<1>5. /\ ~ExecuteFails(x, y, q)
      /\ order' = [order EXCEPT
            ![x.id] = Saved(x, q, p),
            ![r] = IF DustCancels(Filled(y, q, p)) THEN [Filled(y, q, p) EXCEPT !.state = "CANCELED"]
                   ELSE Saved(y, q, p)]
      /\ cur' = [cur EXCEPT !.obj = Filled(x, q, p), !.todo = @ \ {r}]
  BY <1>1, <1>3, <1>4 DEF Execute
<1>6. LET st == IF VoidCancels(x, q, p) THEN Removed(stack, x.id) ELSE stack
          st1 == [st EXCEPT ![r].row = Filled(y, q, p)]
      IN  stack' \in {st1, Removed(st1, r)}
  BY <1>1, <1>3, <1>4 DEF Execute
<1>7. /\ ~Void(x, q, p) => <<x.id, r>> \in matches'
      /\ ~Void(y, q, p) => <<y.id, x.id>> \in matches'
  BY <1>1, <1>3, <1>4 DEF Execute
<1> QED BY <1>1, <1>2, <1>3, <1>4, <1>5, <1>6, <1>7
(* What is saved after a fill differs from the row only if something was   *)
(* filled, or if it was cancelled.                                         *)
LEMMA SavedIsFilled ==
    ASSUME DatabaseOK, NEW x \in Row, Stored(order, x), Created(x), ~x.market, ~order[x.id].market,
           NEW q \in Nat, NEW p \in Nat, Filled(x, q, p) \in Row
    PROVE  /\ Void(x, q, p) => Saved(x, q, p) = order[x.id] \/ Saved(x, q, p).state = "CANCELED"
           /\ ~Saved(x, q, p).market /\ Saved(x, q, p).id = x.id /\ Saved(x, q, p).op = x.op
<1>1. /\ Filled(x, q, p).market = x.market
      /\ Saved(x, q, p).id = x.id /\ Saved(x, q, p).op = x.op
  BY SavedIsRow
<1>2. PICK z : z = [order[x.id] EXCEPT !.state = "CANCELED"]
  OBVIOUS
<1>3. order[x.id] \in Row
  BY DEF Stored, Exists, DatabaseOK
<1>4. z.state = "CANCELED" /\ z.market = order[x.id].market
  BY <1>2, <1>3 DEF Row
<1>5. Saved(x, q, p) = IF ~Void(x, q, p) THEN Filled(x, q, p)
                       ELSE IF VoidCancels(x, q, p) THEN z ELSE order[x.id]
  BY <1>2 DEF Saved
<1> QED BY <1>1, <1>4, <1>5

LEMMA MatchStops == SpecialTypeInv /\ MatchNext => SpecialTypeInv'
<1> SUFFICES ASSUME SpecialTypeInv, MatchNext PROVE SpecialTypeInv'
  OBVIOUS
<1>1. TypeInv' /\ TypeInv /\ DatabaseOK /\ Match
  BY BaseTypes, TypeParts DEF Next, Worker, MatchNext, SpecialTypeInv
<1>2. PICK r \in OrderIds : \E x, y, q, p :
              /\ Best(r) /\ cur.phase = "match" /\ x = cur.obj /\ y = stack[r].row
              /\ p = y.price /\ q = FillQuantity(x, y) /\ ~ExecuteFails(x, y, q)
              /\ order' = [order EXCEPT
                    ![x.id] = Saved(x, q, p),
                    ![r] = IF DustCancels(Filled(y, q, p)) THEN [Filled(y, q, p) EXCEPT !.state = "CANCELED"]
                           ELSE Saved(y, q, p)]
              /\ ~Void(x, q, p) => <<x.id, r>> \in matches'
              /\ ~Void(y, q, p) => <<y.id, x.id>> \in matches'
              /\ LET st == IF VoidCancels(x, q, p) THEN Removed(stack, x.id) ELSE stack
                     st1 == [st EXCEPT ![r].row = Filled(y, q, p)]
                 IN  stack' \in {st1, Removed(st1, r)}
              /\ cur' = [cur EXCEPT !.obj = Filled(x, q, p), !.todo = @ \ {r}]
              /\ UNCHANGED <<unsent, queue, boot>>
  BY <1>1, MatchTouchesTwo
<1>3. PICK x, y, q, p :
              /\ Best(r) /\ cur.phase = "match" /\ x = cur.obj /\ y = stack[r].row
              /\ p = y.price /\ q = FillQuantity(x, y) /\ ~ExecuteFails(x, y, q)
              /\ order' = [order EXCEPT
                    ![x.id] = Saved(x, q, p),
                    ![r] = IF DustCancels(Filled(y, q, p)) THEN [Filled(y, q, p) EXCEPT !.state = "CANCELED"]
                           ELSE Saved(y, q, p)]
              /\ ~Void(x, q, p) => <<x.id, r>> \in matches'
              /\ ~Void(y, q, p) => <<y.id, x.id>> \in matches'
              /\ LET st == IF VoidCancels(x, q, p) THEN Removed(stack, x.id) ELSE stack
                     st1 == [st EXCEPT ![r].row = Filled(y, q, p)]
                 IN  stack' \in {st1, Removed(st1, r)}
              /\ cur' = [cur EXCEPT !.obj = Filled(x, q, p), !.todo = @ \ {r}]
              /\ UNCHANGED <<unsent, queue, boot>>
  BY <1>2
<1>4. /\ x \in Row /\ Stored(order, x) /\ Created(x) /\ x.id # r
      /\ y \in Row /\ Stored(order, y) /\ Limit(y) /\ y.id = r
      /\ q \in Nat /\ p \in Nat
      /\ Filled(x, q, p) \in Row /\ Filled(y, q, p) \in Row
  BY <1>1, <1>3, FillIsSound
<1>5. /\ order \in [OrderIds -> Row] /\ cur \in Works /\ stack \in Stacks /\ x.id \in OrderIds
      /\ RowsOK(order)
  BY <1>1, <1>4, TypeParts DEF BookOK, DatabaseOK, Stored, Exists
<1>6. ~x.market /\ ~y.market /\ Created(y) /\ \A o \in OrderIds : ~order[o].market
  BY <1>3, <1>4, SpecialParts DEF PhaseOK, Limit
<1>7. /\ Void(x, q, p) => Saved(x, q, p) = order[x.id] \/ Saved(x, q, p).state = "CANCELED"
      /\ ~Saved(x, q, p).market /\ Saved(x, q, p).id = x.id /\ Saved(x, q, p).op = x.op
  BY <1>1, <1>4, <1>5, <1>6, SavedIsFilled
<1>8. /\ Void(y, q, p) => Saved(y, q, p) = order[r] \/ Saved(y, q, p).state = "CANCELED"
      /\ ~Saved(y, q, p).market /\ Saved(y, q, p).id = r /\ Saved(y, q, p).op = y.op
  BY <1>1, <1>4, <1>6, SavedIsFilled
<1>9. PICK z : z = [Filled(y, q, p) EXCEPT !.state = "CANCELED"]
  OBVIOUS
<1>10. z.state = "CANCELED" /\ ~z.market /\ z.id = r /\ z.op = y.op
  <2>1. Filled(y, q, p).id = r /\ Filled(y, q, p).op = y.op /\ ~Filled(y, q, p).market
    BY <1>1, <1>4, <1>6, SavedIsRow
  <2> QED BY <1>4, <1>9, <2>1 DEF Row
<1>11. PICK w : w = IF DustCancels(Filled(y, q, p)) THEN z ELSE Saved(y, q, p)
  OBVIOUS
<1>12. /\ Void(y, q, p) => w = order[r] \/ w.state = "CANCELED"
       /\ w.state = "CANCELED" \/ w = Saved(y, q, p)
       /\ ~w.market /\ w.id = r /\ w.op = y.op
  BY <1>8, <1>10, <1>11
<1>13. PICK v : v = Saved(x, q, p)
  OBVIOUS
<1>14. order' = [order EXCEPT ![x.id] = v, ![r] = w]
  BY <1>3, <1>9, <1>11, <1>13
<1>15. order'[x.id] = v /\ order'[r] = w /\ \A o \in OrderIds \ {x.id, r} : order'[o] = order[o]
  BY <1>4, <1>5, <1>14
<1>16. Kept(order, order')
  <2>1. order[x.id].id = x.id /\ order[x.id].op = x.op /\ order[r].op = y.op
    BY <1>4 DEF Stored, Exists
  <2> QED BY <1>7, <1>12, <1>13, <1>15, <2>1 DEF Kept
<1>17. \A o \in OrderIds : order'[o] = order[o] \/ order'[o].state = "CANCELED" \/ o \in FilledIn
  <2>1. ~Void(x, q, p) => x.id \in FilledIn
    <3>1. SUFFICES ASSUME ~Void(x, q, p) PROVE x.id \in FilledIn
      OBVIOUS
    <3>2. <<x.id, r>> \in matches' \ matches
      BY <1>3, <1>4, <3>1 DEF ExecuteFails
    <3> QED BY <3>2 DEF FilledIn
  <2>2. ~Void(y, q, p) => r \in FilledIn
    <3>1. SUFFICES ASSUME ~Void(y, q, p) PROVE r \in FilledIn
      OBVIOUS
    <3>2. <<r, x.id>> \in matches' \ matches
      BY <1>3, <1>4, <3>1 DEF ExecuteFails
    <3> QED BY <3>2 DEF FilledIn
  <2> QED BY <1>7, <1>12, <1>13, <1>15, <2>1, <2>2
<1>18. MatchPrice \in Nat
  <2>1. (CHOOSE n \in cur.todo : Best(n)) \in cur.todo
    BY <1>3 DEF Best
  <2> QED BY <1>5, <2>1 DEF MatchPrice, Works, Stacks, Row
<1>19. /\ lastPrice' = LastPrices(MatchPrice) /\ traded' = traded \cup {MatchPrice}
       /\ inStack' \subseteq inStack \cup loaded
       /\ UNCHANGED <<stop, loaded, marking>>
  BY DEF MatchNext, SavedInStack
<1>20. /\ lastPrice' \in [OrderIds -> Nat]
       /\ \A o \in OrderIds : lastPrice'[o] # 0 =>
                 lastPrice'[o] \in traded' \/ order'[o].state = "CANCELED"
  BY <1>1, <1>17, <1>18, <1>19, LastPricesAreTraded
<1>21. InStack(stack, r) /\ Processed(x.id)
  BY <1>1, <1>3 DEF Best, TypeInv, CurOK, TodoOK, Processed
<1>22. \A o \in OrderIds : InStack(stack', o) => InStack(stack, o)
  <2>1. PICK st : st = IF VoidCancels(x, q, p) THEN Removed(stack, x.id) ELSE stack
    OBVIOUS
  <2>2. PICK st1 : st1 = [st EXCEPT ![r].row = Filled(y, q, p)]
    OBVIOUS
  <2>3. stack' \in {st1, Removed(st1, r)}
    BY <1>3, <2>1, <2>2
  <2>4. DOMAIN st = OrderIds /\ \A o \in OrderIds : st[o] = stack[o] \/ st[o] = NoEntry
    BY <1>5, <2>1 DEF Removed, Stacks
  <2>5. \A o \in OrderIds \ {r} : st1[o] = st[o]
    BY <2>2, <2>4
  <2>6. \A o \in OrderIds \ {r} : Removed(st1, r)[o] = st1[o]
    BY <2>2, <2>4 DEF Removed
  <2> QED BY <1>21, <2>3, <2>4, <2>5, <2>6 DEF InStack
<1>23. /\ cur'.phase = "match" /\ cur'.obj = Filled(x, q, p)
  BY <1>3, <1>5 DEF Works
<1>24. cur'.obj.id = x.id /\ ~cur'.obj.market
  BY <1>1, <1>4, <1>6, <1>23, SavedIsRow
<1>25. \A o \in OrderIds : SentOut(o)' => SentOut(o)
  <2>1. \A o : Waiting("place", o)' = Waiting("place", o)
    BY <1>3 DEF Waiting
  <2>2. \A o : Processed(o)' => o = x.id
    BY <1>24 DEF Processed
  <2>3. \A o \in OrderIds : o = x.id \/ o = r => SentOut(o)
    BY <1>21 DEF SentOut
  <2> QED BY <1>3, <1>15, <1>19, <1>22, <2>1, <2>2, <2>3 DEF SentOut
<1>26. \A o \in OrderIds : ~order'[o].market
  BY <1>6, <1>7, <1>12, <1>13, <1>15
<1>27. SentKept
  BY <1>3, <1>18, <1>19, <1>20, <1>25, <1>26, SpecialParts DEF SentKept
<1>28. PhaseOK(cur', order')
  BY <1>23, <1>24 DEF PhaseOK
<1> QED BY <1>1, <1>16, <1>27, <1>28, SentStays

LEMMA SpecialInit0 == SpecialInit => SpecialTypeInv
<1> SUFFICES ASSUME SpecialInit PROVE SpecialTypeInv
  OBVIOUS
<1>1. TypeInv
  BY TypeInit DEF SpecialInit
<1>2. /\ order = [o \in OrderIds |-> NoRow] /\ unsent = {} /\ queue = <<>> /\ cur = Idle
  BY DEF SpecialInit, Init
<1>3. SpecialTypeOK
  BY <1>2 DEF SpecialInit, SpecialTypeOK, Idle
<1>4. OnlyLimits
  BY <1>2 DEF OnlyLimits, NoRow, Idle
<1>5. StopsInv
  BY <1>2 DEF SpecialInit, StopsInv, IsStop, Idle
<1> QED BY <1>1, <1>3, <1>4, <1>5 DEF SpecialTypeInv

LEMMA SpecialTypeStep ==
    "late" \notin SpecialRaces /\ SpecialTypeInv /\ [SpecialNext]_specialVars => SpecialTypeInv'
<1> SUFFICES ASSUME "late" \notin SpecialRaces, SpecialTypeInv, [SpecialNext]_specialVars PROVE SpecialTypeInv'
  OBVIOUS
<1>1. CASE UNCHANGED specialVars
  BY <1>1, QuietStops DEF specialVars
<1>2. CASE CreateLimitOrder
  BY <1>2, CreateLimitStops
<1>3. CASE CreateStopOrder
  BY <1>3, StopIsCreated, CreateStopStops
<1>4. CASE (RequestCancel \/ SendPlaceOrder \/ CancelKeyExpires) /\ UNCHANGED <<stopVars, repricings>>
  BY <1>4, RequestCancelStops, SendPlaceOrderStops, CancelKeyStops
<1>5. CASE (PlaceOrderTask \/ LoadOpenedOrder \/ MatchFails) /\ UNCHANGED <<stopVars, repricings>>
  BY <1>5, PlaceOrderStops, LoadOpenedOrderStops, MatchFailsStops
<1>6. CASE CancelTask \/ MatchNext \/ FinishMatch \/ RestartInStack
  BY <1>6, CancelTaskStops, MatchStops, FinishStops, RestartInStackStops
<1>7. CASE \E n \in OrderIds : TriggerStops(n)
  BY <1>7, StopsAreSent, TriggerStopsStops DEF SpecialTypeInv
<1>8. CASE MarkStops \/ PlaceKeyExpires
  BY <1>8, MarkStopsStops, PlaceKeyStops
<1>9. CASE OtcBulkUpdate \/ RepriceOrder \/ ReloadRepriced
  BY <1>9, OtcBulkStops, OrderIsRepriced, RepriceStops, ReloadStops
<1>10. CASE Quiescent /\ UNCHANGED <<stopVars, repricings>>
  BY <1>10, QuietStops DEF Quiescent
<1> QED BY <1>1, <1>2, <1>3, <1>4, <1>5, <1>6, <1>7, <1>8, <1>9, <1>10 DEF SpecialNext

(* Every object and row stems from an existing row, and a stop-limit order *)
(* that was sent has a price traded that reached its stop.                 *)
THEOREM SpecialTypesKept == ASSUME "late" \notin SpecialRaces PROVE SpecialSpec => []SpecialTypeInv
<1>1. SpecialInit => SpecialTypeInv
  BY SpecialInit0
<1>2. SpecialTypeInv /\ [SpecialNext]_specialVars => SpecialTypeInv'
  BY SpecialTypeStep
<1> QED BY <1>1, <1>2, PTL DEF SpecialSpec

(* A stop-limit order does not reach the book, and nothing of it is filled, *)
(* before the market traded at its stop or beyond: neither by a restart nor *)
(* by a look at an older order.                                             *)
THEOREM StopsWait == ASSUME "late" \notin SpecialRaces PROVE SpecialSpec => []StopsWaitForTheirPrice
<1>1. SpecialTypeInv => StopsWaitForTheirPrice
  BY DEF SpecialTypeInv, StopsInv, StopsWaitForTheirPrice, SentOut, Reached
<1> QED BY <1>1, SpecialTypesKept, PTL

-----------------------------------------------------------------------------
(***************************************************************************)
(* Theorems of SpecialOrders, continued: the orders the book should hold   *)
(* are tracked, and the book is the database's.  They hold while no fill   *)
(* nets to nothing, and leave aside what the code leaves to timing         *)
(* (SpecialRaces), requests that overtake the order's own place_order,     *)
(* restarts while place_order messages wait, and bots with EXTERNAL orders *)
(* (Calm).                                                                 *)
(***************************************************************************)

-----------------------------------------------------------------------------
(* While no fill nets to nothing.                                          *)

(* What the code leaves to timing is left aside, and no bot's orders follow *)
(* the external price.                                                     *)
Calm == Orderly /\ SpecialRaces = {} /\ Otc \cap Bots = {}

(* What a step keeps of the orders given and tracked. *)
LEMMA FollowKept ==
    ASSUME GivenInv, TrackedInv, stop' = stop, onPlace \subseteq onPlace',
           onPlace' \subseteq OrderIds, inStack' \cup marking' \subseteq OrderIds,
           \A o \in OrderIds :
              /\ Open(o)' => Open(o) \/ o \notin onPlace'
              /\ Open(o)' /\ WorkerHas(o) => WorkerHas(o)'
              /\ WorkerHas(o)' => WorkerHas(o) \/ o \in onPlace'
              /\ o \in onPlace' /\ Open(o)' /\ Waiting("place", o)' =>
                    (o \in onPlace /\ Waiting("place", o)) \/ WorkerHas(o)'
              /\ Open(o)' /\ Waiting("place", o) => Waiting("place", o)' \/ WorkerHas(o)'
              /\ Open(o)' /\ o \in Unsent => Tracked(o)'
              /\ o \in inStack' \cup marking' /\ Open(o)' =>
                    (o \in inStack \cup marking /\ Open(o)) \/ Tracked(o)'
    PROVE  GivenInv' /\ TrackedInv'
<1>1. \A o : Tracked(o) <=> WorkerHas(o) \/ Waiting("place", o) \/ o \in Unsent
  BY DEF Tracked, WorkerHas, Unsent
<1>2. \A o : WorkerHas(o)' \/ Waiting("place", o)' => Tracked(o)'
  BY DEF Tracked, WorkerHas
<1>3. \A o \in onPlace' : Waiting("place", o)' /\ Open(o)' => WorkerHas(o)'
  BY DEF GivenInv
<1>4. \A o \in OrderIds : IsStop(o)' /\ WorkerHas(o)' => o \in onPlace'
  BY DEF GivenInv, IsStop
<1>5. \A o \in inStack' \cup marking' : Open(o)' => Tracked(o)'
  <2>1. SUFFICES ASSUME NEW o \in inStack' \cup marking', Open(o)', ~Tracked(o)' PROVE FALSE
    OBVIOUS
  <2>2. o \in OrderIds /\ Tracked(o)
    BY <2>1 DEF TrackedInv
  <2> QED BY <1>1, <1>2, <2>1, <2>2
<1> QED BY <1>3, <1>4, <1>5 DEF GivenInv, TrackedInv

LEMMA RepriceKept ==
    ASSUME TypeInv, RepriceInv,
           cur'.phase # "reprice" \/
              (UNCHANGED <<stack, cur, boot>>
               /\ \A o \in OrderIds : InStack(stack, o) => order'[o].user = order[o].user)
    PROVE  RepriceInv'
<1>1. cur.todo \subseteq OrderIds /\ boot \subseteq OrderIds
  BY DEF TypeInv, TypeOK
<1> QED BY <1>1 DEF RepriceInv, InStack

(* The steps of OrderBook. *)
LEMMA BaseSound ==
    ASSUME Orderly, SoundInv, [Next]_vars
    PROVE  MirrorInv' /\ MatchingInv' /\ FinalKept
  BY MirrorStep, MatchingStep DEF SoundInv

(* A step that leaves rows and worker alone. *)
LEMMA WorkerUntouched ==
    ASSUME UNCHANGED <<order, stack, cur, boot>>
    PROVE  \A o : WorkerHas(o)' = WorkerHas(o) /\ Open(o)' = Open(o)
  BY DEF WorkerHas, Processed, Open, InStack

LEMMA QuietSound ==
    Calm /\ SoundInv /\ UNCHANGED <<vars, stopVars>> => SoundInv' /\ FinalKept
<1> SUFFICES ASSUME Calm, SoundInv, UNCHANGED <<vars, stopVars>> PROVE SoundInv' /\ FinalKept
  OBVIOUS
<1>1. MirrorInv' /\ MatchingInv' /\ FinalKept
  BY BaseSound DEF Calm
<1>2. /\ UNCHANGED <<order, stack, cur, boot, unsent, queue, onPlace, stop, inStack, marking>>
  BY DEF vars, dbVars, stopVars
<1>3. \A o : WorkerHas(o)' = WorkerHas(o) /\ Open(o)' = Open(o)
  BY <1>2, WorkerUntouched
<1>4. \A o : Tracked(o)' = Tracked(o) /\ Waiting("place", o)' = Waiting("place", o)
  BY <1>2 DEF Tracked, Waiting, Processed
<1>5. GivenInv' /\ TrackedInv'
  BY <1>2, <1>3, <1>4 DEF GivenInv, TrackedInv, SoundInv, IsStop
<1>6. RepriceInv'
  BY <1>2, RepriceKept DEF SoundInv, MirrorInv
<1> QED BY <1>1, <1>5, <1>6 DEF SoundInv

LEMMA RequestCancelSound ==
    Calm /\ SpecialTypeInv /\ SoundInv /\ RequestCancel /\ UNCHANGED stopVars => SoundInv' /\ FinalKept
<1> SUFFICES ASSUME Calm, SpecialTypeInv, SoundInv, RequestCancel, UNCHANGED stopVars
             PROVE  SoundInv' /\ FinalKept
  OBVIOUS
<1>1. MirrorInv' /\ MatchingInv' /\ FinalKept
  BY BaseSound DEF Calm, Next, Web
<1>2. PICK x : /\ Enqueued("cancel", x)
               /\ UNCHANGED <<dbVars, unsent, stack, cur, boot, onCancel, onPlace, counts>>
  BY DEF RequestCancel
<1>3. UNCHANGED <<order, stack, cur, boot, unsent, onPlace, stop, inStack, marking>>
  BY <1>2 DEF dbVars, stopVars
<1>4. \A o : WorkerHas(o)' = WorkerHas(o) /\ Open(o)' = Open(o)
  BY <1>3, WorkerUntouched
<1>5. \A o : Waiting("place", o)' = Waiting("place", o)
  <2>1. queue \in Seq(Message) /\ queue' = Append(queue, [type |-> "cancel", row |-> x])
    BY <1>2 DEF SpecialTypeInv, TypeInv, TypeOK, Enqueued
  <2>2. PICK m : m = [type |-> "cancel", row |-> x]
    OBVIOUS
  <2>3. m.type # "place"
    BY <2>2
  <2>4. /\ Len(queue) \in Nat /\ Len(queue') = Len(queue) + 1
        /\ \A i \in 1 .. Len(queue') : i \in 1 .. Len(queue) \/ i = Len(queue) + 1
        /\ \A i \in 1 .. Len(queue) : queue'[i] = queue[i]
        /\ queue'[Len(queue) + 1] = m
    BY <2>1, <2>2, QueueLonger
  <2>5. \A i \in 1 .. Len(queue) : i \in 1 .. Len(queue')
    BY <2>4
  <2> QED BY <2>3, <2>4, <2>5 DEF Waiting
<1>6. \A o : Tracked(o)' = Tracked(o)
  BY <1>3, <1>5 DEF Tracked, Processed
<1>7. GivenInv' /\ TrackedInv'
  BY <1>3, <1>4, <1>5, <1>6 DEF GivenInv, TrackedInv, SoundInv, IsStop
<1>8. RepriceInv'
  BY <1>3, RepriceKept DEF SoundInv, MirrorInv
<1> QED BY <1>1, <1>7, <1>8 DEF SoundInv
LEMMA CancelKeySound ==
    Calm /\ SoundInv /\ CancelKeyExpires /\ UNCHANGED stopVars => SoundInv' /\ FinalKept
<1> SUFFICES ASSUME Calm, SoundInv, CancelKeyExpires, UNCHANGED stopVars PROVE SoundInv' /\ FinalKept
  OBVIOUS
<1>1. MirrorInv' /\ MatchingInv' /\ FinalKept
  BY BaseSound DEF Calm, Next
<1>2. UNCHANGED <<order, stack, cur, boot, unsent, queue, onPlace, stop, inStack, marking>>
  BY DEF CancelKeyExpires, dbVars, stopVars
<1>3. \A o : WorkerHas(o)' = WorkerHas(o) /\ Open(o)' = Open(o)
  BY <1>2, WorkerUntouched
<1>4. \A o : Tracked(o)' = Tracked(o) /\ Waiting("place", o)' = Waiting("place", o)
  BY <1>2 DEF Tracked, Waiting, Processed
<1>5. GivenInv' /\ TrackedInv'
  BY <1>2, <1>3, <1>4 DEF GivenInv, TrackedInv, SoundInv, IsStop
<1>6. RepriceInv'
  BY <1>2, RepriceKept DEF SoundInv, MirrorInv
<1> QED BY <1>1, <1>5, <1>6 DEF SoundInv

(* The variables that the bounds of FollowKept are about. *)
LEMMA FollowTypes ==
    ASSUME SpecialTypeInv
    PROVE  /\ onPlace \subseteq OrderIds /\ inStack \cup marking \subseteq OrderIds
           /\ boot \subseteq OrderIds /\ cur \in Works /\ stack \in Stacks /\ order \in [OrderIds -> Row]
           /\ queue \in Seq(Message)
  BY SpecialParts DEF TypeInv, TypeOK, Works, Stacks

LEMMA FollowTypesNext ==
    ASSUME TypeInv'
    PROVE  onPlace' \subseteq OrderIds
  BY DEF TypeInv, TypeOK

(* What was sent goes from the web process to the queue. *)
LEMMA SendPlaceOrderSound ==
    Calm /\ SpecialTypeInv /\ SoundInv /\ SendPlaceOrder /\ UNCHANGED stopVars => SoundInv' /\ FinalKept
<1> SUFFICES ASSUME Calm, SpecialTypeInv, SoundInv, SendPlaceOrder, UNCHANGED stopVars
             PROVE  SoundInv' /\ FinalKept
  OBVIOUS
<1>1. MirrorInv' /\ MatchingInv' /\ FinalKept
  BY BaseSound DEF Calm, Next
<1>2. PICK x \in unsent :
               /\ Enqueued("place", x) /\ unsent' = unsent \ {x}
               /\ UNCHANGED <<dbVars, stack, cur, boot, onCancel, onPlace, counts>>
  BY DEF SendPlaceOrder
<1>3. UNCHANGED <<order, stack, cur, boot, onPlace, stop, inStack, marking>>
  BY <1>2 DEF dbVars, stopVars
<1>4. \A o : WorkerHas(o)' = WorkerHas(o) /\ Open(o)' = Open(o)
  BY <1>3, WorkerUntouched
<1>5. \A o : Waiting("place", o)' <=> Waiting("place", o) \/ o = x.id
  <2>1. queue \in Seq(Message) /\ queue' = Append(queue, [type |-> "place", row |-> x])
    BY <1>2, FollowTypes DEF Enqueued
  <2>2. PICK m : m = [type |-> "place", row |-> x]
    OBVIOUS
  <2>3. m.type = "place" /\ m.row.id = x.id
    BY <2>2
  <2>4. /\ Len(queue) \in Nat /\ Len(queue') = Len(queue) + 1
        /\ \A i \in 1 .. Len(queue') : i \in 1 .. Len(queue) \/ i = Len(queue) + 1
        /\ \A i \in 1 .. Len(queue) : queue'[i] = queue[i]
        /\ queue'[Len(queue) + 1] = m
    BY <2>1, <2>2, QueueLonger
  <2>5. \A i \in 1 .. Len(queue) : i \in 1 .. Len(queue')
    BY <2>4
  <2>6. Len(queue) + 1 \in 1 .. Len(queue')
    BY <2>4
  <2> QED BY <2>3, <2>4, <2>5, <2>6 DEF Waiting
<1>6. x.id \notin onPlace
  BY DEF SoundInv, MirrorInv, SnapshotsInv
<1>7. \A o \in Unsent : o = x.id \/ \E z \in unsent' : z.id = o
  BY <1>2 DEF Unsent
<1>8. \A o \in OrderIds : o \in Unsent => Tracked(o)'
  BY <1>5, <1>7 DEF Tracked
<1>9. GivenInv' /\ TrackedInv'
  BY <1>3, <1>4, <1>5, <1>6, <1>8, FollowTypes, FollowKept DEF SoundInv
<1>10. RepriceInv'
  BY <1>3, RepriceKept DEF SoundInv, MirrorInv
<1> QED BY <1>1, <1>9, <1>10 DEF SoundInv

LEMMA CreateLimitSound ==
    Calm /\ SpecialTypeInv /\ SoundInv /\ CreateLimitOrder => SoundInv' /\ FinalKept
<1> SUFFICES ASSUME Calm, SpecialTypeInv, SoundInv, CreateLimitOrder PROVE SoundInv' /\ FinalKept
  OBVIOUS
<1>1. MirrorInv' /\ MatchingInv' /\ FinalKept
  BY BaseSound DEF Calm, Next, Web, CreateLimitOrder
<1>2. PICK u \in Users, op \in {"BUY", "SELL"}, p \in Prices, q \in Quantities, n \in OrderIds :
        LET x == [id |-> n, user |-> u, op |-> op, market |-> FALSE, price |-> p,
                  qty |-> q, left |-> q, cost |-> 0, state |-> "OPENED"]
        IN  /\ Room /\ Free(n)
            /\ CreateRow(x)
            /\ unsent' = unsent \cup {x}
            /\ UNCHANGED <<queue, stack, cur, boot, onCancel, onPlace, counts>>
  <2>1. CreateOrder
    BY DEF CreateLimitOrder
  <2> QED BY <2>1 DEF CreateOrder
<1>3. PICK x : x = [id |-> n, user |-> u, op |-> op, market |-> FALSE, price |-> p,
                    qty |-> q, left |-> q, cost |-> 0, state |-> "OPENED"]
  OBVIOUS
<1>4. /\ x.id = n /\ order[n].state = "NONE" /\ order' = [order EXCEPT ![n] = x]
      /\ unsent' = unsent \cup {x} /\ UNCHANGED <<queue, stack, cur, boot, onPlace>>
  BY <1>2, <1>3 DEF Free, CreateRow
<1>5. \A o \in OrderIds : o # n => order'[o] = order[o]
  BY <1>4, FollowTypes
<1>6. /\ inStack' \subseteq inStack \cup {n} /\ marking' = marking /\ stop' = stop
  <2>1. {o \in OrderIds : order'[o] # order[o]} \subseteq {n}
    BY <1>5
  <2> QED BY <2>1 DEF CreateLimitOrder
<1>7. \A o : WorkerHas(o)' = WorkerHas(o) /\ Waiting("place", o)' = Waiting("place", o)
  BY <1>4 DEF WorkerHas, Processed, InStack, Waiting
<1>8. n \notin onPlace /\ n \notin inStack \cup marking /\ ~InStack(stack, n)
  BY <1>4, SpecialParts, StoredHaveRows DEF SoundInv, MirrorInv, RowsInv
<1>9. \A o \in OrderIds : o # n => Open(o)' = Open(o)
  BY <1>5 DEF Open
<1>10. \A o : o \in Unsent \/ o = n => Tracked(o)'
  BY <1>4 DEF Unsent, Tracked
<1>11. GivenInv /\ TrackedInv /\ onPlace' \subseteq OrderIds /\ inStack' \cup marking' \subseteq OrderIds
  BY <1>4, <1>6, FollowTypes DEF SoundInv
<1>12. ASSUME NEW o \in OrderIds
       PROVE  /\ Open(o)' => Open(o) \/ o \notin onPlace'
              /\ Open(o)' /\ WorkerHas(o) => WorkerHas(o)'
              /\ WorkerHas(o)' => WorkerHas(o) \/ o \in onPlace'
              /\ o \in onPlace' /\ Open(o)' /\ Waiting("place", o)' =>
                    (o \in onPlace /\ Waiting("place", o)) \/ WorkerHas(o)'
              /\ Open(o)' /\ Waiting("place", o) => Waiting("place", o)' \/ WorkerHas(o)'
              /\ Open(o)' /\ o \in Unsent => Tracked(o)'
              /\ o \in inStack' \cup marking' /\ Open(o)' =>
                    (o \in inStack \cup marking /\ Open(o)) \/ Tracked(o)'
  BY <1>4, <1>6, <1>7, <1>8, <1>9, <1>10
<1>13. GivenInv' /\ TrackedInv'
  BY <1>4, <1>6, <1>11, <1>12, FollowKept
<1>14. RepriceInv'
  BY <1>4, <1>5, <1>8, RepriceKept DEF SoundInv, MirrorInv
<1> QED BY <1>1, <1>13, <1>14 DEF SoundInv

(* The worker has an open order it was given to process. *)
LEMMA ProcessedIsHad ==
    ASSUME NEW x \in Row, x.id \in OrderIds, x.state = "OPENED", NEW st \in Stacks,
           ~InStack(st, x.id), Process(x, st)
    PROVE  InStack(stack', x.id) \/ Processed(x.id)'
<1>1. CASE stack' = Added(st, x)
  <2>1. stack'[x.id].row = x
    BY <1>1 DEF Added, Stacks
  <2>2. NoEntry.row.state = "NONE"
    BY DEF NoEntry, NoRow
  <2> QED BY <2>1, <2>2 DEF InStack
<1>2. CASE cur' = [phase |-> "match", obj |-> x, todo |-> Matching(x, st)]
  BY <1>2 DEF Processed
<1> QED BY <1>1, <1>2 DEF Process

(* What is at the head of the queue leaves it. *)
LEMMA HeadLeaves ==
    ASSUME SpecialTypeInv, NEW t, Take(t)
    PROVE  /\ \A o : Waiting("place", o)' => Waiting("place", o)
           /\ \A o : Waiting("place", o) => Waiting("place", o)' \/ (t = "place" /\ o = Head(queue).row.id)
           /\ t = "place" => Waiting("place", Head(queue).row.id)
<1>1. /\ queue \in Seq(Message) /\ queue # <<>> /\ queue' = Tail(queue) /\ Head(queue).type = t
  BY FollowTypes DEF Take
<1>2. /\ Len(queue) \in Nat /\ Len(queue') = Len(queue) - 1 /\ Len(queue) >= 1
      /\ queue[1] = Head(queue)
      /\ \A i \in 1 .. Len(queue') : queue'[i] = queue[i + 1]
  BY <1>1, TailQueue
<1>3. \A i \in 1 .. Len(queue') : i + 1 \in 1 .. Len(queue) /\ queue'[i] = queue[i + 1]
  BY <1>2
<1>4. \A i \in 1 .. Len(queue) : i = 1 \/ (i - 1 \in 1 .. Len(queue') /\ queue'[i - 1] = queue[i])
  <2>1. \A i \in 1 .. Len(queue) : i = 1 \/ (i - 1 \in 1 .. Len(queue') /\ (i - 1) + 1 = i)
    BY <1>2
  <2> QED BY <1>2, <2>1
<1>5. 1 \in 1 .. Len(queue)
  BY <1>2
<1> QED BY <1>1, <1>2, <1>3, <1>4, <1>5 DEF Waiting

LEMMA PlaceOrderSound ==
    Calm /\ SpecialTypeInv /\ SoundInv /\ PlaceOrderTask /\ UNCHANGED stopVars => SoundInv' /\ FinalKept
<1> SUFFICES ASSUME Calm, SpecialTypeInv, SoundInv, PlaceOrderTask, UNCHANGED stopVars
             PROVE  SoundInv' /\ FinalKept
  OBVIOUS
<1>1. MirrorInv' /\ MatchingInv' /\ FinalKept
  BY BaseSound DEF Calm, Next, Worker
<1>2. PICK x : x = Head(queue).row
  OBVIOUS
<1>3. /\ Take("place") /\ order' = order /\ onPlace' = onPlace \cup {x.id}
      /\ IF x.id \in onPlace THEN UNCHANGED <<stack, cur>> ELSE Process(x, stack)
      /\ UNCHANGED <<stop, inStack, marking>>
  BY <1>2 DEF PlaceOrderTask, dbVars, stopVars
<1>4. cur = Idle /\ boot = {} /\ boot' = boot /\ unsent' = unsent
  BY <1>3 DEF Take
<1>5. MirrorInv /\ TypeInv
  BY SpecialParts DEF SoundInv
<1>6. x \in Row /\ x.id \in OrderIds /\ Head(queue) = queue[1] /\ queue[1].type = "place" /\ 1 \in 1 .. Len(queue)
  BY <1>2, <1>3, <1>5, TaskFinds
<1>7. x.id \notin onPlace => NewOrder(x)
  BY <1>2, <1>5, <1>6 DEF MirrorInv, SnapshotsInv
<1>8. /\ \A o : Waiting("place", o)' => Waiting("place", o)
      /\ \A o : Waiting("place", o) => Waiting("place", o)' \/ o = x.id
      /\ Waiting("place", x.id)
  BY <1>2, <1>3, HeadLeaves
<1>9. \A o : Open(o)' = Open(o)
  BY <1>3 DEF Open
<1>10. \A o \in OrderIds : o # x.id \/ x.id \in onPlace => WorkerHas(o)' = WorkerHas(o)
  <2>1. CASE x.id \in onPlace
    BY <1>3, <1>4, <2>1 DEF WorkerHas, Processed
  <2>2. CASE x.id \notin onPlace
    <3>1. Process(x, stack) /\ stack \in Stacks
      BY <1>3, <2>2, FollowTypes
    <3>2. \A o \in OrderIds : o # x.id => stack'[o] = stack[o]
      BY <3>1, ProcessTouches
    <3>3. \A o : o # x.id => ~Processed(o)'
      BY <3>1 DEF Process, Processed, Idle
    <3> QED BY <1>4, <2>2, <3>2, <3>3 DEF WorkerHas, Processed, Idle, InStack
  <2> QED BY <2>1, <2>2
<1>11. x.id \notin onPlace => WorkerHas(x.id)'
  BY <1>3, <1>6, <1>7, FollowTypes, ProcessedIsHad DEF NewOrder, WorkerHas
<1>12. Open(x.id) => WorkerHas(x.id)'
  BY <1>6, <1>8, <1>10, <1>11 DEF SoundInv, GivenInv
<1>13. \A o \in OrderIds : o \in Unsent => Tracked(o)'
  BY <1>4 DEF Unsent, Tracked
<1>14. GivenInv /\ TrackedInv /\ onPlace' \subseteq OrderIds /\ inStack' \cup marking' \subseteq OrderIds
  BY <1>3, <1>6, FollowTypes DEF SoundInv
<1>15. ASSUME NEW o \in OrderIds
       PROVE  /\ Open(o)' => Open(o) \/ o \notin onPlace'
              /\ Open(o)' /\ WorkerHas(o) => WorkerHas(o)'
              /\ WorkerHas(o)' => WorkerHas(o) \/ o \in onPlace'
              /\ o \in onPlace' /\ Open(o)' /\ Waiting("place", o)' =>
                    (o \in onPlace /\ Waiting("place", o)) \/ WorkerHas(o)'
              /\ Open(o)' /\ Waiting("place", o) => Waiting("place", o)' \/ WorkerHas(o)'
              /\ Open(o)' /\ o \in Unsent => Tracked(o)'
              /\ o \in inStack' \cup marking' /\ Open(o)' =>
                    (o \in inStack \cup marking /\ Open(o)) \/ Tracked(o)'
  BY <1>3, <1>8, <1>9, <1>10, <1>12, <1>13
<1>16. GivenInv' /\ TrackedInv'
  BY <1>3, <1>14, <1>15, FollowKept
<1>17. RepriceInv'
  <2>1. cur'.phase # "reprice"
    BY <1>3, <1>4 DEF Process, Idle
  <2> QED BY <1>5, <2>1, RepriceKept DEF SoundInv
<1> QED BY <1>1, <1>16, <1>17 DEF SoundInv

LEMMA LoadOpenedOrderSound ==
    Calm /\ SpecialTypeInv /\ SoundInv /\ LoadOpenedOrder /\ UNCHANGED stopVars => SoundInv' /\ FinalKept
<1> SUFFICES ASSUME Calm, SpecialTypeInv, SoundInv, LoadOpenedOrder, UNCHANGED stopVars
             PROVE  SoundInv' /\ FinalKept
  OBVIOUS
<1>1. MirrorInv' /\ MatchingInv' /\ FinalKept
  BY BaseSound DEF Calm, Next, Worker
<1>2. PICK n \in boot :
        /\ boot' = boot \ {n}
        /\ IF order[n].market
           THEN /\ cur' = [phase |-> "market", obj |-> order[n], todo |-> {}]
                /\ UNCHANGED stack
           ELSE Process(order[n], stack)
        /\ UNCHANGED <<dbVars, unsent, queue, onCancel, onPlace, counts>>
  BY DEF LoadOpenedOrder
<1>3. cur = Idle /\ UNCHANGED <<order, unsent, queue, onPlace, stop, inStack, marking>>
  BY <1>2 DEF LoadOpenedOrder, dbVars, stopVars
<1>4. /\ n \in OrderIds /\ order[n] \in Row /\ ~order[n].market /\ order[n].id = n /\ stack \in Stacks
  BY FollowTypes, SpecialParts DEF TypeInv, Exists
<1>5. order[n].state = "OPENED" /\ ~InStack(stack, n)
  BY <1>3, <1>4 DEF SoundInv, MirrorInv, MemoryInv, BootSound, BookSound, RestsSound, Idle
<1>6. Process(order[n], stack)
  BY <1>2, <1>4
<1>7. WorkerHas(n)' /\ WorkerHas(n)
  BY <1>2, <1>4, <1>5, <1>6, ProcessedIsHad DEF WorkerHas
<1>8. \A o \in OrderIds : o # n => WorkerHas(o)' = WorkerHas(o)
  <2>1. \A o \in OrderIds : o # n => stack'[o] = stack[o]
    BY <1>4, <1>6, ProcessTouches
  <2>2. \A o : o # n => ~Processed(o)'
    BY <1>4, <1>6 DEF Process, Processed, Idle
  <2> QED BY <1>2, <1>3, <2>1, <2>2 DEF WorkerHas, Processed, Idle, InStack
<1>9. \A o : Open(o)' = Open(o) /\ Waiting("place", o)' = Waiting("place", o)
  BY <1>3 DEF Open, Waiting
<1>10. \A o \in OrderIds : o \in Unsent => Tracked(o)'
  BY <1>3 DEF Unsent, Tracked
<1>11. GivenInv /\ TrackedInv /\ onPlace' \subseteq OrderIds /\ inStack' \cup marking' \subseteq OrderIds
  BY <1>3, FollowTypes DEF SoundInv
<1>12. GivenInv' /\ TrackedInv'
  BY <1>3, <1>7, <1>8, <1>9, <1>10, <1>11, FollowKept
<1>13. RepriceInv'
  <2>1. cur'.phase # "reprice"
    BY <1>6 DEF Process, Idle
  <2> QED BY <2>1, SpecialParts, RepriceKept DEF SoundInv
<1> QED BY <1>1, <1>12, <1>13 DEF SoundInv

(* Nothing makes execute raise. *)
LEMMA MatchSucceeds ==
    ASSUME SpecialTypeInv, SoundInv, voided = {}, MatchFails
    PROVE  FALSE
<1>1. PICK r \in OrderIds : Best(r) /\ ExecuteFails(cur.obj, stack[r].row, FillQuantity(cur.obj, stack[r].row))
  BY DEF MatchFails
<1>2. cur.phase = "match" /\ r \in cur.todo
  BY <1>1 DEF MatchFails, Best
<1>3. stack[r].row.id = r
  BY <1>2 DEF SoundInv, MirrorInv, TypeInv, CurOK, TodoOK, StackOK, EntryOK
<1>4. <<cur.obj.id, r>> \notin matches /\ <<r, cur.obj.id>> \notin matches
  BY <1>2 DEF SoundInv, MirrorInv, MemoryInv, MatchedOnce
<1>5. ~cur.obj.market
  BY SpecialParts DEF PhaseOK
<1> QED BY <1>1, <1>3, <1>4, <1>5 DEF ExecuteFails, VwapFails
LEMMA CancelTaskSound ==
    Calm /\ SpecialTypeInv /\ SoundInv /\ CancelTask => SoundInv' /\ FinalKept
<1> SUFFICES ASSUME Calm, SpecialTypeInv, SoundInv, CancelTask PROVE SoundInv' /\ FinalKept
  OBVIOUS
<1>1. MirrorInv' /\ MatchingInv' /\ FinalKept
  BY BaseSound DEF Calm, Next, Worker, CancelTask
<1>2. PICK x : x = order[Head(queue).row.id]
  OBVIOUS
<1>3. /\ Take("cancel") /\ UNCHANGED <<cur, onPlace, stop, inStack, marking>>
      /\ UNCHANGED <<dbVars, stack>>
         \/ (stack' = Removed(stack, x.id) /\ IF x.state = "OPENED" THEN CancelRow(x) ELSE UNCHANGED dbVars)
  BY <1>2 DEF CancelTask, CancelOrderTask
<1>4. cur = Idle /\ boot' = boot /\ unsent' = unsent
  BY <1>3 DEF Take
<1>5. MirrorInv /\ TypeInv
  BY SpecialParts DEF SoundInv
<1>6. x.id \in OrderIds /\ order[x.id] = x
  BY <1>2, <1>3, <1>5, TaskFinds
<1>7. \A o : Waiting("place", o)' = Waiting("place", o)
  <2>1. PICK t : t = "cancel"
    OBVIOUS
  <2>2. Take(t) /\ t # "place"
    BY <1>3, <2>1
  <2>3. \A o : /\ Waiting("place", o)' => Waiting("place", o)
               /\ Waiting("place", o) => Waiting("place", o)'
    BY <2>2, HeadLeaves
  <2> QED BY <2>3 DEF Waiting
<1>8. /\ \A o \in OrderIds : o # x.id => order'[o] = order[o] /\ stack'[o] = stack[o]
      /\ UNCHANGED <<order, stack>> \/ ~Open(x.id)'
      /\ Open(x.id)' => Open(x.id)
      /\ InStack(stack', x.id) => InStack(stack, x.id)
  <2>1. order \in [OrderIds -> Row] /\ stack \in Stacks
    BY FollowTypes
  <2>2. CASE UNCHANGED <<dbVars, stack>>
    BY <2>2 DEF dbVars, Open
  <2>3. CASE stack' = Removed(stack, x.id) /\ IF x.state = "OPENED" THEN CancelRow(x) ELSE UNCHANGED dbVars
    <3>1. \A o \in OrderIds : o # x.id => stack'[o] = stack[o]
      BY <2>1, <2>3 DEF Removed, Stacks
    <3>2. InStack(stack', x.id) => InStack(stack, x.id)
      BY <1>6, <2>1, <2>3 DEF Removed, Stacks, InStack
    <3>3. CASE x.state = "OPENED"
      <4>1. PICK z : z = [x EXCEPT !.state = "CANCELED"]
        OBVIOUS
      <4>2. z.state = "CANCELED"
        BY <1>6, <2>1, <4>1 DEF Row
      <4>3. order' = [order EXCEPT ![x.id] = z]
        BY <2>3, <3>3, <4>1 DEF CancelRow
      <4>4. order'[x.id] = z /\ \A o \in OrderIds : o # x.id => order'[o] = order[o]
        BY <1>6, <2>1, <4>3
      <4> QED BY <3>1, <3>2, <4>2, <4>4 DEF Open
    <3>4. CASE x.state # "OPENED"
      BY <1>6, <2>3, <3>1, <3>2, <3>4 DEF dbVars, Open
    <3> QED BY <3>3, <3>4
  <2> QED BY <1>3, <2>2, <2>3
<1>9. \A o \in OrderIds : /\ Open(o)' => Open(o)
                          /\ Open(o)' /\ WorkerHas(o) => WorkerHas(o)'
                          /\ WorkerHas(o)' => WorkerHas(o)
  <2>1. \A o : Processed(o)' = Processed(o)
    BY <1>3 DEF Processed
  <2> QED BY <1>4, <1>6, <1>8, <2>1 DEF WorkerHas, Open, InStack
<1>10. \A o \in OrderIds : o \in Unsent => Tracked(o)'
  BY <1>4 DEF Unsent, Tracked
<1>11. GivenInv /\ TrackedInv /\ onPlace' \subseteq OrderIds /\ inStack' \cup marking' \subseteq OrderIds
  BY <1>3, FollowTypes DEF SoundInv
<1>12. GivenInv' /\ TrackedInv'
  BY <1>3, <1>7, <1>9, <1>10, <1>11, FollowKept
<1>13. RepriceInv'
  <2>1. cur'.phase # "reprice"
    BY <1>3, <1>4 DEF Idle
  <2> QED BY <1>5, <2>1, RepriceKept DEF SoundInv
<1> QED BY <1>1, <1>12, <1>13 DEF SoundInv

LEMMA FinishSound ==
    Calm /\ SpecialTypeInv /\ SoundInv /\ voided = {} /\ FinishMatch => SoundInv' /\ FinalKept
<1> SUFFICES ASSUME Calm, SpecialTypeInv, SoundInv, voided = {}, FinishMatch PROVE SoundInv' /\ FinalKept
  OBVIOUS
<1>1. MirrorInv' /\ MatchingInv' /\ FinalKept
  BY BaseSound DEF Calm, Next, Worker, FinishMatch
<1>2. PICK x : x = cur.obj
  OBVIOUS
<1>3. Finish /\ ~x.market
  BY <1>2, SpecialParts DEF FinishMatch, PhaseOK
<1>4. /\ cur.phase = "match" /\ cur' = Idle /\ UNCHANGED <<unsent, queue, boot, onPlace>>
      /\ \/ /\ stack' = Removed(stack, x.id)
            /\ IF x.state = "OPENED" THEN CancelRow(x) ELSE UNCHANGED dbVars
         \/ stack' = (IF x.state = "OPENED" THEN Added(stack, x) ELSE stack) /\ UNCHANGED dbVars
  BY <1>2, <1>3 DEF Finish
<1>5. UNCHANGED <<stop, marking>> /\ inStack' = SavedInStack(CanceledIn)
  BY DEF FinishMatch
<1>6. /\ MirrorInv /\ x \in Row /\ x.id \in OrderIds /\ x = order[x.id] /\ ~InStack(stack, x.id)
  BY <1>2, <1>4, WorkIsSound DEF SoundInv
<1>7. order \in [OrderIds -> Row] /\ stack \in Stacks
  BY FollowTypes
<1>8. \A o : Waiting("place", o)' = Waiting("place", o)
  BY <1>4 DEF Waiting
<1>9. \A o \in OrderIds : o # x.id => order'[o] = order[o] /\ stack'[o] = stack[o]
  BY <1>4, <1>7 DEF CancelRow, dbVars, Removed, Added, Stacks
<1>10. /\ Open(x.id)' => InStack(stack', x.id) /\ Open(x.id)
       /\ order'[x.id].state = "OPENED" => order'[x.id] = order[x.id]
  <2>1. PICK z : z = [x EXCEPT !.state = "CANCELED"]
    OBVIOUS
  <2>2. z.state = "CANCELED"
    BY <1>6, <2>1 DEF Row
  <2>3. order' = order \/ order' = [order EXCEPT ![x.id] = z]
    BY <1>4, <2>1 DEF CancelRow, dbVars
  <2>4. CASE order' = order /\ x.state # "OPENED"
    BY <1>6, <2>4 DEF Open
  <2>5. CASE order' = order /\ x.state = "OPENED" /\ stack' = Added(stack, x)
    <3>1. stack'[x.id].row = x
      BY <1>6, <1>7, <2>5 DEF Added, Stacks
    <3>2. NoEntry.row.state = "NONE"
      BY DEF NoEntry, NoRow
    <3> QED BY <2>5, <3>1, <3>2 DEF InStack, Open
  <2>6. CASE order' = [order EXCEPT ![x.id] = z]
    <3>1. order'[x.id] = z
      BY <1>6, <1>7, <2>6
    <3> QED BY <2>2, <3>1 DEF Open
  <2>7. \/ order' = order /\ x.state # "OPENED"
        \/ order' = order /\ x.state = "OPENED" /\ stack' = Added(stack, x)
        \/ order' = [order EXCEPT ![x.id] = z]
    BY <1>4, <2>1 DEF CancelRow, dbVars
  <2> QED BY <2>4, <2>5, <2>6, <2>7
<1>11. Processed(x.id) /\ \A o : o # x.id => ~Processed(o)
  BY <1>2, <1>4 DEF Processed
<1>12. \A o : ~Processed(o)'
  BY <1>4 DEF Processed, Idle
<1>13. \A o \in OrderIds : /\ Open(o)' => Open(o)
                           /\ Open(o)' /\ WorkerHas(o) => WorkerHas(o)'
                           /\ WorkerHas(o)' => WorkerHas(o)
  BY <1>4, <1>9, <1>10, <1>11, <1>12 DEF WorkerHas, Open, InStack
<1>14. \A o \in OrderIds : o \in Unsent => Tracked(o)'
  BY <1>4 DEF Unsent, Tracked
<1>15. \A o \in inStack' \cup marking' : Open(o)' => o \in inStack \cup marking
  BY <1>5 DEF SavedInStack, CanceledIn, Open
<1>16. GivenInv /\ TrackedInv /\ onPlace' \subseteq OrderIds /\ inStack' \cup marking' \subseteq OrderIds
  BY <1>4, <1>5, FollowTypes, SpecialParts DEF SoundInv, SavedInStack
<1>17. GivenInv' /\ TrackedInv'
  BY <1>4, <1>5, <1>8, <1>13, <1>14, <1>15, <1>16, FollowKept
<1>18. RepriceInv'
  <2>1. cur'.phase # "reprice"
    BY <1>4 DEF Idle
  <2> QED BY <2>1, SpecialParts, RepriceKept DEF SoundInv
<1> QED BY <1>1, <1>17, <1>18 DEF SoundInv

(* A fill that leaves the resting order open leaves it in the stack. *)
LEMMA MatchTouches ==
    ASSUME SpecialTypeInv, SoundInv, voided = {}, voided' = {}, Match
    PROVE  \E r \in OrderIds, n \in OrderIds :
              /\ n # r /\ InStack(stack, r) /\ Open(r)
              /\ \A o \in OrderIds : o # n /\ o # r => order'[o] = order[o]
              /\ \A o \in OrderIds : o # r => stack'[o] = stack[o]
              /\ Open(r)' => InStack(stack', r)
              /\ Open(n)' => Open(n)
              /\ Processed(n) /\ Processed(n)' /\ \A o : o # n => ~Processed(o) /\ ~Processed(o)'
              /\ UNCHANGED <<unsent, queue, boot, onPlace>>
              /\ FilledIn \cup CanceledIn \subseteq {n, r}
<1>1. PICK r \in OrderIds : Best(r) /\ Execute(r)
  BY DEF Match
<1>2. cur.phase = "match" /\ UNCHANGED <<unsent, queue, boot, onPlace>>
  BY DEF Match
<1>3. PICK x, y : x = cur.obj /\ y = stack[r].row
  OBVIOUS
<1>4. PICK p, q : p = y.price /\ q = FillQuantity(x, y)
  OBVIOUS
<1>5. MirrorInv
  BY DEF SoundInv
<1>6. /\ x \in Row /\ x.id \in OrderIds /\ x = order[x.id]
      /\ ~InStack(stack, x.id) /\ matches \subseteq OrderIds \X OrderIds
      /\ order \in [OrderIds -> Row] /\ stack \in Stacks
  BY <1>2, <1>3, <1>5, WorkIsSound
<1>7. /\ y \in Row /\ y.id = r /\ InStack(stack, r) /\ r # x.id
      /\ order[r].state = "OPENED" /\ y.state = "OPENED"
  <2>1. /\ y \in Row /\ y.id = r /\ ~y.market /\ y.price \in Nat /\ y.price > 0 /\ y.state # "NONE"
        /\ InStack(stack, r) /\ r \in cur.todo /\ stack[r].key = y.price /\ r \notin boot
        /\ r # cur.obj.id
        /\ order[r].state # "NONE" /\ Given({r})
        /\ r \notin voided =>
              /\ order[r].state = "OPENED" /\ y.left <= order[r].left /\ y.state = "OPENED"
              /\ y = [order[r] EXCEPT !.left = y.left] /\ ~order[r].market
    BY <1>1, <1>2, <1>3, <1>5, RestingIsSound
  <2> QED BY <1>3, <2>1
<1>8. /\ q \in Nat /\ Filled(x, q, p) \in Row /\ Filled(y, q, p) \in Row
  BY <1>1, <1>2, <1>3, <1>4, <1>5, NextFill
<1>9. ~Void(x, q, p) /\ ~Void(y, q, p)
  <2>1. {z \in {x.id, r} : Void(IF z = r THEN y ELSE x, q, p)} \subseteq voided'
    BY <1>1, <1>3, <1>4 DEF Execute
  <2> QED BY <1>7, <2>1
<1>10. ~VoidCancels(x, q, p) /\ ~VoidCancels(y, q, p)
  BY <1>9 DEF VoidCancels
<1> DEFINE x1 == Filled(x, q, p)
           y1 == Filled(y, q, p)
           y2 == [y1 EXCEPT !.state = "CANCELED"]
           y3 == IF DustCancels(y1) THEN y2 ELSE y1
           st1 == [stack EXCEPT ![r].row = y1]
           gone == y1.state = "CLOSED" \/ DustCancels(y1)
<1>11. /\ order' = [order EXCEPT ![x.id] = x1, ![r] = y3]
       /\ matches' = matches \cup ({x.id} \X {r}) \cup ({y.id} \X {x.id})
       /\ stack' = IF gone THEN Removed(st1, r) ELSE st1
       /\ cur' = [cur EXCEPT !.obj = x1, !.todo = @ \ {r}]
  BY <1>1, <1>3, <1>4, <1>9, <1>10 DEF Execute, Saved
<1>12. /\ x1.id = x.id /\ (x1.state = "OPENED" => x.state = "OPENED")
  <2>1. /\ x1.id = x.id
        /\ x1.state = IF x1.left = 0 /\ ~Void(x, q, p) THEN "CLOSED" ELSE x.state
    BY <1>6, FilledFields
  <2> QED BY <2>1
<1>13. y2.state = "CANCELED"
  BY <1>8 DEF Row
<1>14. y3 = IF DustCancels(y1) THEN y2 ELSE y1
  OBVIOUS
<1>15. gone <=> y1.state = "CLOSED" \/ DustCancels(y1)
  OBVIOUS
<1>16. cur' = [phase |-> "match", obj |-> x1, todo |-> cur.todo \ {r}]
  <2>1. cur \in Works
    BY <1>5 DEF MirrorInv, TypeInv, TypeOK, Works
  <2> HIDE DEF x1
  <2> QED BY <1>2, <1>11, <2>1 DEF Works
<1>17. st1[r].row = y1 /\ \A o \in OrderIds : o # r => st1[o] = stack[o]
  <2> HIDE DEF y1
  <2> QED BY <1>6 DEF Stacks
<1>18. \A o \in OrderIds : o # r => Removed(st1, r)[o] = st1[o]
  <2>1. st1 \in Stacks
    <3>1. y1 \in Row
      BY <1>8
    <3> HIDE DEF y1
    <3> QED BY <1>6, <3>1 DEF Stacks
  <2> HIDE DEF st1
  <2> QED BY <2>1 DEF Removed, Stacks
<1>19. y1 \in Row
  BY <1>8
<1> HIDE DEF x1, y1, y2, y3, st1, gone
<1>20. /\ order'[x.id] = x1 /\ order'[r] = y3
       /\ \A o \in OrderIds : o # x.id /\ o # r => order'[o] = order[o]
  BY <1>6, <1>7, <1>11
<1>21. \A o \in OrderIds : o # r => stack'[o] = stack[o]
  BY <1>11, <1>17, <1>18
<1>22. Open(r)' => InStack(stack', r)
  <2>1. SUFFICES ASSUME order'[r].state = "OPENED" PROVE InStack(stack', r)
    BY DEF Open
  <2>2. ~DustCancels(y1) /\ y1.state = "OPENED"
    BY <1>13, <1>14, <1>20, <2>1
  <2>3. stack'[r].row = y1
    BY <1>11, <1>15, <1>17, <2>2
  <2> QED BY <2>2, <2>3 DEF InStack, NoEntry, NoRow
<1>23. \A o \in OrderIds : order[o].state = "OPENED" => Open(o)
  <2>1. \A o \in OrderIds : RowSound(order[o])
    BY <1>5 DEF MirrorInv, RowsInv
  <2>2. \A o \in OrderIds : ~MarketBuy(order[o])
    BY SpecialParts DEF MarketBuy
  <2> QED BY <2>1, <2>2 DEF RowSound, Open
<1>24. Open(r) /\ (Open(x.id)' => Open(x.id))
  BY <1>6, <1>7, <1>12, <1>20, <1>23 DEF Open
<1>25. Processed(x.id) /\ Processed(x.id)' /\ \A o : o # x.id => ~Processed(o) /\ ~Processed(o)'
  BY <1>2, <1>3, <1>12, <1>16 DEF Processed
<1>26. FilledIn \subseteq {x.id, r}
  BY <1>7, <1>11 DEF FilledIn
<1>27. CanceledIn \subseteq {x.id, r}
  BY <1>20 DEF CanceledIn
<1> QED BY <1>2, <1>6, <1>7, <1>20, <1>21, <1>22, <1>24, <1>25, <1>26, <1>27

LEMMA MatchSound ==
    Calm /\ SpecialTypeInv /\ SoundInv /\ voided = {} /\ voided' = {} /\ MatchNext
        => SoundInv' /\ FinalKept
<1> SUFFICES ASSUME Calm, SpecialTypeInv, SoundInv, voided = {}, voided' = {}, MatchNext
             PROVE  SoundInv' /\ FinalKept
  OBVIOUS
<1>1. MirrorInv' /\ MatchingInv' /\ FinalKept
  BY BaseSound DEF Calm, Next, Worker, MatchNext
<1>2. PICK r \in OrderIds, n \in OrderIds :
              /\ n # r /\ InStack(stack, r) /\ Open(r)
              /\ \A o \in OrderIds : o # n /\ o # r => order'[o] = order[o]
              /\ \A o \in OrderIds : o # r => stack'[o] = stack[o]
              /\ Open(r)' => InStack(stack', r)
              /\ Open(n)' => Open(n)
              /\ Processed(n) /\ Processed(n)' /\ \A o : o # n => ~Processed(o) /\ ~Processed(o)'
              /\ UNCHANGED <<unsent, queue, boot, onPlace>>
              /\ FilledIn \cup CanceledIn \subseteq {n, r}
  BY MatchTouches DEF MatchNext
<1>3. UNCHANGED <<stop, marking>> /\ inStack' = SavedInStack(FilledIn \cup CanceledIn)
  BY DEF MatchNext
<1>4. UNCHANGED <<unsent, queue, boot, onPlace>>
  BY <1>2
<1>5. \A o : Waiting("place", o)' = Waiting("place", o)
  BY <1>4 DEF Waiting
<1>6. \A o \in OrderIds : o # n /\ o # r => Open(o)' = Open(o) /\ WorkerHas(o)' = WorkerHas(o)
  BY <1>2, <1>4 DEF Open, WorkerHas, InStack
<1>7. WorkerHas(n) /\ WorkerHas(n)' /\ WorkerHas(r) /\ (Open(r)' => WorkerHas(r)')
  BY <1>2 DEF WorkerHas
<1>8. \A o \in OrderIds : /\ Open(o)' => Open(o)
                          /\ Open(o)' /\ WorkerHas(o) => WorkerHas(o)'
                          /\ WorkerHas(o)' => WorkerHas(o)
  BY <1>2, <1>6, <1>7
<1>9. \A o \in OrderIds : o \in Unsent => Tracked(o)'
  BY <1>4 DEF Unsent, Tracked
<1>10. \A o \in inStack' \cup marking' : Open(o)' => (o \in inStack \cup marking /\ Open(o)) \/ Tracked(o)'
  <2>1. inStack' \subseteq inStack \cup {n, r}
    BY <1>2, <1>3 DEF SavedInStack
  <2>2. Tracked(n)' /\ (Open(r)' => Tracked(r)')
    BY <1>2 DEF Tracked
  <2>3. inStack \cup marking \subseteq OrderIds
    BY FollowTypes
  <2> QED BY <1>3, <1>8, <2>1, <2>2, <2>3
<1>11. GivenInv /\ TrackedInv /\ onPlace' \subseteq OrderIds /\ inStack' \cup marking' \subseteq OrderIds
  BY <1>2, <1>3, FollowTypes, SpecialParts DEF SoundInv, SavedInStack
<1>12. GivenInv' /\ TrackedInv'
  BY <1>3, <1>4, <1>5, <1>8, <1>9, <1>10, <1>11, FollowKept
<1>13. RepriceInv'
  <2>1. cur'.phase # "reprice"
    BY <1>2, SpecialParts DEF MatchNext, Match, Execute, TypeInv, TypeOK, Works
  <2> QED BY <2>1, SpecialParts, RepriceKept DEF SoundInv
<1> QED BY <1>1, <1>12, <1>13 DEF SoundInv

-----------------------------------------------------------------------------
(* The steps of SpecialOrders.                                             *)

LEMMA KeptIsSound ==
    ASSUME MirrorKept, TypeInv'
    PROVE  MirrorInv' /\ FinalKept
  BY DEF MirrorKept, MirrorInv, MemoryInv

(* The orders that a restart loads are the worker's again. *)
LEMMA RestartInStackSound ==
    Calm /\ SpecialTypeInv /\ SoundInv /\ TypeInv' /\ RestartInStack => SoundInv' /\ FinalKept
<1> SUFFICES ASSUME Calm, SpecialTypeInv, SoundInv, TypeInv', RestartInStack PROVE SoundInv' /\ FinalKept
  OBVIOUS
<1>1. /\ unsent = {} /\ \A i \in 1 .. Len(queue) : queue[i].type # "place"
      /\ marking = {}
      /\ stack' = [o \in OrderIds |-> NoEntry]
      /\ cur' = Idle
      /\ boot' = {o \in inStack : Open(o)}
      /\ UNCHANGED <<dbVars, unsent, queue, onPlace, stop, inStack, marking>>
  BY DEF RestartInStack, Calm, Orderly
<1>2. MirrorInv' /\ FinalKept
  <2>1. \A o \in boot' : order[o].state = "OPENED"
    BY <1>1 DEF Open
  <2>2. MirrorKept
    BY <1>1, <2>1, RestartedMirror DEF SoundInv
  <2> QED BY <2>2, KeptIsSound
<1>3. \A o : ~InStack(stack', o) \/ o \notin OrderIds
  BY <1>1 DEF InStack, NoEntry, NoRow
<1>4. MatchingInv'
  <2>1. Uncrossed(stack', voided')
    BY <1>3 DEF Uncrossed
  <2> QED BY <1>1, <2>1, MatchingIdle
<1>5. \A o : ~Waiting("place", o) /\ o \notin Unsent
  BY <1>1 DEF Waiting, Unsent
<1>6. \A o : Open(o)' = Open(o) /\ ~Processed(o)' /\ ~Waiting("place", o)'
  BY <1>1, <1>5 DEF Open, Processed, Idle, dbVars, Waiting
<1>7. ASSUME NEW o \in boot' PROVE Open(o) /\ WorkerHas(o)
  <2>1. o \in inStack /\ Open(o)
    BY <1>1
  <2>2. Tracked(o)
    BY <2>1 DEF SoundInv, TrackedInv
  <2> QED BY <1>5, <2>1, <2>2 DEF Tracked, WorkerHas, Unsent
<1>8. GivenInv'
  <2>1. \A o \in OrderIds : IsStop(o)' /\ WorkerHas(o)' => o \in onPlace'
    BY <1>1, <1>3, <1>6, <1>7 DEF WorkerHas, IsStop, SoundInv, GivenInv
  <2> QED BY <1>6, <2>1 DEF GivenInv
<1>9. TrackedInv'
  BY <1>1, <1>6 DEF TrackedInv, Tracked
<1>10. RepriceInv'
  BY <1>1 DEF RepriceInv, Idle
<1> QED BY <1>2, <1>4, <1>8, <1>9, <1>10 DEF SoundInv

(* Writing in_stack. *)
LEMMA MarkStopsSound ==
    Calm /\ SpecialTypeInv /\ SoundInv /\ TypeInv' /\ MarkStops => SoundInv' /\ FinalKept
<1> SUFFICES ASSUME Calm, SpecialTypeInv, SoundInv, TypeInv', MarkStops PROVE SoundInv' /\ FinalKept
  OBVIOUS
<1>1. /\ UNCHANGED <<dbVars, unsent, queue, stack, cur, boot, onPlace, stop>>
      /\ inStack' \cup marking' = inStack \cup marking
  BY DEF MarkStops, vars
<1>2. MirrorInv' /\ FinalKept
  BY <1>1, NothingMirror, KeptIsSound DEF SoundInv
<1>3. MatchingInv'
  BY <1>1, MatchingUntouched DEF SoundInv, dbVars
<1>4. \A o : WorkerHas(o)' = WorkerHas(o) /\ Open(o)' = Open(o)
  BY <1>1, WorkerUntouched DEF dbVars
<1>5. \A o : Tracked(o)' = Tracked(o) /\ Waiting("place", o)' = Waiting("place", o)
  BY <1>1 DEF Tracked, Waiting, Processed
<1>6. GivenInv' /\ TrackedInv'
  <2>1. GivenInv'
    BY <1>1, <1>4, <1>5 DEF GivenInv, SoundInv, IsStop
  <2>2. TrackedInv'
    BY <1>1, <1>4, <1>5 DEF TrackedInv, SoundInv
  <2> QED BY <2>1, <2>2
<1>7. RepriceInv'
  BY <1>1, RepriceKept DEF SoundInv, MirrorInv, dbVars
<1> QED BY <1>2, <1>3, <1>6, <1>7 DEF SoundInv

(* A stop-limit order the worker creates is not given to it. *)
LEMMA CreateStopSound ==
    ASSUME Calm, SpecialTypeInv, SoundInv, TypeInv', NEW x, NEW s, CreatesStop(x, s)
    PROVE  SoundInv' /\ FinalKept
<1>1. PICK n : n = x.id
  OBVIOUS
<1>2. /\ x \in Row /\ n \in OrderIds /\ x.state = "OPENED" /\ ~x.market /\ x.left > 0 /\ x.cost = 0
      /\ cur = Idle /\ boot = {} /\ Free(n) /\ order[n].state = "NONE" /\ CreateRow(x)
      /\ order' = [order EXCEPT ![n] = x]
      /\ stop' = [stop EXCEPT ![n] = s]
      /\ UNCHANGED <<unsent, queue, stack, cur, boot, onPlace, inStack, marking>>
  BY <1>1 DEF CreatesStop, AtRest, Free, CreateRow
<1>3. MirrorInv' /\ FinalKept
  <2>1. RowSound(x) /\ Claim(x) = Refund(x)
    BY <1>2 DEF RowSound, Claim
  <2>2. MirrorKept
    BY <1>1, <1>2, <2>1, CreatedMirror DEF SoundInv
  <2> QED BY <2>2, KeptIsSound
<1>4. MatchingInv'
  BY <1>2, MatchingUntouched DEF SoundInv, CreateRow
<1>5. /\ \A o \in OrderIds : o # n => order'[o] = order[o] /\ stop'[o] = stop[o]
      /\ onPlace \subseteq OrderIds /\ inStack \cup marking \subseteq OrderIds
  BY <1>2, FollowTypes, SpecialParts
<1>6. n \notin onPlace /\ n \notin inStack \cup marking /\ ~InStack(stack, n)
  BY <1>2, SpecialParts, StoredHaveRows DEF SoundInv, MirrorInv, RowsInv
<1>7. \A o : WorkerHas(o)' = WorkerHas(o) /\ Waiting("place", o)' = Waiting("place", o)
             /\ Tracked(o)' = Tracked(o)
  BY <1>2 DEF WorkerHas, Processed, InStack, Waiting, Tracked
<1>8. ~WorkerHas(n)
  BY <1>2, <1>6 DEF WorkerHas, Processed, Idle
<1>9. \A o \in OrderIds : o # n => Open(o)' = Open(o) /\ IsStop(o)' = IsStop(o)
  BY <1>5 DEF Open, IsStop
<1>10. GivenInv'
  <2>1. \A o \in onPlace' : Waiting("place", o)' /\ Open(o)' => WorkerHas(o)'
    BY <1>2, <1>5, <1>6, <1>7, <1>9 DEF SoundInv, GivenInv
  <2>2. \A o \in OrderIds : IsStop(o)' /\ WorkerHas(o)' => o \in onPlace'
    BY <1>2, <1>7, <1>8, <1>9 DEF SoundInv, GivenInv
  <2> QED BY <2>1, <2>2 DEF GivenInv
<1>11. TrackedInv'
  BY <1>2, <1>5, <1>6, <1>7, <1>9 DEF SoundInv, TrackedInv
<1>12. RepriceInv'
  BY <1>2 DEF RepriceInv, Idle
<1> QED BY <1>3, <1>4, <1>10, <1>11, <1>12 DEF SoundInv

(* An order whose key expires is neither waiting nor the worker's. *)
LEMMA PlaceKeySound ==
    Calm /\ SpecialTypeInv /\ SoundInv /\ TypeInv' /\ PlaceKeyExpires => SoundInv' /\ FinalKept
<1> SUFFICES ASSUME Calm, SpecialTypeInv, SoundInv, TypeInv', PlaceKeyExpires PROVE SoundInv' /\ FinalKept
  OBVIOUS
<1>1. PICK k \in onPlace : /\ ~Tracked(k)
                           /\ onPlace' = onPlace \ {k}
                           /\ UNCHANGED <<dbVars, unsent, queue, stack, cur, boot, stopVars>>
  BY DEF PlaceKeyExpires, Calm
<1>2. UNCHANGED <<order, voided, unsent, queue, stack, cur, boot, stop, inStack, marking>>
  BY <1>1 DEF dbVars, stopVars
<1>3. ~WorkerHas(k) /\ ~Waiting("place", k) /\ k \notin Unsent
  BY <1>1 DEF Tracked, WorkerHas, Unsent
<1>4. NeverSent(k)
  BY <1>3 DEF NeverSent, Sent, Waiting
<1>5. /\ TypeInv /\ RowsInv /\ SnapshotsInv /\ RequestsInv
      /\ BookSound /\ BootSound /\ CurSound /\ MatchedOnce
  BY MirrorParts DEF SoundInv
<1>6. RowsInv' /\ FinalKept
  BY <1>1, <1>5, RowsUntouched
<1>7. BookSound' /\ BootSound' /\ CurSound' /\ MatchedOnce'
  BY <1>1, <1>5, MemoryUntouched
<1>8. \A x : NewOrder(x)' = NewOrder(x)
  BY <1>2 DEF NewOrder, InStack, Working
<1>9. SnapshotsInv'
  <2>1. \A x \in unsent : NewOrder(x) /\ x.id \notin onPlace /\ ~Sent(x.id, Len(queue))
    BY <1>5 DEF SnapshotsInv
  <2>2. \A i \in 1 .. Len(queue) : queue[i].type = "place" /\ queue[i].row.id \notin onPlace' =>
           queue[i].row.id \notin onPlace
    BY <1>1, <1>3 DEF Waiting
  <2>3. \A i \in 1 .. Len(queue) : queue[i].type = "place" /\ queue[i].row.id \notin onPlace' =>
           NewOrder(queue[i].row)
    BY <1>5, <2>2 DEF SnapshotsInv
  <2> QED BY <1>1, <1>2, <2>1, <2>3 DEF SnapshotsInv, Sent, NewOrder, InStack, Working
<1>10. RequestsInv'
  <2>1. \A o, n : Sent(o, n)' = Sent(o, n)
    BY <1>2 DEF Sent
  <2>2. \A o : NeverSent(o)' = NeverSent(o)
    BY <1>2 DEF NeverSent, Sent, Unsent
  <2>3. \A o, n : After(o, n) => After(o, n)'
    BY <1>1, <1>2, <1>4, <2>1, <2>2 DEF After
  <2> QED BY <1>2, <1>5, <2>3 DEF RequestsInv
<1>11. MirrorInv'
  BY <1>6, <1>7, <1>9, <1>10 DEF MirrorInv, MemoryInv
<1>12. MatchingInv'
  BY <1>2, MatchingUntouched DEF SoundInv
<1>13. \A o : WorkerHas(o)' = WorkerHas(o) /\ Open(o)' = Open(o)
  BY <1>2, WorkerUntouched
<1>14. \A o : Tracked(o)' = Tracked(o) /\ Waiting("place", o)' = Waiting("place", o)
  BY <1>2 DEF Tracked, Waiting, Processed
<1>15. GivenInv'
  BY <1>1, <1>2, <1>3, <1>13, <1>14 DEF GivenInv, SoundInv, IsStop
<1>16. TrackedInv'
  BY <1>2, <1>13, <1>14 DEF TrackedInv, SoundInv
<1>17. RepriceInv'
  BY <1>2, RepriceKept DEF SoundInv, MirrorInv
<1> QED BY <1>6, <1>11, <1>12, <1>15, <1>16, <1>17 DEF SoundInv

(* What is sent of the orders T was their row, or ignored if given before. *)
LEMMA TriggerStopsSound ==
    ASSUME Calm, SpecialTypeInv, SoundInv, voided = {}, SpecialTypeInv',
           NEW n \in OrderIds, NEW T \in SUBSET OrderIds, SendsStops(n, T)
    PROVE  SoundInv' /\ FinalKept
<1>1. /\ UNCHANGED <<dbVars, unsent, stack, cur, boot, onPlace, stop, inStack>>
      /\ marking = {} /\ marking' = T
      /\ Len(queue) \in Nat /\ Len(queue') \in Nat /\ Len(queue) <= Len(queue')
      /\ \A i \in 1 .. Len(queue) : queue'[i] = queue[i]
      /\ \A i \in 1 .. Len(queue') : i \in 1 .. Len(queue) \/ \E o \in T : queue'[i] = PlaceOf(o)
      /\ \A o \in T : \E i \in 1 .. Len(queue') : i > Len(queue) /\ queue'[i] = PlaceOf(o)
  BY DEF SendsStops
<1>2. UNCHANGED <<order, voided, unsent, stack, cur, boot, onPlace, stop, inStack>>
  BY <1>1 DEF dbVars
<1>3. /\ TypeInv /\ RowsInv /\ SnapshotsInv /\ RequestsInv
      /\ BookSound /\ BootSound /\ CurSound /\ MatchedOnce
  BY MirrorParts DEF SoundInv
<1>4. ASSUME NEW o \in T
      PROVE  /\ IsStop(o) /\ order[o].state = "OPENED" /\ order[o].id = o
             /\ PlaceOf(o).type = "place" /\ PlaceOf(o).row = order[o]
             /\ ~Waiting("cancel", o) /\ (o \in onPlace => Tracked(o)) /\ o \notin Unsent
  <2>1. IsStop(o) /\ order[o].state = "OPENED"
    BY DEF SendsStops, Triggered, Open
  <2>2. order[o].id = o
    BY <1>3, <2>1, TypeParts DEF DatabaseOK, RowsOK, NoRow
  <2>3. ~Waiting("cancel", o) /\ (o \in onPlace => Tracked(o))
    BY DEF SendsStops, InTime, Calm
  <2>4. o \notin Unsent
    BY <2>1, SpecialParts DEF Unsent
  <2> QED BY <2>1, <2>2, <2>3, <2>4 DEF PlaceOf
<1>5. ASSUME NEW i \in 1 .. Len(queue')
      PROVE  \/ i \in 1 .. Len(queue) /\ queue'[i] = queue[i]
             \/ \E o \in T : queue'[i].type = "place" /\ queue'[i].row = order[o] /\ queue'[i].row.id = o
  BY <1>1, <1>4
<1>6. \A i \in 1 .. Len(queue) : i \in 1 .. Len(queue')
  BY <1>1
<1>7. RowsInv' /\ FinalKept
  BY <1>1, <1>3, RowsUntouched
<1>8. BookSound' /\ BootSound' /\ CurSound' /\ MatchedOnce'
  BY <1>1, <1>3, MemoryUntouched
<1>9. \A x : NewOrder(x)' = NewOrder(x)
  BY <1>2 DEF NewOrder, InStack, Working
<1>10. \A o : Waiting("place", o)' <=> Waiting("place", o) \/ o \in T
  <2>1. ASSUME NEW o, Waiting("place", o)' PROVE Waiting("place", o) \/ o \in T
    BY <1>5, <2>1 DEF Waiting
  <2>2. ASSUME NEW o, Waiting("place", o) PROVE Waiting("place", o)'
    BY <1>1, <1>6, <2>2 DEF Waiting
  <2>3. ASSUME NEW o \in T PROVE Waiting("place", o)'
    BY <1>1, <1>4 DEF Waiting
  <2> QED BY <2>1, <2>2, <2>3
<1>11. \A o \in T : o \notin onPlace => NewOrder(order[o])
  <2>1. SUFFICES ASSUME NEW o \in T, o \notin onPlace PROVE NewOrder(order[o])
    OBVIOUS
  <2>2. ~WorkerHas(o)
    BY <1>4, <2>1 DEF SoundInv, GivenInv
  <2>3. o \notin boot /\ ~InStack(stack, o) /\ ~Working(o)
    BY <2>2 DEF WorkerHas, Processed, Working
  <2> QED BY <1>4, <2>3 DEF NewOrder
<1>12. SnapshotsInv'
  <2>1. ASSUME NEW x \in unsent PROVE (NewOrder(x) /\ x.id \notin onPlace /\ ~Sent(x.id, Len(queue)))'
    <3>1. NewOrder(x) /\ x.id \notin onPlace /\ ~Sent(x.id, Len(queue))
      BY <1>3 DEF SnapshotsInv
    <3>2. x.id \notin T /\ ~Waiting("place", x.id)
      BY <1>4, <3>1 DEF Unsent, Sent, Waiting
    <3>3. ~Waiting("place", x.id)'
      BY <1>10, <3>2
    <3> QED BY <1>2, <1>9, <3>1, <3>3 DEF Sent, Waiting
  <2>2. ASSUME NEW i \in 1 .. Len(queue'), queue'[i].type = "place", queue'[i].row.id \notin onPlace'
        PROVE  NewOrder(queue[i].row)'
    <3>1. NewOrder(queue'[i].row)
      <4>1. CASE i \in 1 .. Len(queue) /\ queue'[i] = queue[i]
        BY <1>2, <1>3, <2>2, <4>1 DEF SnapshotsInv
      <4>2. CASE \E o \in T : queue'[i].row = order[o] /\ queue'[i].row.id = o
        BY <1>2, <1>11, <2>2, <4>2
      <4> QED BY <1>5, <4>1, <4>2
    <3>2. PICK x : x = queue'[i].row
      OBVIOUS
    <3>3. NewOrder(x)'
      BY <1>9, <3>1, <3>2
    <3> QED BY <3>2, <3>3 DEF NewOrder, InStack, Working
  <2> QED BY <1>2, <2>1, <2>2 DEF SnapshotsInv
<1>13. RequestsInv'
  <2>1. \A i \in 1 .. Len(queue') : queue'[i].type \in {"place", "cancel"}
    BY DEF SpecialTypeInv, OnlyLimits
  <2>2. ASSUME NEW i \in 1 .. Len(queue'), queue'[i].type = "cancel"
        PROVE  After(queue[i].row.id, i - 1)'
    <3>1. i \in 1 .. Len(queue) /\ queue'[i] = queue[i]
      BY <1>5, <2>2
    <3>2. PICK o, k : o = queue[i].row.id /\ k = i - 1
      OBVIOUS
    <3>3. After(o, k) /\ o \notin T
      BY <1>3, <1>4, <2>2, <3>1, <3>2 DEF RequestsInv, Waiting
    <3>4. Sent(o, k) => Sent(o, k)'
      <4>1. \A j \in 1 .. k : j \in 1 .. Len(queue)
        BY <1>1, <3>1, <3>2
      <4> QED BY <1>1, <4>1 DEF Sent
    <3>5. NeverSent(o) => NeverSent(o)'
      BY <1>2, <1>10, <3>3 DEF NeverSent, Sent, Waiting, Unsent
    <3>6. After(o, k)'
      BY <1>2, <3>3, <3>4, <3>5 DEF After
    <3> QED BY <3>1, <3>2, <3>6 DEF After, Sent, NeverSent, Unsent
  <2> QED BY <2>1, <2>2 DEF RequestsInv
<1>14. MirrorInv'
  BY <1>7, <1>8, <1>12, <1>13 DEF MirrorInv, MemoryInv, SpecialTypeInv
<1>15. MatchingInv'
  BY <1>2, MatchingUntouched DEF SoundInv
<1>16. \A o : WorkerHas(o)' = WorkerHas(o) /\ Open(o)' = Open(o)
  BY <1>2, WorkerUntouched
<1>17. \A o : Tracked(o) => Tracked(o)'
  BY <1>2, <1>10 DEF Tracked, Processed
<1>18. \A o \in T : Tracked(o)'
  BY <1>10 DEF Tracked
<1>19. \A o \in T : o \in onPlace => Waiting("place", o) \/ WorkerHas(o)
  BY <1>4 DEF Tracked, WorkerHas, Unsent
<1>20. \A o \in OrderIds : o \in Unsent => Tracked(o)'
  BY <1>2 DEF Unsent, Tracked
<1>21. GivenInv /\ TrackedInv /\ onPlace' \subseteq OrderIds /\ inStack' \cup marking' \subseteq OrderIds
  BY <1>1, <1>2, FollowTypes DEF SoundInv
<1>22. GivenInv' /\ TrackedInv'
  BY <1>1, <1>2, <1>10, <1>16, <1>18, <1>19, <1>20, <1>21, FollowKept
<1>23. RepriceInv'
  BY <1>2, <1>3, RepriceKept DEF SoundInv
<1> QED BY <1>7, <1>14, <1>15, <1>22, <1>23 DEF SoundInv

(* The orders whose prices are to change rest. *)
LEMMA OtcBulkSound ==
    Calm /\ SpecialTypeInv /\ SoundInv /\ voided = {} /\ TypeInv' /\ OtcBulkUpdate => SoundInv' /\ FinalKept
<1> SUFFICES ASSUME Calm, SpecialTypeInv, SoundInv, voided = {}, TypeInv', OtcBulkUpdate
             PROVE  SoundInv' /\ FinalKept
  OBVIOUS
<1>1. PICK p \in OtcPrices : cur' = [phase |-> "reprice", obj |-> [NoRow EXCEPT !.price = p], todo |-> External]
  BY DEF OtcBulkUpdate
<1>2. /\ cur = Idle /\ boot = {} /\ \A o \in External : InStack(stack, o)
      /\ UNCHANGED <<dbVars, unsent, queue, stack, boot, onPlace, stop, inStack, marking>>
  BY DEF OtcBulkUpdate, AtRest, Calm, stopVars
<1>3. cur'.phase = "reprice" /\ cur'.obj.id = 0 /\ cur'.todo = External
  <2>1. PICK z : z = [NoRow EXCEPT !.price = p]
    OBVIOUS
  <2>2. z.id = 0
    BY <2>1 DEF NoRow
  <2>3. cur' = [phase |-> "reprice", obj |-> z, todo |-> External]
    BY <1>1, <2>1
  <2> QED BY <2>2, <2>3
<1>4. /\ TypeInv /\ RowsInv /\ SnapshotsInv /\ RequestsInv
      /\ BookSound /\ BootSound /\ CurSound /\ MatchedOnce
  BY MirrorParts DEF SoundInv
<1>5. RowsInv' /\ FinalKept
  BY <1>2, <1>4, RowsUntouched
<1>6. \A o : ~Working(o)'
  BY <1>3 DEF Working
<1>7. SnapshotsInv' /\ RequestsInv'
  <2>1. /\ voided \subseteq OrderIds /\ matches \subseteq OrderIds \X OrderIds
        /\ onPlace \subseteq OrderIds
    BY <1>4 DEF TypeInv, TypeOK
  <2>2. Touches({}) /\ Given({})
    BY <1>2, <1>6, <2>1 DEF Touches, Given, dbVars
  <2> QED BY <1>2, <1>4, <2>2, WaitingStay
<1>8. BookSound'
  <2>1. ASSUME NEW o \in OrderIds, InStack(stack', o) PROVE RestsSound(o)'
    <3>1. RestsSound(o)
      BY <1>2, <1>4, <2>1 DEF BookSound
    <3> QED BY <1>2, <1>6, <3>1 DEF RestsSound, Disturbed, dbVars
  <2> QED BY <2>1 DEF BookSound
<1>9. BootSound' /\ CurSound' /\ MatchedOnce'
  BY <1>2, <1>3 DEF BootSound, CurSound, MatchedOnce
<1>10. MirrorInv'
  BY <1>5, <1>7, <1>8, <1>9 DEF MirrorInv, MemoryInv
<1>11. MatchingInv'
  BY <1>2, <1>3 DEF MatchingInv, SoundInv, dbVars
<1>12. \A o \in OrderIds : WorkerHas(o)' = WorkerHas(o) /\ Open(o)' = Open(o)
  BY <1>2, <1>3 DEF WorkerHas, Open, Processed, Idle, InStack, dbVars, OrderIds
<1>13. \A o : Waiting("place", o)' = Waiting("place", o)
  BY <1>2 DEF Waiting
<1>14. \A o \in OrderIds : Tracked(o)' = Tracked(o)
  BY <1>2, <1>12, <1>13 DEF Tracked, WorkerHas
<1>15. GivenInv' /\ TrackedInv'
  <2>1. onPlace \subseteq OrderIds /\ inStack \cup marking \subseteq OrderIds
    BY FollowTypes
  <2>2. GivenInv'
    BY <1>2, <1>12, <1>13, <2>1 DEF GivenInv, SoundInv, IsStop
  <2>3. TrackedInv'
    BY <1>2, <1>12, <1>14, <2>1 DEF TrackedInv, SoundInv
  <2> QED BY <2>2, <2>3
<1>16. RepriceInv'
  BY <1>2, <1>3 DEF RepriceInv, External, InStack, dbVars
<1> QED BY <1>5, <1>10, <1>11, <1>15, <1>16 DEF SoundInv

(* A row whose price changes keeps what it is owed covered. *)
LEMMA RepricedIsCovered ==
    ASSUME SpecialTypeInv, NEW o, NEW x, NEW y, Reprices(o, x, y),
           ~UpdateRefused(x, y), RowSound(x), NEW h \in Int, h >= Claim(x)
    PROVE  RowSound(y) /\ h + Charge(x, y) >= Claim(y)
<1>1. /\ x \in Row /\ ~x.market /\ x.state = "OPENED" /\ y \in Row /\ y.left = x.left /\ y.price \in Nat
  BY RepricedRow DEF Row
<1>2. x.left > 0 /\ x.left \in Nat /\ x.qty \in Int
  <2>1. ~MarketBuy(x)
    BY <1>1 DEF MarketBuy
  <2>2. x.left > 0
    BY <1>1, <2>1 DEF RowSound
  <2> QED BY <1>1, <2>2, RowFields
<1>3. PICK p : p = OtcPrice(x, cur.obj.price)
  OBVIOUS
<1>4. y = [x EXCEPT !.price = p]
  BY <1>3 DEF Reprices
<1>5. PICK m : m = [x EXCEPT !.price = p]
  OBVIOUS
<1>6. m = y /\ m \in Row /\ m.qty = x.qty /\ m.price = p
  BY <1>1, <1>4, <1>5 DEF Row
<1>7. x.qty - (x.qty - x.left) = x.left
  BY <1>2
<1>8. y = Updated(x, m)
  <2>1. Updated(x, m) = [x EXCEPT !.price = p, !.qty = x.qty, !.left = x.left]
    BY <1>6, <1>7 DEF Updated
  <2>2. [x EXCEPT !.price = p, !.qty = x.qty, !.left = x.left] = [x EXCEPT !.price = p]
    BY <1>1 DEF Row
  <2> QED BY <1>4, <2>1, <2>2
<1> QED BY <1>1, <1>2, <1>6, <1>8, UpdateIsCovered

(* While prices change, the changed orders still rest with the old ones. *)
LEMMA RepriceSound ==
    ASSUME Calm, SpecialTypeInv, SoundInv, voided = {}, TypeInv', NEW o, NEW x, NEW y, Reprices(o, x, y)
    PROVE  SoundInv' /\ FinalKept
<1>1. /\ o \in OrderIds /\ x = order[o] /\ x \in Row /\ ~x.market
      /\ y \in Row /\ y.op = x.op /\ y.user = x.user /\ y.market = x.market
      /\ y.left = x.left /\ y.state = x.state
      /\ ~UpdateRefused(x, y) => x.state = "OPENED" /\ Charge(x, y) \in Int
  BY RepricedRow DEF Reprices
<1>2. /\ cur.phase = "reprice" /\ o \in cur.todo
      /\ UNCHANGED <<matches, voided, unsent, queue, stack, onPlace, stop, inStack, marking>>
  BY DEF Reprices, stopVars
<1>3. cur' = [phase |-> "reprice", obj |-> cur.obj, todo |-> cur.todo \ {o}]
  <2>1. cur \in Works
    BY FollowTypes
  <2> QED BY <1>2, <2>1 DEF Reprices, Works
<1>4. cur'.phase = "reprice" /\ cur'.obj = cur.obj /\ cur'.todo = cur.todo \ {o} /\ cur.obj.id = 0
  BY <1>2, <1>3, SpecialParts DEF PhaseOK
<1>5. InStack(stack, o) /\ order[o].user \in Otc
  BY <1>2 DEF SoundInv, RepriceInv
<1>6. /\ TypeInv /\ RowsInv /\ SnapshotsInv /\ RequestsInv
      /\ BookSound /\ BootSound /\ CurSound /\ MatchedOnce
  BY MirrorParts DEF SoundInv
<1>7. x.state # "NONE" /\ order[o].state # "NONE"
  BY <1>1, <1>2, SpecialParts DEF PhaseOK
<1>8. /\ order \in [OrderIds -> Row] /\ held \in [OrderIds -> Int]
      /\ voided \subseteq OrderIds /\ matches \subseteq OrderIds \X OrderIds
      /\ onPlace \subseteq OrderIds /\ boot \subseteq OrderIds
  BY <1>6 DEF TypeInv, TypeOK
<1>9. \/ UNCHANGED <<order, held, boot>>
      \/ /\ ~UpdateRefused(x, y) /\ x.state = "OPENED" /\ Charge(x, y) \in Int
         /\ order'[o] = y /\ held'[o] = held[o] + Charge(x, y)
         /\ boot' = boot \cup {o}
  BY <1>1, <1>8 DEF Reprices
<1>10. /\ order'[o].state = order[o].state /\ order'[o].left = order[o].left
       /\ order'[o].user = order[o].user /\ order'[o].market = order[o].market
  BY <1>1, <1>9
<1>11. \A m \in OrderIds : m # o => order'[m] = order[m] /\ held'[m] = held[m]
  BY <1>8 DEF Reprices
<1>12. boot \subseteq boot' /\ boot' \subseteq boot \cup {o}
  BY <1>9
<1>13. \A m : ~Working(m)'
  BY <1>4 DEF Working
<1>14. Touches({o})
  BY <1>1, <1>2, <1>7, <1>8, <1>10, <1>11, <1>12, <1>13 DEF Touches
<1>15. Advances(o) /\ StaysMarket(o)
  BY <1>1, <1>7, <1>10 DEF Advances, StaysMarket
<1>16. Given({o})
  BY <1>5 DEF Given, NewOrder
<1>17. RowSound(order'[o]) /\ held'[o] >= Claim(order'[o])
  <2>1. RowSound(x) /\ held[o] >= Claim(x) /\ held[o] \in Int
    BY <1>1, <1>6, <1>8 DEF RowsInv
  <2>2. CASE UNCHANGED <<order, held, boot>>
    BY <1>1, <2>1, <2>2
  <2>3. CASE /\ ~UpdateRefused(x, y)
             /\ order'[o] = y /\ held'[o] = held[o] + Charge(x, y)
    <3>1. RowSound(y) /\ held[o] + Charge(x, y) >= Claim(y)
      BY <2>1, <2>3, RepricedIsCovered
    <3> QED BY <2>3, <3>1
  <2> QED BY <1>9, <2>2, <2>3
<1>18. RowsInv'
  BY <1>2, <1>6, <1>14, <1>15, <1>17, RowsStay
<1>19. SnapshotsInv' /\ RequestsInv'
  BY <1>2, <1>6, <1>14, <1>15, <1>16, WaitingStay
<1>20. BookSound'
  <2>1. ASSUME NEW m \in OrderIds, InStack(stack', m) PROVE RestsSound(m)'
    <3>1. RestsSound(m)
      BY <1>2, <1>6, <2>1 DEF BookSound, InStack
    <3>2. m \in boot' \/ (m \notin boot /\ order'[m] = order[m])
      BY <1>9, <1>11, <1>12
    <3> QED BY <1>2, <1>4, <1>13, <3>1, <3>2 DEF RestsSound, Disturbed
  <2> QED BY <2>1 DEF BookSound
<1>21. BootSound'
  <2>1. ASSUME NEW m \in boot' PROVE order'[m].state = "OPENED"
    <3>1. CASE m = o
      <4>1. m \in boot \/ x.state = "OPENED"
        BY <1>9, <3>1
      <4> QED BY <1>1, <1>6, <1>10, <3>1, <4>1 DEF BootSound
    <3>2. CASE m # o
      BY <1>6, <1>8, <1>11, <1>12, <3>2 DEF BootSound
    <3> QED BY <3>1, <3>2
  <2> QED BY <1>13, <2>1 DEF BootSound
<1>22. CurSound' /\ MatchedOnce'
  BY <1>4 DEF CurSound, MatchedOnce
<1>23. MirrorInv'
  BY <1>18, <1>19, <1>20, <1>21, <1>22 DEF MirrorInv, MemoryInv
<1>24. FinalKept
  <2>1. ~Final(order[o]) \/ order'[o] = order[o]
    BY <1>1, <1>9 DEF Final
  <2> QED BY <1>11, <2>1 DEF FinalKept
<1>25. MatchingInv'
  BY <1>2, <1>4 DEF MatchingInv, SoundInv
<1>26. \A m \in OrderIds : (WorkerHas(m)' <=> WorkerHas(m)) /\ (Open(m)' <=> Open(m))
  <2>1. \A m : Processed(m)' = Processed(m)
    BY <1>2, <1>4 DEF Processed
  <2>2. \A m \in OrderIds : (Open(m)' <=> Open(m))
    BY <1>10, <1>11 DEF Open
  <2>3. \A m \in OrderIds : m # o => (WorkerHas(m)' <=> WorkerHas(m))
    BY <1>2, <1>12, <2>1 DEF WorkerHas, InStack
  <2>4. WorkerHas(o) /\ WorkerHas(o)'
    BY <1>2, <1>5 DEF WorkerHas, InStack
  <2> QED BY <2>2, <2>3, <2>4
<1>27. \A m : Waiting("place", m)' = Waiting("place", m)
  BY <1>2 DEF Waiting
<1>28. \A m \in OrderIds : Tracked(m)' = Tracked(m)
  BY <1>2, <1>26, <1>27 DEF Tracked, WorkerHas
<1>29. GivenInv' /\ TrackedInv'
  <2>1. onPlace \subseteq OrderIds /\ inStack \cup marking \subseteq OrderIds
    BY FollowTypes
  <2>2. GivenInv'
    BY <1>2, <1>26, <1>27, <2>1 DEF GivenInv, SoundInv, IsStop
  <2>3. TrackedInv'
    BY <1>2, <1>26, <1>28, <2>1 DEF TrackedInv, SoundInv
  <2> QED BY <2>2, <2>3
<1>30. RepriceInv'
  <2>1. \A m \in OrderIds : order'[m].user = order[m].user
    BY <1>10, <1>11
  <2>2. cur'.todo \cup boot' \subseteq cur.todo \cup boot
    BY <1>2, <1>4, <1>12
  <2>3. cur.todo \cup boot \subseteq OrderIds
    BY <1>6, <1>8 DEF TypeInv, TypeOK
  <2>4. \A m \in cur.todo \cup boot : InStack(stack, m) /\ order[m].user \in Otc
    BY <1>2 DEF SoundInv, RepriceInv
  <2>5. \A m : InStack(stack', m) = InStack(stack, m)
    BY <1>2 DEF InStack
  <2> QED BY <2>1, <2>2, <2>3, <2>4, <2>5 DEF RepriceInv
<1> QED BY <1>23, <1>24, <1>25, <1>29, <1>30 DEF SoundInv

(* The changed orders leave the book, to be processed again. *)
LEMMA ReloadSound ==
    Calm /\ SpecialTypeInv /\ SoundInv /\ voided = {} /\ TypeInv' /\ ReloadRepriced => SoundInv' /\ FinalKept
<1> SUFFICES ASSUME Calm, SpecialTypeInv, SoundInv, voided = {}, TypeInv', ReloadRepriced
             PROVE  SoundInv' /\ FinalKept
  OBVIOUS
<1>1. /\ cur.phase = "reprice" /\ cur' = Idle
      /\ stack' = [o \in OrderIds |-> IF o \in boot /\ order[o].user \notin Bots
                                      THEN Removed(stack, o)[o] ELSE stack[o]]
      /\ UNCHANGED <<dbVars, unsent, queue, boot, onPlace, stop, inStack, marking>>
  BY DEF ReloadRepriced
<1>2. /\ TypeInv /\ RowsInv /\ SnapshotsInv /\ RequestsInv
      /\ BookSound /\ BootSound /\ CurSound /\ MatchedOnce
  BY MirrorParts DEF SoundInv
<1>3. /\ voided \subseteq OrderIds /\ matches \subseteq OrderIds \X OrderIds
      /\ onPlace \subseteq OrderIds /\ boot \subseteq OrderIds /\ stack \in Stacks
  BY <1>2, FollowTypes DEF TypeInv, TypeOK
<1>4. ASSUME NEW o \in OrderIds
      PROVE  o \in boot => ~InStack(stack', o) /\ InStack(stack, o)
  <2>1. SUFFICES ASSUME o \in boot PROVE ~InStack(stack', o) /\ InStack(stack, o)
    OBVIOUS
  <2>2. InStack(stack, o) /\ order[o].user \in Otc
    BY <1>1, <2>1 DEF SoundInv, RepriceInv
  <2>3. order[o].user \notin Bots
    BY <2>2 DEF Calm
  <2>4. stack[o].key = stack[o].row.price
    BY <1>2, <2>2 DEF BookSound, RestsSound
  <2>5. ~InStack(Removed(stack, o), o)
    BY <1>3, <2>4, RemovedIsGone
  <2>6. stack'[o] = Removed(stack, o)[o]
    BY <1>1, <2>1, <2>3
  <2> QED BY <2>2, <2>5, <2>6 DEF InStack
<1>5. \A o \in OrderIds : o \notin boot => stack'[o] = stack[o]
  BY <1>1
<1>6. RowsInv' /\ FinalKept
  BY <1>1, <1>2, RowsUntouched
<1>7. CurSound' /\ MatchedOnce' /\ \A o : ~Working(o)'
  BY <1>1, IdleIsSound
<1>8. SnapshotsInv' /\ RequestsInv'
  <2>1. Touches({}) /\ Given({})
    BY <1>1, <1>3, <1>4, <1>5, <1>7 DEF Touches, Given, dbVars
  <2> QED BY <1>1, <1>2, <2>1, WaitingStay
<1>9. BookSound'
  <2>1. ASSUME NEW o \in OrderIds, InStack(stack', o) PROVE RestsSound(o)'
    <3>1. o \notin boot /\ stack'[o] = stack[o]
      BY <1>4, <1>5, <2>1
    <3>2. RestsSound(o)
      BY <1>2, <2>1, <3>1 DEF BookSound, InStack
    <3> QED BY <1>1, <1>7, <3>1, <3>2 DEF RestsSound, Disturbed, dbVars
  <2> QED BY <2>1 DEF BookSound
<1>10. BootSound'
  BY <1>1, <1>2, <1>7 DEF BootSound, dbVars
<1>11. MirrorInv'
  BY <1>6, <1>7, <1>8, <1>9, <1>10 DEF MirrorInv, MemoryInv
<1>12. MatchingInv'
  <2>1. Shrinks(stack, stack', voided')
    BY <1>4, <1>5 DEF Shrinks, InStack
  <2>2. voided \subseteq voided' /\ Uncrossed(stack, voided)
    BY <1>1 DEF SoundInv, MatchingInv, dbVars
  <2>3. Uncrossed(stack', voided')
    BY <2>1, <2>2, UncrossedShrinks
  <2> QED BY <1>1, <2>3, MatchingIdle
<1>13. cur.obj.id = 0
  BY <1>1, SpecialParts DEF PhaseOK
<1>14. \A o \in OrderIds : WorkerHas(o)' = WorkerHas(o) /\ Open(o)' = Open(o)
  <2>1. \A o \in OrderIds : ~Processed(o) /\ ~Processed(o)'
    BY <1>1, <1>13 DEF Processed, Idle, OrderIds
  <2>2. \A o \in OrderIds : Open(o)' = Open(o)
    BY <1>1 DEF Open, dbVars
  <2>3. \A o \in OrderIds : o \notin boot => InStack(stack', o) = InStack(stack, o)
    BY <1>5 DEF InStack
  <2> QED BY <1>1, <2>1, <2>2, <2>3 DEF WorkerHas
<1>15. \A o : Waiting("place", o)' = Waiting("place", o)
  BY <1>1 DEF Waiting
<1>16. \A o \in OrderIds : Tracked(o)' = Tracked(o)
  BY <1>1, <1>14, <1>15 DEF Tracked, WorkerHas
<1>17. GivenInv' /\ TrackedInv'
  <2>1. inStack \cup marking \subseteq OrderIds
    BY FollowTypes
  <2>2. GivenInv'
    BY <1>1, <1>3, <1>14, <1>15 DEF GivenInv, SoundInv, IsStop
  <2>3. TrackedInv'
    BY <1>1, <1>14, <1>16, <2>1 DEF TrackedInv, SoundInv
  <2> QED BY <2>2, <2>3
<1>18. RepriceInv'
  BY <1>1 DEF RepriceInv, Idle
<1> QED BY <1>6, <1>11, <1>12, <1>17, <1>18 DEF SoundInv

-----------------------------------------------------------------------------
(* The theorems.                                                           *)

(* An order that had a void fill stays so. *)
LEMMA VoidedGrow == [SpecialNext]_specialVars => voided \subseteq voided'
<1> SUFFICES ASSUME [SpecialNext]_specialVars PROVE voided \subseteq voided'
  OBVIOUS
<1>1. CASE UNCHANGED specialVars
  BY <1>1 DEF specialVars, vars, dbVars
<1>2. CASE MatchNext
  <2>1. PICK r \in OrderIds : Execute(r)
    BY <1>2 DEF MatchNext, Match
  <2> QED BY <2>1 DEF Execute
<1>3. CASE CreateLimitOrder \/ CreateStopOrder
  <2>1. \E x : CreateRow(x)
    <3>1. CASE CreateLimitOrder
      BY <3>1 DEF CreateLimitOrder, CreateOrder
    <3>2. CASE CreateStopOrder
      BY <3>2, StopIsCreated DEF CreatesStop
    <3> QED BY <1>3, <3>1, <3>2
  <2> QED BY <2>1 DEF CreateRow
<1>4. CASE RequestCancel \/ SendPlaceOrder \/ CancelKeyExpires
  BY <1>4 DEF RequestCancel, SendPlaceOrder, CancelKeyExpires, dbVars
<1>5. CASE PlaceOrderTask \/ LoadOpenedOrder \/ MatchFails
  BY <1>5 DEF PlaceOrderTask, LoadOpenedOrder, MatchFails, dbVars
<1>6. CASE CancelTask
  BY <1>6 DEF CancelTask, CancelOrderTask, CancelRow, dbVars
<1>7. CASE FinishMatch
  <2>1. CancelRow(cur.obj) \/ CloseMarket(cur.obj) \/ UNCHANGED dbVars
    BY <1>7 DEF FinishMatch, Finish
  <2> QED BY <2>1 DEF CancelRow, CloseMarket, dbVars
<1>8. CASE RestartInStack \/ \E n \in OrderIds : TriggerStops(n)
  BY <1>8 DEF RestartInStack, TriggerStops, dbVars
<1>9. CASE MarkStops \/ PlaceKeyExpires
  BY <1>9 DEF MarkStops, PlaceKeyExpires, vars, dbVars
<1>10. CASE OtcBulkUpdate \/ ReloadRepriced
  BY <1>10 DEF OtcBulkUpdate, ReloadRepriced, dbVars
<1>11. CASE RepriceOrder
  BY <1>11, OrderIsRepriced DEF Reprices
<1>12. CASE Quiescent
  BY <1>12 DEF Quiescent, vars, dbVars
<1> QED BY <1>1, <1>2, <1>3, <1>4, <1>5, <1>6, <1>7, <1>8, <1>9, <1>10, <1>11, <1>12 DEF SpecialNext

LEMMA SoundStep ==
    Calm /\ SpecialTypeInv /\ SoundInv /\ voided = {} /\ voided' = {} /\ [SpecialNext]_specialVars
        => SpecialTypeInv' /\ SoundInv' /\ FinalKept
<1> SUFFICES ASSUME Calm, SpecialTypeInv, SoundInv, voided = {}, voided' = {}, [SpecialNext]_specialVars
             PROVE  SpecialTypeInv' /\ SoundInv' /\ FinalKept
  OBVIOUS
<1>0. SpecialTypeInv' /\ TypeInv' /\ TypeInv
  <2>1. SpecialTypeInv'
    BY SpecialTypeStep DEF Calm
  <2> QED BY <2>1 DEF SpecialTypeInv
<1>1. CASE UNCHANGED specialVars
  BY <1>0, <1>1, QuietSound DEF specialVars
<1>2. CASE CreateLimitOrder
  BY <1>0, <1>2, CreateLimitSound
<1>3. CASE CreateStopOrder
  BY <1>0, <1>3, StopIsCreated, CreateStopSound
<1>4. CASE (RequestCancel \/ SendPlaceOrder \/ CancelKeyExpires) /\ UNCHANGED <<stopVars, repricings>>
  BY <1>0, <1>4, RequestCancelSound, SendPlaceOrderSound, CancelKeySound
<1>5. CASE (PlaceOrderTask \/ LoadOpenedOrder \/ MatchFails) /\ UNCHANGED <<stopVars, repricings>>
  BY <1>0, <1>5, PlaceOrderSound, LoadOpenedOrderSound, MatchSucceeds
<1>6. CASE CancelTask
  BY <1>0, <1>6, CancelTaskSound
<1>7. CASE MatchNext
  BY <1>0, <1>7, MatchSound
<1>8. CASE FinishMatch
  BY <1>0, <1>8, FinishSound
<1>9. CASE RestartInStack
  BY <1>0, <1>9, RestartInStackSound
<1>10. CASE \E n \in OrderIds : TriggerStops(n)
  BY <1>0, <1>10, StopsAreSent, TriggerStopsSound
<1>11. CASE MarkStops \/ PlaceKeyExpires
  BY <1>0, <1>11, MarkStopsSound, PlaceKeySound
<1>12. CASE OtcBulkUpdate
  BY <1>0, <1>12, OtcBulkSound
<1>13. CASE RepriceOrder
  BY <1>0, <1>13, OrderIsRepriced, RepriceSound
<1>14. CASE ReloadRepriced
  BY <1>0, <1>14, ReloadSound
<1>15. CASE Quiescent /\ UNCHANGED <<stopVars, repricings>>
  BY <1>0, <1>15, QuietSound DEF Quiescent
<1> QED BY <1>0, <1>1, <1>2, <1>3, <1>4, <1>5, <1>6, <1>7, <1>8, <1>9, <1>10, <1>11, <1>12, <1>13, <1>14, <1>15
        DEF SpecialNext

LEMMA SoundInit == SpecialInit => SpecialInv
<1> SUFFICES ASSUME SpecialInit PROVE SpecialInv
  OBVIOUS
<1>1. MirrorInv /\ MatchingInv
  BY MirrorInit, MatchingInit DEF SpecialInit
<1>2. stack = [o \in OrderIds |-> NoEntry] /\ cur = Idle /\ boot = {} /\ onPlace = {}
  BY DEF SpecialInit, Init
<1>3. \A o \in OrderIds : ~WorkerHas(o)
  BY <1>2 DEF WorkerHas, Processed, Idle, InStack, NoEntry, NoRow
<1>4. GivenInv
  BY <1>2, <1>3 DEF GivenInv
<1>5. TrackedInv /\ RepriceInv
  BY <1>2 DEF SpecialInit, TrackedInv, RepriceInv, Idle
<1> QED BY <1>1, <1>4, <1>5, SpecialInit0 DEF SpecialInv, SoundInv

(* Every row, object and message of the pair agree, through triggers,      *)
(* partial fills, updates of all EXTERNAL prices and restarts.             *)
THEOREM SpecialSound == ASSUME Calm PROVE SpecialSpec => []SpecialInv
<1>1. SpecialInit => SpecialInv
  BY SoundInit
<1>2. SpecialInv /\ [SpecialNext]_specialVars => SpecialInv'
  BY VoidedGrow, SoundStep, SpecialTypeStep DEF SpecialInv, Calm
<1> QED BY <1>1, <1>2, PTL DEF SpecialSpec

(* While no fill netted to nothing, an open order whose row says in_stack  *)
(* is in the book or on its way there (load_opened_orders, bulk_update).   *)
THEOREM InStackTracked == ASSUME Calm PROVE SpecialSpec => [](voided = {} => InStackAreTracked)
<1>1. SpecialInv => (voided = {} => InStackAreTracked)
  BY DEF SpecialInv, SoundInv, TrackedInv, InStackAreTracked
<1> QED BY <1>1, SpecialSound, PTL

(* ... and the worker matches with what the database holds.                *)
THEOREM SpecialMirror == ASSUME Calm PROVE SpecialSpec => [](voided = {} => BookMirrorsDatabase)
<1>1. SpecialInv => (voided = {} => BookMirrorsDatabase)
  BY MirrorIsMemory DEF SpecialInv, SoundInv, BookMirrorsDatabase, Settled
<1> QED BY <1>1, SpecialSound, PTL

(* ... what is held covers every order, no buy meets a sell in the book,   *)
(* and no two orders are matched twice.                                    *)
THEOREM SpecialBook ==
    ASSUME Calm PROVE SpecialSpec => [](voided = {} => HoldCovers /\ BookUncrossed /\ MatchedOnce)
<1>1. SpecialInv => (voided = {} => HoldCovers /\ BookUncrossed /\ MatchedOnce)
  <2> SUFFICES ASSUME SpecialInv, voided = {} PROVE HoldCovers /\ BookUncrossed /\ MatchedOnce
    OBVIOUS
  <2>1. MirrorInv /\ MatchingInv
    BY DEF SpecialInv, SoundInv
  <2>2. RowsInv /\ MatchedOnce
    BY <2>1, MirrorParts
  <2>3. HoldCovers
    BY <2>2 DEF RowsInv, HoldCovers
  <2>4. BookUncrossed
    BY <2>1 DEF MatchingInv, Uncrossed, BookUncrossed
  <2> QED BY <2>2, <2>3, <2>4
<1> QED BY <1>1, SpecialSound, PTL

(* No fill of the behaviour nets to nothing. *)
NoVoid == voided = {}

(* Cancelled and closed rows are final beside triggers and price updates.  *)
THEOREM SpecialFinalRows == ASSUME Calm PROVE SpecialSpec /\ []NoVoid => FinalRowsStay
<1>1. SpecialInv /\ NoVoid /\ NoVoid' /\ [SpecialNext]_specialVars =>
        [\A o \in OrderIds \ voided :
            order[o].state = "CANCELED" \/ (order[o].state = "CLOSED" /\ ~order[o].market)
                => order'[o] = order[o]]_vars
  BY SoundStep DEF SpecialInv, NoVoid, FinalKept, Final
<1> QED BY <1>1, SpecialSound, PTL DEF SpecialSpec, FinalRowsStay

(* While orders are matched, only the steps of OrderBook change rows. *)
LEMMA OnlyFillsChange ==
    ASSUME cur.phase = "match", SpecialTypeInv, [SpecialNext]_specialVars
    PROVE  order' = order \/ [Next]_vars
<1>1. CASE UNCHANGED specialVars
  BY <1>1 DEF specialVars
<1>2. CASE CreateLimitOrder
  BY <1>2 DEF CreateLimitOrder, Next, Web
<1>3. CASE CreateStopOrder \/ OtcBulkUpdate \/ RepriceOrder
  <2>1. CASE CreateStopOrder
    BY <2>1, StopIsCreated DEF CreatesStop, AtRest, Idle
  <2>2. CASE OtcBulkUpdate
    BY <2>2 DEF OtcBulkUpdate, AtRest, Idle
  <2>3. CASE RepriceOrder
    BY <2>3, OrderIsRepriced DEF Reprices
  <2> QED BY <1>3, <2>1, <2>2, <2>3
<1>4. CASE RequestCancel \/ SendPlaceOrder \/ CancelKeyExpires
  BY <1>4 DEF Next, Web
<1>5. CASE PlaceOrderTask \/ LoadOpenedOrder \/ MatchFails
  BY <1>5 DEF Next, Worker
<1>6. CASE CancelTask \/ MatchNext \/ FinishMatch
  BY <1>6 DEF CancelTask, MatchNext, FinishMatch, Next, Worker
<1>7. CASE RestartInStack \/ \E n \in OrderIds : TriggerStops(n)
  BY <1>7 DEF RestartInStack, TriggerStops, dbVars
<1>8. CASE MarkStops \/ PlaceKeyExpires \/ ReloadRepriced \/ Quiescent
  BY <1>8 DEF MarkStops, PlaceKeyExpires, ReloadRepriced, Quiescent, vars, dbVars
<1> QED BY <1>1, <1>2, <1>3, <1>4, <1>5, <1>6, <1>7, <1>8 DEF SpecialNext

(* Price and time decide which resting order is filled, also among orders  *)
(* that a trigger or a price update put into the book.                     *)
THEOREM SpecialPriority == ASSUME Calm PROVE SpecialSpec /\ []NoVoid => PriceTimePriority
<1>1. SpecialInv /\ NoVoid /\ [SpecialNext]_specialVars =>
        [\A o \in OrderIds, n \in OrderIds \ voided :
            /\ cur.phase = "match" /\ InStack(stack, o) /\ InStack(stack, n)
            /\ stack[o].row.op = stack[n].row.op /\ SameBook(stack[o].row, stack[n].row)
            /\ order'[o].left # order[o].left
            => ~Before(stack[n].row, stack[o].row)]_vars
  BY OnlyFillsChange, NoBetterRests DEF SpecialInv, SoundInv, NoVoid
<1> QED BY <1>1, SpecialSound, PTL DEF SpecialSpec, PriceTimePriority
==============================================================================

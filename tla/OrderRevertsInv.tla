-------------------------- MODULE OrderRevertsInv --------------------------
(***************************************************************************)
(* The inductive invariant behind OrderReverts!RevertsUndo, on top of      *)
(* OrderBook's MirrorInv: what the transactions of an order come to.       *)
(***************************************************************************)
EXTENDS OrderReverts, OrderBookInv

BooksOK ==
    /\ own \in [OrderIds -> [Currencies -> Int]]
    /\ deal \in [matches -> [gross : Nat, fee : Nat]]

(* What the match m brought to the order o, and took from it. *)
BookedBy(m, o, c) ==
    (IF m[1] = o /\ GainedIn(order[m[1]]) = c THEN NetOf[m] ELSE 0)
    - (IF m[2] = o /\ GainedIn(order[m[1]]) = c THEN GrossOf[m] ELSE 0)

Booked(o, c) == SumFunctionOnSet([m \in matches |-> BookedBy(m, o, c)], matches)

HoldIn(o, c) == IF HeldIn(order[o]) = c THEN held[o] ELSE 0

(* The transactions of an order are what its matches brought and took, and *)
(* what is still held for it.                                              *)
OwnInv ==
    \A o \in OrderIds :
        /\ order[o].state = "NONE" => \A c \in Currencies : own[o][c] = 0
        /\ order[o].state \in {"NONE", "REVERT"} => held[o] = 0
        /\ order[o].state # "REVERT" =>
              \A c \in Currencies : own[o][c] + HoldIn(o, c) = Booked(o, c)

PairsOppose == \A m \in matches : m[1] # m[2] /\ order[m[1]].op # order[m[2]].op

Balanced ==
    \A c \in Currencies :
        /\ \A u \in Users : amount[u][c] + Holds(u, c) = Funds[u][c] + Traded(u, c)
        /\ fees[c] = FeesOf(c, LiveMatches)

MoneyInv == voided = {} /\ FeesWithin => PairsOppose /\ OwnInv /\ Balanced

RevertInv == MirrorInv /\ MatchingInv /\ BooksOK /\ MoneyInv

==============================================================================

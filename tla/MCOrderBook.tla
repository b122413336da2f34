----------------------------- MODULE MCOrderBook -----------------------------
(* Small instances of OrderBook for TLC. *)
EXTENDS OrderBookInv

CONSTANTS alice, bob

(* alice mostly sells and bob mostly buys; a fill lets each do the other. *)
MainFunds == [u \in Users |-> IF u = alice THEN [base |-> 6, quote |-> 2]
                                           ELSE [base |-> 0, quote |-> 8]]
MarketFunds == [u \in Users |-> IF u = alice THEN [base |-> 8, quote |-> 5]
                                             ELSE [base |-> 2, quote |-> 16]]
BotFunds == [u \in Users |-> [base |-> 4, quote |-> 8]]
RoundFunds == [u \in Users |-> IF u = alice THEN [base |-> 5, quote |-> 2]
                                            ELSE [base |-> 0, quote |-> 8]]

(* One user trades free of fees, the other pays half a unit per unit. *)
SomeFees == [u \in Users |-> IF u = alice THEN 0 ELSE 1]
NoFees == [u \in Users |-> 0]

==============================================================================

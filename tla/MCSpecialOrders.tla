---------------------------- MODULE MCSpecialOrders ----------------------------
(* A small instance of SpecialOrders for TLC: alice mostly sells, bob mostly buys. *)
EXTENDS SpecialOrders

CONSTANTS alice, bob

SpecialFunds == [u \in Users |-> IF u = alice THEN [base |-> 4, quote |-> 0]
                                              ELSE [base |-> 0, quote |-> 6]]
NoFees == [u \in Users |-> 0]
Limits == [op \in {"BUY", "SELL"} |-> IF op = "BUY" THEN 4 ELSE 2]

================================================================================

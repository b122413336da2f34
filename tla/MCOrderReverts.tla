----------------------------- MODULE MCOrderReverts -----------------------------
(* A small instance of OrderReverts for TLC. *)
EXTENDS MCOrderBook, OrderRevertsInv
================================================================================

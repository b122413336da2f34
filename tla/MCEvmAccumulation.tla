-------------------------- MODULE MCEvmAccumulation --------------------------
(* Small instances of EvmAccumulation for TLC. *)
EXTENDS EvmAccumulation, TLC

CONSTANTS d1, d2, d3, u1, u2, k1, k2, a1, s1, m1, m2

(* d2 and d3 are tokens of one wallet, d1 a coin of another one. *)
TwoWallets == [d \in Deposits |-> IF d = d1 THEN u1 ELSE u2]
OneEach == [d \in Deposits |-> 1]

==============================================================================

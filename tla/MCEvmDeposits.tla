---------------------------- MODULE MCEvmDeposits ----------------------------
(* Small instances of EvmDeposits for TLC. *)
EXTENDS EvmDeposits, TLC

CONSTANTS d1, d2, d3, u1, u2, k1, k2, a1, s1, s2

(* d1 and d2 go to one coin wallet, d3 is a token's. *)
TwoWallets == [d \in Deposits |-> IF d = d3 THEN u2 ELSE u1]
OneEach == [d \in Deposits |-> 1]
Unequal == [d \in Deposits |-> IF d = d1 THEN 1 ELSE 2]

(* A behaviour is about scans that overlap or about the administrator.     *)
VARIABLE about

AboutInit == ChainInit /\ about \in {"scans", "administrator"}
AboutSpec == AboutInit /\ [][Next /\ UNCHANGED about]_<<depositVars, about>> /\ Fairness

(* In the first nothing is forced or reverted, in the second one process   *)
(* scans.                                                                  *)
StaysWithIt ==
    IF about = "scans"
    THEN \A a \in Actors : task[a].op \notin {"force", "revert"}
    ELSE ~scanner[s2].on /\ lock = scanner[s1].on

==============================================================================

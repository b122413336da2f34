---------------------------- MODULE MCBtcDeposits ----------------------------
(* Small instances of BtcDeposits for TLC. *)
EXTENDS BtcDeposits, TLC

CONSTANTS d1, d2, d3, u1, u2, s1, a1

(* d1 and d2 go to one address, d3 to another one. *)
TwoWallets == [d \in Deposits |-> IF d = d3 THEN u2 ELSE u1]
OneEach == [d \in Deposits |-> 1]

(* Two deposits to one address, or one of them and the other one. *)
TwoOfThem == {{d1, d2}, {d1, d3}}

(* In a behaviour the administrator redirects rows and blocks wallets, or  *)
(* forces rows.                                                            *)
VARIABLE about

AboutInit == BtcInit /\ about \in {"external", "force"}
AboutSpec == AboutInit /\ [][BtcNext /\ UNCHANGED about]_<<vars, about>> /\ BtcFairness

StaysWithIt ==
    /\ \A a \in Actors : task[a].op \in {"external", "force"} => task[a].op = about
    /\ about = "force" => block[u1] = "no"

==============================================================================

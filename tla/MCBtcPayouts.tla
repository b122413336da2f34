---------------------------- MODULE MCBtcPayouts ----------------------------
(* Small instances of BtcPayouts for TLC. *)
EXTENDS BtcPayouts, TLC

CONSTANTS r1, r2, r3, r4, u1, u2, a1, a2, c1, w1, w2, b1, b2

(* u1 and u2 are one user's accounts in the two currencies. *)
Accounts == [r \in Requests |-> IF r \in Elsewhere THEN u2 ELSE u1]
SomeAmounts == [r \in Requests |-> IF r = r2 THEN 3 ELSE 2]
(* A behaviour is about one of the two. *)
EitherCurrency == {[u \in Users |-> IF u = v THEN 6 ELSE 0] : v \in Users}

==============================================================================

---------------------------- MODULE MCEvmPayouts ----------------------------
(* Small instances of EvmPayouts for TLC. *)
EXTENDS EvmPayoutsInv, TLC

CONSTANTS r1, r2, r3, r4, u1, u2, u3, a1, a2, c1, c2, w1, w2

Owners == [r \in Requests |-> CASE r \in {r1, r2} -> u1 [] r = r3 -> u2 [] OTHER -> u3]
SomeAmounts == [r \in Requests |-> 2]

(* One user has the money for what is asked: a behaviour is about u1's     *)
(* two requests, u2's or u3's.                                             *)
OneUsersFunds == {[u \in Users |-> IF u = v THEN 4 ELSE 0] : v \in Users}

(* u1's two requests meet each other on their way to the chain: they are   *)
(* confirmed and approved in one web process, do not expire, and meet both *)
(* workers and both checkers.  u2's request and u3's, each alone, meet     *)
(* every handler, in two processes at a time.                              *)
TwoOnTheirWay ==
    /\ expired \cap {r1, r2} = {}
    /\ \A a \in Actors :
           task[a].id \in {r1, r2} => /\ a # a2
                                     /\ task[a].op \in {"confirm", "approve"} \cup Settles

(* They are alike, and so are the workers and the checkers. *)
SameTasks == Permutations({r1, r2}) \cup Permutations({w1, w2}) \cup Permutations({c1, c2})

(* Two web processes run the same handlers. *)
SameHandlers == Permutations({a1, a2})

==============================================================================

------------------------------- MODULE Payout -------------------------------
(***************************************************************************)
(* What the withdrawal part promises its users, whatever its processes do: *)
(* the amount of a request is taken when it is made, and then it is either *)
(* paid out, once, or given back, once, and never both.                    *)
(***************************************************************************)
EXTENDS Naturals

CONSTANTS Requests, Users, Owner, Amount, Funds

VARIABLES
    account,   \* what each user has
    settled,   \* "NONE", "PENDING", "COMPLETED" or "CANCELED", by request
    paid       \* how many payments of the request the chain holds

vars == <<account, settled, paid>>

Init ==
    /\ account \in Funds
    /\ settled = [r \in Requests |-> "NONE"]
    /\ paid = [r \in Requests |-> 0]

Settle(r, from, to) == settled[r] = from /\ settled' = [settled EXCEPT ![r] = to]

Ask(r) ==
    /\ Settle(r, "NONE", "PENDING")
    /\ account[Owner[r]] >= Amount[r]
    /\ account' = [account EXCEPT ![Owner[r]] = @ - Amount[r]]
    /\ UNCHANGED paid

(* One transaction may pay several requests. *)
Pay(S) ==
    /\ \A r \in S : settled[r] = "PENDING" /\ paid[r] = 0
    /\ paid' = [r \in Requests |-> IF r \in S THEN 1 ELSE paid[r]]
    /\ UNCHANGED <<account, settled>>

Complete(r) ==
    /\ paid[r] = 1
    /\ Settle(r, "PENDING", "COMPLETED")
    /\ UNCHANGED <<account, paid>>

GiveBack(r) ==
    /\ paid[r] = 0
    /\ Settle(r, "PENDING", "CANCELED")
    /\ account' = [account EXCEPT ![Owner[r]] = @ + Amount[r]]
    /\ UNCHANGED paid

Next ==
    \/ \E r \in Requests : Ask(r) \/ Complete(r) \/ GiveBack(r)
    \/ \E S \in SUBSET Requests : Pay(S)

Spec == Init /\ [][Next]_vars

==============================================================================

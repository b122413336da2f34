---------------------------- MODULE DepositLedger ----------------------------
(***************************************************************************)
(* What deposits promise the user and the exchange: a transfer that the    *)
(* chain carries is entered at most once, its amount is credited at most   *)
(* once, and is charged back at most once and only from money that is      *)
(* there.  It says nothing of scanning, scoring or accumulation.           *)
(***************************************************************************)
EXTENDS Integers

CONSTANTS Deposits, Wallets, Wallet, Amount

VARIABLES
    arrived,    \* deposits the chain carries
    entered,    \* deposits with a row in the database
    credited,   \* those whose amount was added to the balance
    charged,    \* those whose amount was taken back
    balance     \* of each wallet's user, in the wallet's currency

vars == <<arrived, entered, credited, charged, balance>>

Init ==
    /\ arrived = {} /\ entered = {} /\ credited = {} /\ charged = {}
    /\ balance = [w \in Wallets |-> 0]

Arrive(d) ==
    /\ d \notin arrived
    /\ arrived' = arrived \cup {d}
    /\ UNCHANGED <<entered, credited, charged, balance>>

(* One scan may enter several. *)
Enter(S) ==
    /\ S \subseteq arrived \ entered
    /\ entered' = entered \cup S
    /\ UNCHANGED <<arrived, credited, charged, balance>>

Credit(d) ==
    /\ d \in entered \ credited
    /\ credited' = credited \cup {d}
    /\ balance' = [balance EXCEPT ![Wallet[d]] = @ + Amount[d]]
    /\ UNCHANGED <<arrived, entered, charged>>

ChargeBack(d) ==
    /\ d \in entered \ charged
    /\ balance[Wallet[d]] >= Amount[d]
    /\ charged' = charged \cup {d}
    /\ balance' = [balance EXCEPT ![Wallet[d]] = @ - Amount[d]]
    /\ UNCHANGED <<arrived, entered, credited>>

Next ==
    \/ \E d \in Deposits : Arrive(d) \/ Credit(d) \/ ChargeBack(d)
    \/ \E S \in SUBSET Deposits : Enter(S)

Spec == Init /\ [][Next]_vars

=============================================================================

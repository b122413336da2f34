---------------------------- MODULE BtcDepositsInv ----------------------------
(***************************************************************************)
(* Inductive invariants of BtcDeposits.                                    *)
(***************************************************************************)
EXTENDS BtcDeposits, WalletTransactionsInv

Moves == [kind : {"accumulate", "external"}, row : Rows]
Transfers == {Transfer(d) : d \in Deposits}

(* Blocks hold users' transfers, each once, and accumulations that were    *)
(* sent; only those are recorded.                                          *)
ChainSound ==
    /\ coming \subseteq Deposits /\ \A d \in coming : Transfer(d) \notin Mined
    /\ blocks \in Seq(Transfers \cup Moves) /\ last \in 0 .. Len(blocks)
    /\ deferred \subseteq Rows
    /\ pool \subseteq Moves /\ recorded \subseteq Moves \cap (pool \cup Mined)

WorkSound ==
    /\ work \in [step : {"idle", "next", "record", "mark"}, pass : {1, 2},
                 todo : SUBSET Moves, tx : Moves \cup {NoTx}]
    /\ work.step \in {"record", "mark"} => work.tx \in Moves \cap (pool \cup Mined)
    /\ work.step = "idle" => work.todo = {}

(* What is sent, or about to be, is sent for a row. *)
MovesHaveRows == \A t \in Moves : t \in pool \cup Mined \cup work.todo => Exists(t.row)

(* Rows are made by the scan alone. *)
NoInserts == \A a \in Actors : task[a].op # "insert"

(* Whatever races. *)
SoundInv == RowsSound /\ ChainSound /\ WorkSound /\ MovesHaveRows /\ NoInserts

(* What the chain carries when row r is in state s. *)
Evidence(r, s, mined) ==
    /\ s = "ACCUMULATED" => \E t \in Moves \cap mined : t.row = r
    /\ s = "EXTERNAL_ACCUMULATED" => \E t \in Moves \cap mined : t.row = r /\ t.kind = "external"

(* No handler has loaded a row that is about to be sent. *)
TodoAlone == \A t \in work.todo, a \in Actors : task[a].id # t.row

(* What is sent for a row with an external address, also in the copy of a  *)
(* handler, goes to an external address.                                   *)
AddressOK ==
    /\ \A t \in Moves :
           t \in pool \cup Mined \cup work.todo /\ row[t.row].external => t.kind = "external"
    /\ \A t \in Moves, a \in Actors :
           t \in pool \cup Mined /\ Working(task[a]) /\ task[a].id = t.row /\ task[a].obj.external
               => t.kind = "external"

EvidenceOK ==
    /\ \A r \in Rows : Evidence(r, row[r].state, Mined)
    /\ \A a \in Actors : Working(task[a]) => Evidence(task[a].id, task[a].obj.state, Mined)

(* Needs that handlers do not overlap and that rows are not redirected     *)
(* once they are sent. *)
SettledInv == TodoAlone /\ AddressOK /\ EvidenceOK

===============================================================================

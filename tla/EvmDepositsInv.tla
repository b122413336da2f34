---------------------------- MODULE EvmDepositsInv ----------------------------
(***************************************************************************)
(* Inductive invariants of EvmDeposits.                                    *)
(***************************************************************************)
EXTENDS EvmDeposits, WalletTransactionsInv

Transfers == {Transfer(d) : d \in Deposits}
OurTxs == {t \in Tx : t.kind # "deposit"}

(* The chain, the last processed block, the scans and the queues: a scan   *)
(* goes through blocks that are there, from one that was last before; what *)
(* is to be looked at is in a block.                                       *)
ChainSound ==
    /\ blocks \in Seq(Transfers \cup OurTxs) /\ Len(blocks) <= MaxBlocks
    /\ last \in 0 .. Len(blocks) /\ lock \in BOOLEAN
    /\ scanner \in [Scanners -> Scan]
    /\ \A s \in Scanners :
           scanner[s].on => scanner[s].from <= last /\ scanner[s].to <= Len(blocks)
    /\ jobs \subseteq Range(blocks)
    /\ scoring \subseteq Rows /\ givenUp \subseteq Deposits

(* The task that is to insert a row does it for a transfer of the chain. *)
InsertsSound ==
    \A a \in Actors :
        Inserting(task[a]) =>
            \E d \in Deposits : d \in Arrived /\ task[a].id = <<d, 1>> /\ d \notin Failed

(* Whatever races. *)
SoundInv == RowsSound /\ ChainSound /\ InsertsSound

===============================================================================

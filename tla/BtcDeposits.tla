----------------------------- MODULE BtcDeposits -----------------------------
(***************************************************************************)
(* Deposits on Bitcoin and their accumulation.  One worker process serves  *)
(* the btc queue, so that the scan, the scoring, the accumulation and the  *)
(* deferred deposits exclude each other; only administrators run beside    *)
(* it.  The scan is one database transaction: the rows of all new blocks   *)
(* and the number of the last one are there together or not at all.  The   *)
(* accumulation is not: it sends, records and marks row by row.            *)
(*                                                                         *)
(* A block holds one transaction, which pays one of our addresses, or our  *)
(* accumulation.  An output is spent once, which the node sees to.         *)
(***************************************************************************)
EXTENDS WalletTransactions, Sequences

CONSTANTS
    Service,      \* the process of the btc queue
    Admins,       \* web processes of the administrator
    Small,        \* below the limit of deposits
    BelowFee,     \* deposits that the transfer fee may take whole
    Arrivals,     \* the sets of transfers that users may make in a behaviour
    MaxBlocks,    \* bound: length of the chain
    BtcRaces      \* what the code leaves to timing (BtcRaceKinds)

(* "redirect": a row gets its external address while or after it was sent. *)
BtcRaceKinds == {"redirect"}

ASSUME BtcDepositAssumption ==
    /\ Service \in Actors /\ Admins \subseteq Actors \ {Service}
    /\ Copies = 1 /\ MaxBlocks \in Nat
    /\ Arrivals \subseteq SUBSET Deposits
    /\ Small \subseteq Deposits /\ BelowFee \subseteq Deposits
    /\ BtcRaces \subseteq BtcRaceKinds

VARIABLES
    coming,     \* transfers that users are going to make
    blocks,     \* the chain: the transaction of each block
    last,       \* LastProcessedBlock
    deferred,   \* process_deffered_deposit tasks
    pool,       \* accumulations the node has taken and no block holds
    recorded,   \* AccumulationTransactions
    completed,  \* those in STATE_COMPLETED
    work        \* the run of accumulate

chainVars == <<coming, blocks, last, deferred>>
sentVars == <<pool, recorded, completed>>
vars == <<rowVars, chainVars, sentVars, work>>

Tx == [kind : {"deposit", "accumulate", "external"}, row : Rows]
Transfer(d) == [kind |-> "deposit", row |-> <<d, 1>>]

(* todo: the rows of this pass, with the kind of address the loaded object *)
(* has.                                                                    *)
NoTx == Transfer("none")
NoWork == [step |-> "idle", pass |-> 1, todo |-> {}, tx |-> NoTx]

BtcInit ==
    /\ RowInit
    /\ coming \in Arrivals
    /\ blocks = << >> /\ last = 0 /\ deferred = {}
    /\ pool = {} /\ recorded = {} /\ completed = {}
    /\ work = NoWork

Mined == {blocks[i] : i \in DOMAIN blocks}
Sent(r) == {t \in pool \cup Mined : t.kind # "deposit" /\ t.row = r}
Unspent(r) == Transfer(r[1]) \in Mined /\ Sent(r) = {}
(* No administrator's handler has loaded one of them (see "together").     *)
Alone(S) == "together" \in Races \/ \A r \in S : Free(r)
(* Nothing of the btc queue is running. *)
AtRest == Idle(Service) /\ work.step = "idle"

UserTransfers ==
    \E d \in coming :
        /\ Len(blocks) < MaxBlocks
        /\ coming' = coming \ {d}
        /\ blocks' = Append(blocks, Transfer(d))
        /\ UNCHANGED <<rowVars, last, deferred, sentVars, work>>

MineAccumulation ==
    \E t \in pool :
        /\ Len(blocks) < MaxBlocks
        /\ blocks' = Append(blocks, t) /\ pool' = pool \ {t}
        /\ UNCHANGED <<rowVars, coming, last, deferred, recorded, completed, work>>

-----------------------------------------------------------------------------
(* process_new_blocks.                                                     *)

NewTransactions == {blocks[i] : i \in last + 1 .. Len(blocks)}

(* What check_tx_for_deposit makes a row of; what is scored is deferred.   *)
ToEnter == {t.row : t \in {u \in NewTransactions : u.kind = "deposit" /\ u.row[1] \notin Small}}
EntersNow == {r \in ToEnter : r[1] \notin Scored /\ ~Exists(r)}

(* Accumulations it completes: those that are recorded and pending.        *)
ToComplete == {t \in NewTransactions : t \in recorded \ completed}

(* The amount of one of them is taken whole by the deposit fee: an         *)
(* assertion fails and the whole scan is rolled back, each time.           *)
ScanRaises == \E r \in EntersNow : Accepted(r) /\ r[1] \in UnderFee

Scanned(r) ==
    CASE r \in EntersNow /\ Accepted(r) -> [Created EXCEPT !.state = "WAITING_FOR_KYT_APPROVE"]
      [] r \in EntersNow /\ ~Accepted(r) -> [Created EXCEPT !.state = "VERIFICATION_FAILED"]
      [] r \in {t.row : t \in ToComplete} /\ ~Settled(r) -> [row[r] EXCEPT !.state = Accumulated(r)]
      [] OTHER -> row[r]

ProcessNewBlocks ==
    /\ AtRest /\ last < Len(blocks) /\ ~ScanRaises
    /\ Alone({t.row : t \in ToComplete})
    /\ row' = [r \in Rows |-> Scanned(r)]
    /\ transaction' = [r \in Rows |-> IF r \in EntersNow /\ Accepted(r) THEN "PENDING" ELSE transaction[r]]
    /\ completed' = completed \cup ToComplete
    /\ deferred' = deferred \cup {r \in ToEnter : r[1] \in Scored}
    /\ last' = Len(blocks)
    /\ UNCHANGED <<balance, block, task, troubles, ledgerVars, coming, blocks,
                   pool, recorded, work>>

(* process_deffered_deposit asks for the score, blocks the wallet if it is *)
(* low, and then calls process_deposit with an argument too many: no row   *)
(* is ever made.  An error of the platform ends it as well.                *)
DeferredDeposit ==
    \E r \in deferred :
        /\ AtRest
        /\ deferred' = deferred \ {r}
        /\ \/ block' = IF r[1] \in LowScore THEN [block EXCEPT ![WalletOf(r)] = "all"] ELSE block
           \/ UNCHANGED block
        /\ UNCHANGED <<row, transaction, balance, task, troubles, ledgerVars,
                       coming, blocks, last, sentVars, work>>

(* check_for_scoring. *)
CheckForScoring ==
    \E r \in WaitingForKyt :
        /\ AtRest
        /\ BeginScore(Service, r)
        /\ UNCHANGED <<chainVars, sentVars, work>>

-----------------------------------------------------------------------------
(* accumulate: a pass over the oldest ready row of each wallet and, only   *)
(* if there was one, a pass over the rows with an external address.        *)

Position(r) == CHOOSE i \in DOMAIN blocks : blocks[i] = Transfer(r[1])

Oldest ==
    {r \in ReadyForAccumulation :
        \A q \in ReadyForAccumulation :
            WalletOf(q) = WalletOf(r) => Position(r) <= Position(q)}

(* A plausible bug: the external address is not looked at. *)
SpendingToUs(S) == {[kind |-> "accumulate", row |-> r] : r \in {q \in S : Unspent(q)}}

(* get_unspent, the address: a row without its output is passed over.      *)
Spending(S) ==
    {[kind |-> IF row[r].external THEN "external" ELSE "accumulate", row |-> r]
        : r \in {q \in S : Unspent(q)}}

Works(x) == work' = x

StartAccumulate ==
    /\ AtRest /\ Oldest # {} /\ Alone(Oldest)
    /\ Works([NoWork EXCEPT !.step = "next", !.todo = Spending(Oldest)])
    /\ UNCHANGED <<rowVars, chainVars, sentVars>>

NextPass ==
    /\ work.step = "next" /\ work.todo = {}
    /\ Alone(ExternalReady)
    /\ Works(IF work.pass = 1 /\ ExternalReady # {}
             THEN [work EXCEPT !.pass = 2, !.todo = Spending(ExternalReady)]
             ELSE NoWork)
    /\ UNCHANGED <<rowVars, chainVars, sentVars>>

SendAccumulation ==
    \E t \in work.todo :
        /\ work.step = "next"
        /\ pool' = pool \cup {t}
        /\ Works([work EXCEPT !.step = "record", !.todo = @ \ {t}, !.tx = t])
        /\ UNCHANGED <<rowVars, chainVars, recorded, completed>>

AmountTooLow ==
    \E t \in work.todo :
        /\ work.step = "next" /\ t.row[1] \in BelowFee
        /\ SetsState(t.row, "BALANCE_TOO_LOW")
        /\ Works([work EXCEPT !.todo = @ \ {t}])
        /\ UNCHANGED <<besideRow, chainVars, sentVars>>

RecordAccumulation ==
    /\ work.step = "record"
    /\ recorded' = recorded \cup {work.tx}
    /\ Works([work EXCEPT !.step = "mark"])
    /\ UNCHANGED <<rowVars, chainVars, pool, completed>>

MarkInProgress ==
    /\ work.step = "mark"
    /\ SetsState(work.tx.row, "ACCUMULATION_IN_PROGRESS")
    /\ Works([work EXCEPT !.step = "next", !.tx = NoTx])
    /\ UNCHANGED <<besideRow, chainVars, sentVars>>

(* The node refuses or does not answer, or the process dies. *)
AccumulateDies ==
    /\ work.step # "idle" /\ troubles < MaxTroubles
    /\ troubles' = troubles + 1
    /\ Works(NoWork)
    /\ UNCHANGED <<row, transaction, balance, block, task, ledgerVars, chainVars, sentVars>>

Accumulate ==
    \/ NextPass \/ SendAccumulation \/ AmountTooLow \/ RecordAccumulation \/ MarkInProgress

-----------------------------------------------------------------------------
(* The administrator, and the steps of the handlers. *)

AdminActs(a) ==
    /\ Administrate(a)
    /\ "together" \in Races \/ \A t \in work.todo \cup {work.tx} : task'[a].id # t.row
    /\ "redirect" \in BtcRaces \/ task'[a].op # "external" \/ Sent(task'[a].id) = {}
    /\ UNCHANGED <<chainVars, sentVars, work>>

RunHandler(a) == Handle(a) /\ UNCHANGED <<chainVars, sentVars, work>>
Crash(a) == Die(a) /\ UNCHANGED <<chainVars, sentVars, work>>
WalletBlocks == (BlockWallet \/ LiftBlock) /\ UNCHANGED <<chainVars, sentVars, work>>

BtcNext ==
    \/ UserTransfers \/ MineAccumulation
    \/ ProcessNewBlocks \/ DeferredDeposit \/ CheckForScoring
    \/ StartAccumulate \/ Accumulate \/ AccumulateDies
    \/ \E a \in Admins : AdminActs(a)
    \/ \E a \in Actors : RunHandler(a) \/ Crash(a)
    \/ WalletBlocks

BtcSpec == BtcInit /\ [][BtcNext]_vars

(* beat enqueues each of the periodic tasks again and again and the worker *)
(* takes what is in its queue in order, so none of them waits for ever     *)
(* while the worker is at rest again and again; an administrator leaves a  *)
(* row alone again and again.                                              *)
BtcFairness ==
    /\ WF_vars(MineAccumulation) /\ SF_vars(Accumulate)
    /\ SF_vars(ProcessNewBlocks) /\ SF_vars(CheckForScoring) /\ SF_vars(StartAccumulate)
    /\ \A a \in Actors : WF_vars(RunHandler(a))
BtcFairSpec == BtcSpec /\ BtcFairness

-----------------------------------------------------------------------------
(* Properties.                                                             *)

(* The deposits of Bitcoin keep the promise of DepositLedger too: each     *)
(* transfer is entered, credited and charged back at most once, with       *)
(* crashes, rechecks, forced and reverted rows (check_tx_for_deposit,      *)
(* check_scoring, topup_tx, _revert).                                      *)
Ledger == INSTANCE DepositLedger WITH
    arrived <- {d \in Deposits : Transfer(d) \in Mined},
    entered <- {d \in Deposits : Exists(<<d, 1>>)},
    credited <- {d \in Deposits : credits[<<d, 1>>] > 0},
    charged <- {d \in Deposits : charges[<<d, 1>>] > 0}
LedgerPromise == Ledger!Spec

(* A row is accumulated only after the blockchain carries what was sent    *)
(* for it, and "External accumulated" only if it went to the external      *)
(* address (check_tx_for_deposit, set_accumulated).                        *)
SettledWentOut ==
    \A r \in Rows :
        /\ row[r].state = "ACCUMULATED" => Sent(r) \cap Mined # {}
        /\ row[r].state = "EXTERNAL_ACCUMULATED" =>
               \E t \in Sent(r) \cap Mined : t.kind = "external"

(* The worker died after it sent an older row of the wallet and before it  *)
(* marked it: that row is found first for ever, without its output.        *)
Stuck(w) == \E r \in Rows : WalletOf(r) = w /\ Ready(r) /\ Sent(r) # {}

(* What was credited leaves the user's address once administrators leave   *)
(* it alone, unless the fee takes it all, the wallet is blocked or a dead  *)
(* run left an older row of it ready (accumulate, accumulate_deposit).     *)
CreditedLeave ==
    <>[](\A a \in Admins : Idle(a)) =>
        \A r \in Rows :
            credits[r] > 0 ~>
                \/ Sent(r) # {} \/ row[r].state = "BALANCE_TOO_LOW"
                \/ block[WalletOf(r)] = "all" \/ Stuck(WalletOf(r))

==============================================================================

----------------------------- MODULE EvmDeposits -----------------------------
(***************************************************************************)
(* Deposits on an EVM chain.  process_new_blocks scans the blocks since    *)
(* the last processed one under a lock and enqueues a task per transaction *)
(* to an address of ours; the task makes a WalletTransactions row unless   *)
(* the transfer has one; check_balances enqueues the rows to be scored.    *)
(* A block holds one transaction.                                          *)
(***************************************************************************)
EXTENDS WalletTransactions, Sequences, SequencesExt

CONSTANTS
    Scanners,     \* processes of the <currency>_new_blocks queue
    Depositors,   \* processes of the <currency>_deposits queue
    Checkers,     \* processes of the <currency>_check_balances queue
    Admins,       \* web processes of the administrator
    Failed,       \* transfers that fail on the chain
    Delta,        \* DEFAULT_BLOCK_ID_DELTA
    MaxBlocks,    \* bound: length of the chain
    MaxNonce,     \* bound: transactions of one sender
    MaxPrice,     \* bound: gas prices
    ChainRaces    \* what the code leaves to timing (ChainRaceKinds)

(* "lock":    a scan may be started while another one is running.          *)
(* "rescan":  a scan may die on its way.                                   *)
(* "twins":   a transaction's task may start while another one is on it.   *)
(* "loss":    a block the node does not return is skipped, and so is a     *)
(*            backlog of more than Delta blocks.                           *)
(* "overdue": check_balances runs while tasks or transactions of an        *)
(*            earlier run are left.                                        *)
(* "late":    the task that waits for a gas transfer's receipt may write    *)
(*            the row after the scanner has completed the transfer.        *)
(* "sweep":   the dust collector takes gas that is waiting for its use.    *)
(* "early":   a block may hold a transaction before the tasks at its row   *)
(*            have written what they know of it.                           *)
ChainRaceKinds == {"lock", "rescan", "twins", "loss", "overdue", "late", "sweep",
                   "early"}

(* "accumulate" goes to our keeper or safe, "external" to an address that  *)
(* an administrator gave.                                                  *)
TxKinds == {"deposit", "gas", "accumulate", "external", "dust"}
Tx == [kind : TxKinds, row : Rows, nonce : 0 .. MaxNonce, price : 0 .. MaxPrice]

(* The user's transfer d; the row is the one it is meant to have. *)
Transfer(d) == [kind |-> "deposit", row |-> <<d, 1>>, nonce |-> 0, price |-> 0]

ASSUME ChainAssumption ==
    /\ Delta \in Nat \ {0} /\ MaxBlocks \in Nat /\ MaxNonce \in Nat /\ MaxPrice \in Nat
    /\ Depositors \subseteq Actors /\ Checkers \subseteq Actors /\ Admins \subseteq Actors
    /\ Failed \subseteq Deposits
    /\ ChainRaces \subseteq ChainRaceKinds

VARIABLES
    blocks,    \* the chain: the transaction of each block
    last,      \* LastProcessedBlock
    lock,      \* cache: is <currency>_blocks set
    scanner,   \* the scan each scanner runs: idle, or the blocks it goes through
    jobs,      \* the <currency>_deposits queue: transactions to look at
    scoring,   \* check_deposit_scoring tasks: rows to score
    givenUp    \* history: transfers no task will come back to

scanVars == <<blocks, last, lock, scanner, jobs, givenUp>>

Scan == [on : BOOLEAN, from : Nat, to : Nat]
NoScan == [on |-> FALSE, from |-> 0, to |-> 0]

ChainTypeInv ==
    /\ blocks \in Seq(Tx) /\ Len(blocks) <= MaxBlocks
    /\ last \in Nat /\ lock \in BOOLEAN
    /\ scanner \in [Scanners -> Scan]
    /\ jobs \subseteq Tx /\ scoring \subseteq Rows /\ givenUp \subseteq Deposits

ChainInit ==
    /\ RowInit
    /\ blocks = << >> /\ last = 0 /\ lock = FALSE
    /\ scanner = [s \in Scanners |-> NoScan]
    /\ jobs = {} /\ scoring = {} /\ givenUp = {}

Arrived == {d \in Deposits : Transfer(d) \in Range(blocks)}
Entered == {d \in Deposits : \E n \in 1 .. Copies : Exists(<<d, n>>)}

-----------------------------------------------------------------------------
(* The chain and its scanner.                                              *)

UserTransfers ==
    \E d \in Deposits \ Arrived :
        /\ Len(blocks) < MaxBlocks
        /\ blocks' = Append(blocks, Transfer(d))
        /\ UNCHANGED <<rowVars, last, lock, scanner, jobs, givenUp, scoring>>

(* memcache_lock: a scan that finds the key set does nothing, and then     *)
(* deletes the key as if it had set it.                                    *)
StartScan(s) ==
    /\ ~scanner[s].on
    /\ "lock" \in ChainRaces \/ \A t \in Scanners : ~scanner[t].on
    /\ IF lock
       THEN lock' = FALSE /\ UNCHANGED scanner
       ELSE /\ last < Len(blocks)
            /\ lock' = TRUE
            /\ scanner' = [scanner EXCEPT ![s] = [on |-> TRUE, from |-> last, to |-> Len(blocks)]]
    /\ UNCHANGED <<rowVars, blocks, last, jobs, givenUp, scoring>>

(* A plausible bug: the cut is counted from the block after the last one. *)
ToProcessFewer(s) ==
    LET n == scanner[s].to
        cut == scanner[s].from + Delta - 2
    IN  scanner[s].from .. IF n < cut THEN n ELSE cut

(* The last processed block is read again; a long backlog is cut. *)
ToProcess(s) ==
    LET n == scanner[s].to
        cut == scanner[s].from + Delta - 1
    IN  scanner[s].from .. IF n < cut THEN n ELSE cut

(* process_block: only transactions to an address of ours get a task. *)
JobsOf(ids) == {t \in {blocks[i] : i \in ids \ {0}} : t.kind # "external"}

(* Only with "loss" may a backlog outgrow Delta or a block be skipped. *)
ProcessBlocks(s) ==
    \E skipped \in SUBSET ToProcess(s) :
        /\ scanner[s].on
        /\ \/ "loss" \in ChainRaces
           \/ skipped = {} /\ scanner[s].to - scanner[s].from < Delta
        /\ jobs' = jobs \cup JobsOf(ToProcess(s) \ skipped)
        /\ last' = IF last < scanner[s].to THEN scanner[s].to ELSE last
        /\ lock' = FALSE
        /\ scanner' = [scanner EXCEPT ![s] = NoScan]
        /\ UNCHANGED <<rowVars, blocks, givenUp, scoring>>

(* The scan dies on its way: what it has enqueued stays, last does not move. *)
ScanDies(s) ==
    \E n \in ToProcess(s) :
        /\ scanner[s].on /\ "rescan" \in ChainRaces /\ troubles < MaxTroubles
        /\ jobs' = jobs \cup JobsOf(scanner[s].from .. n)
        /\ lock' = FALSE
        /\ scanner' = [scanner EXCEPT ![s] = NoScan]
        /\ troubles' = troubles + 1
        /\ UNCHANGED <<row, transaction, balance, block, task, ledgerVars, blocks, last,
                       givenUp, scoring>>

-----------------------------------------------------------------------------
(* The tasks of the deposits queue.                                        *)

GivesUp(S) == givenUp' = givenUp \cup (S \ (Failed \cup Entered))

Inserts(a, t) ==
    task' = [task EXCEPT ![a] = [op |-> "insert", id |-> t.row, obj |-> NoRow, step |-> "create"]]

(* A plausible bug: that the transfer has a row is not looked up. *)
LooksAtAny(a, t) ==
    \/ t.row[1] \in Failed /\ UNCHANGED <<task, givenUp>>
    \/ /\ t.row[1] \notin Failed
       /\ IF block[WalletOf(t.row)] = "all"
          THEN GivesUp({t.row[1]}) /\ UNCHANGED task
          ELSE Inserts(a, t) /\ UNCHANGED givenUp

(* A failed transfer, one to a blocked wallet and one that has a row are   *)
(* left alone; no task comes back to them.                                 *)
LooksAt(a, t) ==
    \/ /\ t.row[1] \in Failed \cup Entered
       /\ UNCHANGED <<task, givenUp>>
    \/ /\ t.row[1] \notin Failed \cup Entered
       /\ IF block[WalletOf(t.row)] = "all"
          THEN GivesUp({t.row[1]}) /\ UNCHANGED task
          ELSE Inserts(a, t) /\ UNCHANGED givenUp

ProcessDeposit(a) ==
    \E t \in jobs :
        /\ t.kind = "deposit" /\ Idle(a)
        /\ "twins" \in ChainRaces \/ \A b \in Actors : task[b].id # t.row
        /\ jobs' = jobs \ {t}
        /\ LooksAt(a, t)
        /\ UNCHANGED <<row, transaction, balance, block, troubles, ledgerVars,
                       blocks, last, lock, scanner, scoring>>

(* A worker dies with a task that it has taken and not begun. *)
JobDies ==
    \E t \in jobs :
        /\ "crash" \in Races /\ troubles < MaxTroubles
        /\ jobs' = jobs \ {t}
        /\ GivesUp(IF t.kind = "deposit" THEN {t.row[1]} ELSE {})
        /\ troubles' = troubles + 1
        /\ UNCHANGED <<row, transaction, balance, block, task, ledgerVars,
                       blocks, last, lock, scanner, scoring>>

-----------------------------------------------------------------------------
(* Scoring.                                                                *)

(* The part of check_balances that is about scores. *)
CheckScores ==
    /\ ~(WaitingForKyt \subseteq scoring)
    /\ "overdue" \in ChainRaces \/ \A a \in Actors : task[a].op # "score"
    /\ scoring' = scoring \cup WaitingForKyt
    /\ UNCHANGED <<rowVars, scanVars>>

CheckDepositScoring(a) ==
    \E r \in scoring :
        /\ Idle(a)
        /\ scoring' = scoring \ {r}
        /\ \/ BeginScore(a, r)
           \/ row[r].state \notin KytStates /\ UNCHANGED rowVars
        /\ UNCHANGED scanVars

RunHandler(a) == Handle(a) /\ UNCHANGED <<scanVars, scoring>>
Crash(a) ==
    /\ Die(a)
    /\ GivesUp(IF task[a].op = "insert" THEN {task[a].id[1]} ELSE {})
    /\ UNCHANGED <<blocks, last, lock, scanner, jobs, scoring>>
AdminActs(a) == Administrate(a) /\ UNCHANGED <<scanVars, scoring>>
WalletBlocks == (BlockWallet \/ LiftBlock) /\ UNCHANGED <<scanVars, scoring>>

Credits ==
    \/ UserTransfers
    \/ \E s \in Scanners : StartScan(s) \/ ProcessBlocks(s) \/ ScanDies(s)
    \/ \E a \in Depositors : ProcessDeposit(a)
    \/ JobDies
    \/ \E a \in Checkers : CheckDepositScoring(a)
    \/ \E a \in Admins : AdminActs(a)
    \/ \E a \in Actors : RunHandler(a) \/ Crash(a)
    \/ WalletBlocks

depositVars == <<rowVars, scanVars, scoring>>
Next == Credits \/ CheckScores
Spec == ChainInit /\ [][Next]_depositVars

(* Each process goes on with its scan or its handler and takes what waits  *)
(* in its queue, beat enqueues check_balances, and since a queue is served *)
(* in order a row that is enqueued to be scored again and again is scored  *)
(* (strong fairness); nobody has to make a transfer or administrate.       *)
Fairness ==
    /\ \A s \in Scanners : WF_depositVars(StartScan(s) \/ ProcessBlocks(s))
    /\ \A a \in Actors : WF_depositVars(RunHandler(a) \/ (a \in Depositors /\ ProcessDeposit(a)))
    /\ SF_depositVars(CheckScores)
    /\ \A d \in Deposits :
           SF_depositVars(\E a \in Checkers : CheckDepositScoring(a) /\ <<d, 1>> \in scoring \ scoring')
FairSpec == Spec /\ Fairness

-----------------------------------------------------------------------------
(* Properties.                                                             *)

TypeInv == RowTypeInv /\ ChainTypeInv

(* Deposits with one row; a second row takes a deposit out of them again.  *)
EnteredOnce ==
    {d \in Deposits : \E n \in 1 .. Copies : \A m \in 1 .. Copies : Exists(<<d, m>>) <=> m = n}

(* Every transfer is entered at most once, credited at most once, and      *)
(* charged back at most once from money that is there, whatever is scanned *)
(* again, scored again, forced or reverted (process_coin_deposit,          *)
(* check_scoring, topup_tx, _revert).                                      *)
Ledger == INSTANCE DepositLedger WITH
    arrived <- Arrived, entered <- EnteredOnce,
    credited <- {d \in Deposits : credits[<<d, 1>>] > 0},
    charged <- {d \in Deposits : charges[<<d, 1>>] > 0}
LedgerPromise == Ledger!Spec

(* A transfer in a processed block is not lost: it has a row, its task is  *)
(* queued or running, or was given up, since the wallet was blocked or the *)
(* worker died; although scans overlap and die (process_new_blocks stores  *)
(* the last block after the tasks, memcache_lock is not a lock).           *)
ScannedAreKept ==
    \A d \in Deposits \ Failed :
        (\E i \in 1 .. last : blocks[i] = Transfer(d)) =>
            \/ Transfer(d) \in jobs \/ d \in Entered
            \/ \E a \in Actors : task[a].op = "insert" /\ task[a].id = <<d, 1>>
            \/ d \in givenUp

(* A deposit whose score is too low reaches the balance only if an         *)
(* administrator forced it, in whatever order scores, rechecks, stale      *)
(* saves and crashes happen (check_scoring, force_deposit).                *)
LowScoresStayOut == \A r \in Rows : credits[r] > 0 /\ r[1] \in LowScore => r \in forced

(* A transfer that arrives is entered, unless the wallet is blocked when   *)
(* its task runs or the worker dies with it (process_coin_deposit,         *)
(* process_tokens_deposit).                                                *)
ArrivedAreEntered ==
    \A d \in Deposits \ Failed :
        d \in Arrived ~> d \in Entered \cup givenUp

(* A deposit that waits for its score is credited or rejected, or the      *)
(* scoring platform failed and an administrator has to recheck it          *)
(* (check_balances, check_scoring).                                        *)
WaitingAreDecided ==
    \A d \in Deposits :
        row[<<d, 1>>].state = "WAITING_FOR_KYT_APPROVE" ~>
            \/ credits[<<d, 1>>] > 0
            \/ row[<<d, 1>>].state \in {"KYT_APPROVE_REJECTED", "KYT_APPROVE_PLATFORM_ERROR"}

==============================================================================

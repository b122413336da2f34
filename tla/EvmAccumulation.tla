--------------------------- MODULE EvmAccumulation ---------------------------
(***************************************************************************)
(* Accumulation of deposits on an EVM chain.  check_balances picks a row   *)
(* per wallet that is ready; check_balance sends it to the accumulation    *)
(* queue, a token's row first to the gas queue; the worker sends what the  *)
(* wallet received to our keeper or safe (or to the external address the   *)
(* administrator gave), records an AccumulationTransaction and marks the   *)
(* row; the scanner finds the mined transaction and completes it.          *)
(*                                                                         *)
(* Coins of one wallet are counted in deposits, gas in transfers.  A       *)
(* token's wallet has an address of its own: its only coin is gas.         *)
(***************************************************************************)
EXTENDS EvmDeposits

CONSTANTS
    Accumulators,  \* processes of the two accumulations queues
    BelowGas,      \* coin deposits that may not pay for their own transfer
    MaxGasTrouble  \* bound: gas prices above the limit, gas replacements

VARIABLES
    pool,        \* transactions the nodes know and no block has
    done,        \* mined transactions that succeeded
    recorded,    \* AccumulationTransactions, by transaction
    completed,   \* those in STATE_COMPLETED
    gas,         \* coin at each token wallet's address, in gas transfers
    checks,      \* check_balance tasks
    toSend,      \* accumulate_coin and accumulate_tokens tasks
    toGas,       \* send_gas tasks
    accumulator, \* the accumulation each accumulator is at
    gasWorker,   \* the gas transfer the send_gas worker is at
    gasTroubles

queueVars == <<checks, toSend, toGas>>
coinVars == <<pool, done, recorded, completed, gas>>
workVars == <<accumulator, gasWorker, gasTroubles>>
vars == <<depositVars, coinVars, queueVars, workVars>>

NoTx == [kind |-> "dust", row |-> NoId, nonce |-> 0, price |-> 0]
(* Of an accumulator: idle, record, mark; of the gas worker: idle, record, *)
(* receipt.  seen is the row's state when it was loaded.                   *)
NoJob == [step |-> "idle", row |-> NoId, tx |-> NoTx, seen |-> "none"]

ASSUME AccumulationAssumption ==
    BelowGas \subseteq Deposits /\ MaxGasTrouble \in Nat /\ MaxPrice >= 1

AccumulationInit ==
    /\ ChainInit
    /\ pool = {} /\ done = {} /\ recorded = {} /\ completed = {}
    /\ gas = [w \in Wallets |-> 0]
    /\ checks = {} /\ toSend = {} /\ toGas = {}
    /\ accumulator = [a \in Accumulators |-> NoJob]
    /\ gasWorker = NoJob /\ gasTroubles = 0

IsToken(r) == r[1] \in Token

-----------------------------------------------------------------------------
(* The chain.                                                              *)

OutKinds == {"accumulate", "external"}
FromWallet(t, w) == t.kind \in OutKinds \cup {"dust"} /\ WalletOf(t.row) = w
SameSender(p, t) ==
    \/ p.kind = "gas" /\ t.kind = "gas"
    \/ FromWallet(t, WalletOf(t.row)) /\ FromWallet(p, WalletOf(t.row))

(* get_transaction_count: the number of mined transactions. *)
WalletNonce(w) == Cardinality({i \in DOMAIN blocks : FromWallet(blocks[i], w)})
KeeperNonce == Cardinality({i \in DOMAIN blocks : blocks[i].kind = "gas"})

(* A second transaction with a nonce is refused unless it pays more. *)
NodeAccepts(t) ==
    \A p \in pool : SameSender(p, t) /\ p.nonce = t.nonce => p.price < t.price

(* How many deposits the wallet holds on the chain. *)
Held(w) ==
    Cardinality({t \in Range(blocks) : t.kind = "deposit" /\ WalletOf(t.row) = w /\ t.row[1] \notin Failed})
    - Cardinality({t \in done : t.kind \in OutKinds /\ WalletOf(t.row) = w})

(* What mining t does to the gas at its wallet. *)
GasAfter(t) ==
    CASE t.kind = "gas" -> gas[WalletOf(t.row)] + 1
      [] t.kind \in OutKinds /\ IsToken(t.row) -> gas[WalletOf(t.row)] - 1
      [] t.kind = "dust" -> 0
      [] OTHER -> gas[WalletOf(t.row)]

(* The tasks at t and at the gas of its row have written what they write. *)
IsWritten(t) ==
    /\ \A a \in Accumulators : accumulator[a].tx # t
    /\ gasWorker.row = t.row => t.kind = "gas" /\ gasWorker.step = "receipt"

(* The other transactions with its nonce are void.  A token transfer of    *)
(* what the wallet does not hold is mined and fails.                       *)
Mine ==
    \E t \in pool :
        /\ Len(blocks) < MaxBlocks
        /\ "early" \in ChainRaces \/ IsWritten(t)
        /\ blocks' = Append(blocks, t)
        /\ pool' = {p \in pool : ~SameSender(p, t) \/ p.nonce > t.nonce}
        /\ done' = IF t.kind \in OutKinds /\ Held(WalletOf(t.row)) = 0
                   THEN done ELSE done \cup {t}
        /\ gas' = [gas EXCEPT ![WalletOf(t.row)] = GasAfter(t)]
        /\ UNCHANGED <<rowVars, last, lock, scanner, jobs, givenUp, scoring,
                       recorded, completed, queueVars, workVars>>

-----------------------------------------------------------------------------
(* check_balances and check_balance.                                       *)

OnePerWallet(S) ==
    {T \in SUBSET S : \A w \in {WalletOf(r) : r \in S} :
                          Cardinality({r \in T : WalletOf(r) = w}) = 1}

(* No task and no gas transfer is left of an earlier run; what was sent to *)
(* us is for the row's state to say.                                       *)
Quiet(r) ==
    /\ \A t \in pool \cup jobs \cup {blocks[i] : i \in last + 1 .. Len(blocks)} :
           t.row = r => t.kind \in OutKinds
    /\ r \notin checks \cup toSend \cup toGas
    /\ gasWorker.row # r /\ \A a \in Accumulators : accumulator[a].row # r

CheckBalances ==
    \E T \in OnePerWallet(ReadyForAccumulation) :
        LET picked == T \cup ExternalReady
        IN  /\ ~((WaitingForKyt \subseteq scoring) /\ (picked \subseteq checks))
            /\ \/ "overdue" \in ChainRaces
               \/ /\ \A a \in Actors : task[a].op # "score"
                  /\ \A r \in picked, q \in Rows : WalletOf(q) = WalletOf(r) => Quiet(q)
            /\ scoring' = scoring \cup WaitingForKyt
            /\ checks' = checks \cup picked
            /\ UNCHANGED <<rowVars, scanVars, coinVars, toSend, toGas, workVars>>

(* set_accumulation_in_progress and set_waiting_for_gas write nothing when *)
(* the object was loaded in that state.                                    *)
Marks(x, s) == IF x.seen = s THEN UNCHANGED row ELSE SetsState(x.row, s)

Completed(kind, r) == \E t \in completed : t.kind = kind /\ t.row = r
IsGasNeed(r) == ~Completed("gas", r)

(* A plausible bug: a token's row is accumulated without asking for gas. *)
ChecksNoGas(r) ==
    SetsState(r, "READY_FOR_ACCUMULATION") /\ toSend' = toSend \cup {r} /\ UNCHANGED toGas

Splits(r) ==
    IF IsToken(r) /\ IsGasNeed(r)
    THEN SetsState(r, "GAS_REQUIRED") /\ toGas' = toGas \cup {r} /\ UNCHANGED toSend
    ELSE SetsState(r, "READY_FOR_ACCUMULATION") /\ toSend' = toSend \cup {r} /\ UNCHANGED toGas

(* check_balance does not look at the state of the row. *)
CheckBalance ==
    \E r \in checks :
        /\ checks' = checks \ {r}
        /\ Splits(r)
        /\ UNCHANGED <<besideRow, scanVars, scoring, coinVars, workVars>>

-----------------------------------------------------------------------------
(* accumulate_coin and accumulate_tokens.                                  *)

Accumulates(a, x) == accumulator' = [accumulator EXCEPT ![a] = x]

(* Whatever the row's state.  A token needs a mined gas transfer and its   *)
(* coin; the node refuses a coin transfer the wallet cannot pay.           *)
SendAccumulation(a) ==
    \E r \in toSend :
        LET w == WalletOf(r)
            t == [kind |-> IF row[r].external THEN "external" ELSE "accumulate", row |-> r,
                  nonce |-> WalletNonce(w), price |-> 1]
            sent == /\ NodeAccepts(t) /\ t.nonce <= MaxNonce
                    /\ IF IsToken(r) THEN ~IsGasNeed(r) /\ gas[w] > 0 ELSE Held(w) > 0
        IN  /\ accumulator[a].step = "idle"
            /\ toSend' = toSend \ {r}
            /\ IF sent THEN /\ pool' = pool \cup {t}
                            /\ Accumulates(a, [step |-> "record", row |-> r, tx |-> t,
                                            seen |-> row[r].state])
                       ELSE UNCHANGED <<pool, accumulator>>
            /\ UNCHANGED <<depositVars, done, recorded, completed, gas, checks, toGas,
                           gasWorker, gasTroubles>>

(* A coin is left when gas now costs more than the limit, or than the      *)
(* deposit.                                                                *)
CoinNotSent(a) ==
    \E r \in toSend :
        /\ accumulator[a].step = "idle" /\ ~IsToken(r)
        /\ toSend' = toSend \ {r}
        /\ \/ /\ gasTroubles < MaxGasTrouble /\ gasTroubles' = gasTroubles + 1
              /\ SetsState(r, "GAS_PRICE_TOO_HIGH")
           \/ /\ r[1] \in BelowGas
              /\ SetsState(r, "BALANCE_TOO_LOW")
              /\ UNCHANGED gasTroubles
        /\ UNCHANGED <<besideRow, scanVars, scoring, coinVars, checks, toGas, accumulator, gasWorker>>

RecordAccumulation(a) ==
    /\ accumulator[a].step = "record"
    /\ recorded' = recorded \cup {accumulator[a].tx}
    /\ Accumulates(a, [accumulator[a] EXCEPT !.step = "mark"])
    /\ UNCHANGED <<depositVars, pool, done, completed, gas, queueVars, gasWorker, gasTroubles>>

(* A plausible bug: the row is accumulated as soon as its coin was sent. *)
MarkAccumulated(a) ==
    /\ accumulator[a].step = "mark"
    /\ SetsState(accumulator[a].row, "ACCUMULATED")
    /\ Accumulates(a, NoJob)
    /\ UNCHANGED <<besideRow, scanVars, scoring,
                   coinVars, queueVars, gasWorker, gasTroubles>>

MarkInProgress(a) ==
    /\ accumulator[a].step = "mark"
    /\ Marks(accumulator[a], "ACCUMULATION_IN_PROGRESS")
    /\ Accumulates(a, NoJob)
    /\ UNCHANGED <<besideRow, scanVars, scoring,
                   coinVars, queueVars, gasWorker, gasTroubles>>

-----------------------------------------------------------------------------
(* send_gas.                                                               *)

Gases(x) == gasWorker' = x

(* A row that has its gas goes back to check_balance.  The state in the    *)
(* database is written after the transaction is recorded.                  *)
SendGas ==
    \E r \in toGas, p \in 1 .. MaxPrice :
        LET t == [kind |-> "gas", row |-> r, nonce |-> KeeperNonce, price |-> p]
        IN  /\ gasWorker.step = "idle"
            /\ toGas' = toGas \ {r}
            /\ IF IsGasNeed(r)
               THEN /\ t.nonce <= MaxNonce /\ NodeAccepts(t)
                    /\ pool' = pool \cup {t}
                    /\ Gases([step |-> "record", row |-> r, tx |-> t, seen |-> row[r].state])
                    /\ UNCHANGED checks
               ELSE checks' = checks \cup {r} /\ UNCHANGED <<pool, gasWorker>>
            /\ UNCHANGED <<depositVars, done, recorded, completed, gas, toSend,
                           accumulator, gasTroubles>>

(* No gas is sent, or no replacement, when it costs more than the limit.   *)
GasNotSent ==
    /\ gasTroubles < MaxGasTrouble /\ gasTroubles' = gasTroubles + 1
    /\ \/ \E r \in toGas :
              /\ gasWorker.step = "idle" /\ IsGasNeed(r)
              /\ toGas' = toGas \ {r}
              /\ SetsState(r, "GAS_PRICE_TOO_HIGH")
              /\ UNCHANGED gasWorker
       \/ /\ gasWorker.step = "receipt"
          /\ "late" \in ChainRaces \/ gasWorker.tx.nonce >= KeeperNonce
          /\ SetsState(gasWorker.row, "GAS_PRICE_TOO_HIGH")
          /\ Gases(NoJob)
          /\ UNCHANGED toGas
    /\ UNCHANGED <<besideRow, scanVars, scoring, coinVars, checks, toSend, accumulator>>

RecordGas ==
    /\ gasWorker.step = "record"
    /\ recorded' = recorded \cup {gasWorker.tx}
    /\ Marks(gasWorker, "WAITING_FOR_GAS")
    /\ Gases([gasWorker EXCEPT !.step = "receipt"])
    /\ UNCHANGED <<besideRow, scanVars, scoring,
                   pool, done, completed, gas, queueVars, accumulator, gasTroubles>>

(* The receipt is there: complete(is_gas) and a task, as the scanner does, *)
(* whatever the row has become.                                            *)
GasReceipt ==
    /\ gasWorker.step = "receipt" /\ gasWorker.tx \in Range(blocks)
    /\ "late" \in ChainRaces \/ gasWorker.tx \notin completed
    /\ completed' = completed \cup {gasWorker.tx}
    /\ SetsState(gasWorker.row, "READY_FOR_ACCUMULATION")
    /\ toSend' = toSend \cup {gasWorker.row}
    /\ Gases(NoJob)
    /\ UNCHANGED <<besideRow, scanVars, scoring,
                   pool, done, recorded, gas, checks, toGas, accumulator, gasTroubles>>

(* No receipt in time: again with the same nonce and a higher price.  When *)
(* that nonce is used up the task ends and leaves the row to the scanner.  *)
GasTimeout ==
    /\ gasWorker.step = "receipt"
    /\ IF gasWorker.tx.nonce < KeeperNonce
       THEN Gases(NoJob) /\ UNCHANGED <<pool, gasTroubles>>
       ELSE LET t == [gasWorker.tx EXCEPT !.price = @ + 1]
            IN  /\ t.price <= MaxPrice
                /\ gasTroubles < MaxGasTrouble /\ gasTroubles' = gasTroubles + 1
                /\ pool' = pool \cup {t}
                /\ Gases([gasWorker EXCEPT !.step = "record", !.tx = t,
                                            !.seen = row[gasWorker.row].state])
    /\ UNCHANGED <<depositVars, done, recorded, completed, gas, queueVars, accumulator>>

WorkerDies ==
    /\ "crash" \in Races /\ troubles < MaxTroubles
    /\ troubles' = troubles + 1
    /\ \/ \E a \in Accumulators :
              accumulator[a].step # "idle" /\ Accumulates(a, NoJob) /\ UNCHANGED gasWorker
       \/ gasWorker.step # "idle" /\ Gases(NoJob) /\ UNCHANGED accumulator
    /\ UNCHANGED <<row, transaction, balance, block, task, ledgerVars, scanVars, scoring,
                   coinVars, queueVars, gasTroubles>>

(* accumulate_dust empties a token's wallet of its coin. *)
SweepDust ==
    \E r \in Rows :
        LET w == WalletOf(r)
            t == [kind |-> "dust", row |-> r, nonce |-> WalletNonce(w), price |-> 0]
        IN  /\ "sweep" \in ChainRaces /\ IsToken(r) /\ Exists(r)
            /\ gas[w] > 0 /\ t.nonce <= MaxNonce
            /\ \A p \in pool : ~FromWallet(p, w)
            /\ pool' = pool \cup {t}
            /\ UNCHANGED <<depositVars, done, recorded, completed, gas, queueVars, workVars>>

-----------------------------------------------------------------------------
(* The scanner's tasks for our own transactions.                           *)

TakesJob(a, t) == Idle(a) /\ jobs' = jobs \ {t}

(* A transaction that failed, is not recorded or, a coin's, is completed   *)
(* already is left alone.                                                  *)
ToComplete(t) == t \in recorded \cap done /\ (IsToken(t.row) \/ t \notin completed)

(* AccumulationTransaction.complete: two writes. *)
ProcessAccumulation(a) ==
    \E t \in jobs :
        /\ t.kind = "accumulate" /\ TakesJob(a, t)
        /\ IF ToComplete(t)
           THEN /\ completed' = completed \cup {t}
                /\ \/ SetsAccumulated(t.row) /\ UNCHANGED troubles
                   \/ /\ "crash" \in Races /\ troubles < MaxTroubles
                      /\ troubles' = troubles + 1 /\ UNCHANGED row
           ELSE UNCHANGED <<completed, row, troubles>>
        /\ UNCHANGED <<transaction, balance, block, task, ledgerVars, blocks, last, lock, scanner,
                       givenUp, scoring, pool, done, recorded, gas, queueVars, workVars>>

(* complete(is_gas) makes the row ready, whatever it has become. *)
ProcessGas(a) ==
    \E t \in jobs :
        /\ t.kind = "gas" /\ TakesJob(a, t)
        /\ IF t \in recorded \ completed
           THEN /\ completed' = completed \cup {t}
                /\ SetsState(t.row, "READY_FOR_ACCUMULATION")
                /\ toSend' = toSend \cup {t.row}
           ELSE UNCHANGED <<completed, row, toSend>>
        /\ UNCHANGED <<besideRow, blocks, last, lock, scanner, givenUp, scoring,
                       pool, done, recorded, gas, checks, toGas, workVars>>

ProcessDust(a) ==
    \E t \in jobs :
        /\ t.kind = "dust" /\ TakesJob(a, t)
        /\ UNCHANGED <<rowVars, blocks, last, lock, scanner, givenUp, scoring,
                       coinVars, queueVars, workVars>>

-----------------------------------------------------------------------------

accumulationVars == <<coinVars, queueVars, workVars>>

AccumulationNext ==
    \/ Credits /\ UNCHANGED accumulationVars
    \/ CheckBalances \/ CheckBalance
    \/ \E a \in Accumulators : \/ SendAccumulation(a) \/ CoinNotSent(a)
                              \/ RecordAccumulation(a) \/ MarkInProgress(a)
    \/ WorkerDies
    \/ SendGas \/ GasNotSent \/ RecordGas \/ GasReceipt \/ GasTimeout
    \/ \E a \in Depositors : ProcessAccumulation(a) \/ ProcessGas(a) \/ ProcessDust(a)
    \/ Mine \/ SweepDust

AccumulationSpec == AccumulationInit /\ [][AccumulationNext]_vars

(* Blocks are mined and scanned, workers take their tasks and finish them, *)
(* and beat enqueues check_balances.                                       *)
AccumulationFairness ==
    /\ WF_vars(Mine)
    /\ \A s \in Scanners : WF_vars((StartScan(s) \/ ProcessBlocks(s)) /\ UNCHANGED accumulationVars)
    /\ \A a \in Depositors : WF_vars(\/ ProcessDeposit(a) /\ UNCHANGED accumulationVars
                                     \/ ProcessAccumulation(a) \/ ProcessGas(a) \/ ProcessDust(a))
    /\ \A a \in Checkers : WF_vars(CheckDepositScoring(a) /\ UNCHANGED accumulationVars)
    /\ \A a \in Actors : WF_vars(RunHandler(a) /\ UNCHANGED accumulationVars)
    /\ WF_vars(CheckBalances) /\ WF_vars(CheckBalance)
    /\ \A a \in Accumulators : WF_vars(\/ SendAccumulation(a) \/ CoinNotSent(a)
                                       \/ RecordAccumulation(a) \/ MarkInProgress(a))
    /\ WF_vars(SendGas) /\ WF_vars(RecordGas) /\ WF_vars(GasReceipt \/ GasTimeout)
AccumulationFairSpec == AccumulationSpec /\ AccumulationFairness

-----------------------------------------------------------------------------
(* Properties.                                                             *)

Sent(r) == {t \in pool \cup Range(blocks) : t.kind \in OutKinds /\ t.row = r}

(* A wallet is emptied for one row at a time (get_ready_for_accumulation). *)
OneAtATime ==
    \A q, r \in Rows :
        /\ row[q].state = "ACCUMULATION_IN_PROGRESS" /\ row[r].state = "ACCUMULATION_IN_PROGRESS"
        /\ WalletOf(q) = WalletOf(r)
        => q = r

(* A row whose accumulation is in progress has a transaction that the      *)
(* scanner will still meet (accumulate_coin, accumulate_tokens, complete). *)
InProgressIsFollowed ==
    \A r \in Rows :
        row[r].state = "ACCUMULATION_IN_PROGRESS" =>
            \E t \in Sent(r) \cap (recorded \ completed) :
                t \in pool \cup jobs \/ \E i \in last + 1 .. Len(blocks) : blocks[i] = t

(* A row is accumulated only after a transaction for it was mined and did  *)
(* not fail, whatever tasks come late, twice or too early and whoever dies *)
(* (process_coin_deposit, process_tokens_deposit, complete).               *)
AccumulatedLeft == \A r \in Rows : Settled(r) => Sent(r) \cap done # {}

(* Only money that the user was credited with is moved on, unless an       *)
(* administrator redirected it (check_scoring, check_balances).            *)
OnlyCreditedMove == \A r \in Rows : Sent(r) # {} /\ ~row[r].external => credits[r] > 0

(* A deposit that is credited without a score is accumulated in the end,   *)
(* tokens after their gas, through gas prices above the limit and gas      *)
(* transfers that are replaced (check_balances, send_gas, process_block).  *)
CreditedAreAccumulated ==
    \A r \in Rows :
        credits[r] > 0 /\ r[1] \notin Scored ~>
            \/ row[r].state \in {"ACCUMULATED", "BALANCE_TOO_LOW"}
            \/ block[WalletOf(r)] = "all"

=============================================================================

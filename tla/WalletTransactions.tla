-------------------------- MODULE WalletTransactions --------------------------
(***************************************************************************)
(* WalletTransactions rows: a row stands for one transfer to a user's      *)
(* deposit address.  Inserting a row checks it against the limits and      *)
(* opens a pending transaction; scoring it credits the transaction; an     *)
(* administrator may force, recheck, redirect or revert it.  Handlers load *)
(* the row, work on their own copy and write it back whole.                *)
(***************************************************************************)
EXTENDS Integers, FiniteSets

CONSTANTS
    Deposits,      \* transfers to deposit addresses
    Copies,        \* bound: rows made for one transfer
    Wallets,       \* UserWallets: a user's address for one currency
    Wallet,        \* [Deposits -> Wallets]
    Token,         \* deposits of tokens; the others are of the chain's coin
    Amount,        \* what the transfer's transaction carries
    Refused,       \* outside the limits, or the user's topups are disabled
    UnderFee,      \* within the limits but not above the deposit fee
    Scored,        \* deposits need_to_check_score asks the provider about
    LowScore,      \* those of them whose score is below the minimum
    Actors,        \* processes that run handlers
    AdminOps,      \* what the administrator does in this instance
    Races,         \* what the code leaves to timing (RaceKinds)
    MaxTroubles    \* bound: crashes, scoring platform errors, wallet blocks

(* "together": a handler may work on a row that another one has loaded.    *)
(* "crash":    a process may die between two writes.                       *)
RaceKinds == {"together", "crash"}

Rows == Deposits \X (1 .. Copies)
WalletOf(r) == Wallet[r[1]]
AmountOf(r) == Amount[r[1]]

ReadyStates == {"WAITING_FOR_ACCUMULATION", "GAS_REQUIRED", "WAITING_FOR_GAS",
                "READY_FOR_ACCUMULATION", "GAS_PRICE_TOO_HIGH"}
KytStates == {"WAITING_FOR_KYT_APPROVE", "KYT_APPROVE_PLATFORM_ERROR"}
States == ReadyStates \cup KytStates \cup
          {"CREATED", "VERIFICATION_FAILED", "KYT_APPROVE_REJECTED",
           "ACCUMULATION_IN_PROGRESS", "ACCUMULATED", "EXTERNAL_ACCUMULATED",
           "BALANCE_TOO_LOW"}

Row == [state : States, reverted : BOOLEAN, external : BOOLEAN]
NoRow == [state |-> "none", reverted |-> FALSE, external |-> FALSE]
Created == [state |-> "CREATED", reverted |-> FALSE, external |-> FALSE]

AdminKinds == {"recheck", "force", "external", "revert", "block", "unblock"}
Ops == {"none", "insert", "score", "force", "external", "revert"}
Steps == {"idle", "create", "check", "score", "topup", "credit", "save", "unblock", "revert"}
NoId == <<"none", 0>>
NoTask == [op |-> "none", id |-> NoId, obj |-> NoRow, step |-> "idle"]

ASSUME DepositAssumption ==
    /\ Copies \in Nat \ {0} /\ MaxTroubles \in Nat
    /\ Wallet \in [Deposits -> Wallets] /\ Amount \in [Deposits -> Nat \ {0}]
    /\ LowScore \subseteq Scored /\ Scored \subseteq Deposits
    /\ Token \subseteq Deposits
    /\ Refused \subseteq Deposits /\ UnderFee \subseteq Deposits
    /\ AdminOps \subseteq AdminKinds
    /\ Races \subseteq RaceKinds

VARIABLES
    row,          \* the WalletTransactions table
    transaction,  \* state of the row's Transaction
    balance,      \* of the wallet's user in the wallet's currency
    block,        \* UserWallet.block_type
    task,         \* the handler each actor runs
    troubles,     \* crashes, platform errors and blocks that happened
    credits,      \* history: how often the row's amount was credited
    charges,      \* history: how often it was charged back
    forced        \* history: rows an administrator forced

walletVars == <<row, transaction, balance, block, task, troubles>>
ledgerVars == <<credits, charges, forced>>
rowVars == <<walletVars, ledgerVars>>
besideRow == <<transaction, balance, block, task, troubles, ledgerVars>>

Idle(a) == task[a].op = "none"
Exists(r) == row[r].state # "none"
Free(r) == \A a \in Actors : task[a].id # r

Task == [op : Ops, id : Rows \cup {NoId}, obj : Row \cup {NoRow}, step : Steps]

RowTypeInv ==
    /\ row \in [Rows -> Row \cup {NoRow}]
    /\ transaction \in [Rows -> {"none", "PENDING", "COMPLETED"}]
    /\ balance \in [Wallets -> Nat]
    /\ block \in [Wallets -> {"no", "deposit", "all"}]
    /\ task \in [Actors -> Task]
    /\ troubles \in 0 .. MaxTroubles
    /\ credits \in [Rows -> Nat] /\ charges \in [Rows -> Nat]
    /\ forced \subseteq Rows

RowInit ==
    /\ row = [r \in Rows |-> NoRow]
    /\ transaction = [r \in Rows |-> "none"]
    /\ balance = [w \in Wallets |-> 0]
    /\ block = [w \in Wallets |-> "no"]
    /\ task = [a \in Actors |-> NoTask]
    /\ troubles = 0
    /\ credits = [r \in Rows |-> 0] /\ charges = [r \in Rows |-> 0]
    /\ forced = {}

Goes(a, step) == task' = [task EXCEPT ![a].step = step]
Ends(a) == task' = [task EXCEPT ![a] = NoTask]

-----------------------------------------------------------------------------
(* Inserting a row.                                                        *)

Copy(d) == <<d, 1 + Cardinality({n \in 1 .. Copies : Exists(<<d, n>>)})>>

(* save writes the new row; __check_deposit follows in its own transaction. *)
InsertRow(a) ==
    LET r == Copy(task[a].id[1])
    IN  /\ task[a].op = "insert" /\ task[a].step = "create" /\ r \in Rows
        /\ row' = [row EXCEPT ![r] = Created]
        /\ task' = [task EXCEPT ![a] = [op |-> "insert", id |-> r, obj |-> Created, step |-> "check"]]
        /\ UNCHANGED <<transaction, balance, block, troubles, ledgerVars>>

Accepted(r) == r[1] \notin Refused /\ block[WalletOf(r)] = "no"

(* An amount that the fee takes whole fails an assertion: the row stays. *)
CheckDeposit(a) ==
    LET r == task[a].id
    IN  /\ task[a].op = "insert" /\ task[a].step = "check"
        /\ CASE ~Accepted(r) ->
                  /\ row' = [row EXCEPT ![r] = [task[a].obj EXCEPT !.state = "VERIFICATION_FAILED"]]
                  /\ UNCHANGED transaction
             [] Accepted(r) /\ r[1] \in UnderFee -> UNCHANGED <<row, transaction>>
             [] OTHER ->
                  /\ row' = [row EXCEPT ![r] = [task[a].obj EXCEPT !.state = "WAITING_FOR_KYT_APPROVE"]]
                  /\ transaction' = [transaction EXCEPT ![r] = "PENDING"]
        /\ Ends(a)
        /\ UNCHANGED <<balance, block, troubles, ledgerVars>>

-----------------------------------------------------------------------------
(* Handlers of a row: load it, work, write it back.                        *)

Load(a, op, r, step) ==
    /\ Idle(a) /\ Exists(r)
    /\ "together" \in Races \/ Free(r)
    /\ task' = [task EXCEPT ![a] = [op |-> op, id |-> r, obj |-> row[r], step |-> step]]
    /\ forced' = IF op = "force" THEN forced \cup {r} ELSE forced
    /\ UNCHANGED <<row, transaction, balance, block, troubles, credits, charges>>

(* check_scoring: only rows that wait for the score. *)
BeginScore(a, r) == row[r].state \in KytStates /\ Load(a, "score", r, "score")

(* A plausible bug: the deposit is credited before the score is looked at. *)
ScoresLate(a, state, step) ==
    task' = [task EXCEPT ![a].obj.state = state, ![a].step = "topup"]

(* The state of the handler's copy that a score leads to, and what it does next. *)
Scores(a, state, step) ==
    task' = [task EXCEPT ![a].obj.state = state, ![a].step = step]

Score(a) ==
    LET r == task[a].id
    IN  /\ task[a].step = "score"
        /\ \/ /\ r[1] \notin Scored
              /\ Scores(a, "WAITING_FOR_ACCUMULATION", "topup")
              /\ UNCHANGED <<block, troubles>>
           \/ /\ r[1] \in Scored \ LowScore
              /\ Scores(a, task[a].obj.state, "topup")
              /\ UNCHANGED <<block, troubles>>
           \/ /\ r[1] \in LowScore
              /\ Scores(a, "KYT_APPROVE_REJECTED", "save")
              /\ block' = IF r[1] \in Token THEN block ELSE [block EXCEPT ![WalletOf(r)] = "all"]
              /\ UNCHANGED troubles
           \/ /\ r[1] \in Scored /\ troubles < MaxTroubles
              /\ Scores(a, "KYT_APPROVE_PLATFORM_ERROR", "save")
              /\ troubles' = troubles + 1
              /\ UNCHANGED block
        /\ UNCHANGED <<row, transaction, balance, ledgerVars>>

(* What follows topup_tx in check_scoring and in force_deposit. *)
AfterTopup(a) == IF task[a].op = "force" THEN "unblock" ELSE "save"

CreditsRow(r) ==
    /\ transaction' = [transaction EXCEPT ![r] = "COMPLETED"]
    /\ balance' = [balance EXCEPT ![WalletOf(r)] = @ + AmountOf(r)]
    /\ credits' = [credits EXCEPT ![r] = @ + 1]

(* topup_tx reads the transaction: a row without one is credited here ... *)
Topup(a) ==
    LET r == task[a].id
        forward == [task[a].obj EXCEPT !.state = "WAITING_FOR_ACCUMULATION"]
    IN  /\ task[a].step = "topup"
        /\ \/ /\ transaction[r] = "none"
              /\ CreditsRow(r)
              /\ row' = [row EXCEPT ![r] = forward]
              /\ task' = [task EXCEPT ![a].obj = forward, ![a].step = AfterTopup(a)]
           \/ /\ transaction[r] = "PENDING" /\ Goes(a, "credit")
              /\ UNCHANGED <<row, transaction, balance, credits>>
           \/ /\ transaction[r] = "COMPLETED" /\ Goes(a, AfterTopup(a))
              /\ UNCHANGED <<row, transaction, balance, credits>>
        /\ UNCHANGED <<block, troubles, charges, forced>>

(* ... a pending one is completed with what the handler has read of it. *)
Credit(a) ==
    /\ task[a].step = "credit"
    /\ CreditsRow(task[a].id)
    /\ Goes(a, AfterTopup(a))
    /\ UNCHANGED <<row, block, troubles, charges, forced>>

SaveRow(a) ==
    /\ task[a].step = "save"
    /\ row' = [row EXCEPT ![task[a].id] = task[a].obj]
    /\ Ends(a)
    /\ UNCHANGED <<transaction, balance, block, troubles, ledgerVars>>

-----------------------------------------------------------------------------
(* The administrator.                                                      *)

(* force_deposit: topup_tx, then the wallet is unblocked; the row is kept. *)
BeginForce(a, r) == Load(a, "force", r, "topup")

UnblockWallet(a) ==
    LET r == task[a].id
    IN  /\ task[a].step = "unblock"
        /\ block' = [block EXCEPT ![WalletOf(r)] = "no"]
        /\ Ends(a)
        /\ UNCHANGED <<row, transaction, balance, troubles, ledgerVars>>

(* set_external_accumulation_address: from any state. *)
BeginExternal(a, r) ==
    /\ Idle(a) /\ Exists(r)
    /\ "together" \in Races \/ Free(r)
    /\ task' = [task EXCEPT ![a] =
           [op |-> "external", id |-> r, step |-> "save",
            obj |-> [row[r] EXCEPT !.state = "WAITING_FOR_ACCUMULATION", !.external = TRUE]]]
    /\ UNCHANGED <<row, transaction, balance, block, troubles, ledgerVars>>

(* A plausible bug: whether the row was reverted before is not asked. *)
RevertsAgain(a, r) == Load(a, "revert", r, "revert")
BeginRevert(a, r) == ~row[r].reverted /\ Load(a, "revert", r, "revert")

(* _revert charges what the transaction carries, credited or not.  Without *)
(* a transaction, or without the money, nothing happens.                   *)
Revert(a) ==
    LET r == task[a].id
    IN  /\ task[a].step = "revert"
        /\ Ends(a)
        /\ IF transaction[r] # "none" /\ balance[WalletOf(r)] >= AmountOf(r)
           THEN /\ balance' = [balance EXCEPT ![WalletOf(r)] = @ - AmountOf(r)]
                /\ charges' = [charges EXCEPT ![r] = @ + 1]
                /\ row' = [row EXCEPT ![r] = [task[a].obj EXCEPT !.reverted = TRUE]]
           ELSE UNCHANGED <<balance, charges, row>>
        /\ UNCHANGED <<transaction, block, troubles, credits, forced>>

BlockWallet ==
    \E w \in Wallets, b \in {"deposit", "all"} :
        /\ "block" \in AdminOps /\ block[w] # b /\ troubles < MaxTroubles
        /\ block' = [block EXCEPT ![w] = b]
        /\ troubles' = troubles + 1
        /\ UNCHANGED <<row, transaction, balance, task, ledgerVars>>

LiftBlock ==
    \E w \in Wallets :
        /\ "unblock" \in AdminOps /\ block[w] # "no"
        /\ block' = [block EXCEPT ![w] = "no"]
        /\ UNCHANGED <<row, transaction, balance, task, troubles, ledgerVars>>

Administrate(a) ==
    \E r \in Rows :
        \/ "recheck" \in AdminOps /\ BeginScore(a, r)
        \/ "force" \in AdminOps /\ BeginForce(a, r)
        \/ "external" \in AdminOps /\ BeginExternal(a, r)
        \/ "revert" \in AdminOps /\ BeginRevert(a, r)

Handle(a) ==
    \/ InsertRow(a) \/ CheckDeposit(a)
    \/ Score(a) \/ Topup(a) \/ Credit(a) \/ SaveRow(a)
    \/ UnblockWallet(a) \/ Revert(a)

(* A process dies: what it has written stays, the rest is never done. *)
Die(a) ==
    /\ "crash" \in Races /\ troubles < MaxTroubles /\ ~Idle(a)
    /\ Ends(a)
    /\ troubles' = troubles + 1
    /\ UNCHANGED <<row, transaction, balance, block, ledgerVars>>

-----------------------------------------------------------------------------
(* What check_balances and accumulate find, and what they and the scanner  *)
(* write: one column of the row, whatever state it has reached.            *)

(* A plausible bug: the rows to ask about again, never the new ones. *)
FailedKyt == {r \in Rows : row[r].state = "KYT_APPROVE_PLATFORM_ERROR"}

(* get_waiting_for_kyt_check: rows the platform failed on are not among them. *)
WaitingForKyt == {r \in Rows : row[r].state = "WAITING_FOR_KYT_APPROVE"}

(* A plausible bug: rows that are done keep their wallet from being ready. *)
NotReadyOrDone(r) ==
    row[r].state \in States \ (ReadyStates \cup {"VERIFICATION_FAILED"})

NotReady(r) == row[r].state \in KytStates \cup
                   {"CREATED", "KYT_APPROVE_REJECTED", "ACCUMULATION_IN_PROGRESS"}
Ready(r) == row[r].state \in ReadyStates

(* A plausible bug: another row of the wallet may be on its way. *)
AnyReady == {r \in Rows : Ready(r) /\ block[WalletOf(r)] # "all"}

(* A plausible bug: rows that wait for their score are ready as well. *)
ReadyBeforeScore ==
    {r \in Rows : (Ready(r) \/ row[r].state \in KytStates) /\ block[WalletOf(r)] # "all"}

(* get_ready_for_accumulation: one row of each wallet that has no row on   *)
(* its way; any, since the order of creation is not modelled.              *)
ReadyForAccumulation ==
    {r \in Rows : /\ Ready(r) /\ block[WalletOf(r)] # "all"
                  /\ \A q \in Rows : WalletOf(q) = WalletOf(r) => ~NotReady(q)}
ExternalReady == {r \in Rows : Ready(r) /\ row[r].external}

SetsState(r, s) == row' = [row EXCEPT ![r].state = s]

Settled(r) == row[r].state \in {"ACCUMULATED", "EXTERNAL_ACCUMULATED"}
(* A plausible bug: the accumulation is completed, the row is left as it is. *)
SetsNothing(r) == UNCHANGED row

Accumulated(r) == IF row[r].external THEN "EXTERNAL_ACCUMULATED" ELSE "ACCUMULATED"

SetsAccumulated(r) ==
    IF Settled(r) THEN UNCHANGED row
    ELSE SetsState(r, Accumulated(r))

===============================================================================

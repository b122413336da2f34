------------------------------ MODULE BtcPayouts ------------------------------
(***************************************************************************)
(* Payouts on Bitcoin beside those on an EVM chain, over the same rows.    *)
(* An administrator starts process_withdrawals in a web process: it reads  *)
(* the keeper's confirmed outputs, takes the approved requests in their    *)
(* order as long as the keeper's balance reaches, pays them all with one   *)
(* transaction that spends those outputs, and then saves and completes the *)
(* requests one by one.  Nothing locks the requests: what keeps two runs   *)
(* from paying them twice is that an output is spent once.                 *)
(*                                                                         *)
(* The order of creation is not modelled: any request may be the next.     *)
(***************************************************************************)
EXTENDS EvmPayouts, FiniteSetsExt

CONSTANTS
    Clerks,         \* web processes that run process_withdrawals
    KeeperFunds,    \* value of the keeper's first output
    WithdrawalFee,  \* kept of each amount
    TransferFee,    \* of a transaction
    MaxCoins        \* bound: outputs the keeper ever has

ASSUME BtcAssumption ==
    /\ KeeperFunds \in Nat /\ WithdrawalFee \in Nat /\ TransferFee \in Nat
    /\ MaxCoins \in Nat /\ IsFiniteSet(Elsewhere)
    /\ \A r \in Elsewhere : Amount[r] > WithdrawalFee

VARIABLES
    unspent,     \* node: the keeper's confirmed, unspent outputs
    coins,       \* how many outputs the keeper has had
    batches,     \* node: payout transactions no block has
    paidBatches, \* the requests each transaction that the node accepted pays
    clerk        \* the run of process_withdrawals of each clerk

btcVars == <<unspent, coins, batches, paidBatches, clerk>>
allVars == <<vars, btcVars>>

NoRun == [step |-> "idle", inputs |-> {}, left |-> {}, at |-> "none",
          obj |-> [r \in Elsewhere |-> NoRow]]

Total(S) == MapThenSumSet(LAMBDA r : Amount[r], S)
ValueOf(S) == MapThenSumSet(LAMBDA c : c.value, S)

InBatch(r) ==
    \/ \E c \in Clerks : r \in clerk[c].left
    \/ \E b \in batches : r \in b.pays

Settling(c) == clerk[c].step \in {"save", "assert", "complete"}

Runs(c, x) == clerk' = [clerk EXCEPT ![c] = x]

BtcInit ==
    /\ Init
    /\ unspent = {[n |-> 1, value |-> KeeperFunds]} /\ coins = 1
    /\ batches = {} /\ paidBatches = << >>
    /\ clerk = [c \in Clerks |-> NoRun]

-----------------------------------------------------------------------------
(* process_withdrawals.                                                    *)

(* Outputs with at least one confirmation. *)
ReadKeeper(c) ==
    /\ clerk[c].step = "idle"
    /\ Runs(c, [NoRun EXCEPT !.step = "select", !.inputs = unspent])
    /\ UNCHANGED <<vars, unspent, coins, batches, paidBatches>>

(* A plausible bug: requests that were completed are not left out. *)
BtcToProcessAgain == {r \in Elsewhere : req[r].approved /\ req[r].confirmed}

BtcToProcess == {r \in Elsewhere : /\ req[r].state = "CREATED"
                                   /\ req[r].approved /\ req[r].confirmed}

(* The requests whose sum the balance reaches, up to the first that is too *)
(* much.                                                                   *)
Sufficient(limit) ==
    {S \in SUBSET BtcToProcess :
        /\ Total(S) <= limit
        /\ \/ S = BtcToProcess
           \/ \E r \in BtcToProcess \ S : Total(S) + Amount[r] > limit}

SelectRequests(c) ==
    \E S \in Sufficient(ValueOf(clerk[c].inputs)) :
        /\ clerk[c].step = "select"
        /\ "cancel" \in Races \/ \A r \in S : ~Busy(r, Ops)
        /\ Runs(c, IF S = {} THEN NoRun
                   ELSE [clerk[c] EXCEPT !.step = "send", !.left = S,
                             !.obj = [r \in Elsewhere |-> IF r \in S THEN req[r] ELSE NoRow]])
        /\ UNCHANGED <<vars, unspent, coins, batches, paidBatches>>

Change(c) ==
    ValueOf(clerk[c].inputs) - TransferFee
        - (Total(clerk[c].left) - WithdrawalFee * Cardinality(clerk[c].left))

SendFromKeeper(c) ==
    LET x == clerk[c] IN
    /\ x.step = "send"
    /\ IF Change(c) < 0 \/ ~(x.inputs \subseteq unspent)
       THEN Runs(c, NoRun) /\ UNCHANGED <<unspent, batches, paidBatches>>
       ELSE /\ unspent' = unspent \ x.inputs
            /\ batches' = batches \cup
                   {[inputs |-> x.inputs, pays |-> x.left, change |-> Change(c)]}
            /\ paidBatches' = Append(paidBatches, x.left)
            /\ Runs(c, [x EXCEPT !.step = "save"])
    /\ UNCHANGED <<vars, coins>>

(* item.save writes every column of the object; it raises when the user's  *)
(* payouts were frozen or the limits were changed in between.              *)
SaveItem(c) ==
    \E r \in clerk[c].left :
        /\ clerk[c].step = "save"
        /\ \/ /\ req' = [req EXCEPT ![r] = clerk[c].obj[r]]
              /\ Runs(c, [clerk[c] EXCEPT !.step = "assert", !.at = r])
           \/ "crash" \in Races /\ Runs(c, NoRun) /\ UNCHANGED req
        /\ UNCHANGED <<transaction, account, expired, task, chainVars, payoutVars,
                       unspent, coins, batches, paidBatches>>

(* item.complete: the row's state is that of the object. *)
AssertItem(c) ==
    /\ clerk[c].step = "assert"
    /\ Runs(c, IF transaction[clerk[c].at] = "PENDING"
               THEN [clerk[c] EXCEPT !.step = "complete"] ELSE NoRun)
    /\ UNCHANGED <<vars, unspent, coins, batches, paidBatches>>

CompletesRow(c) ==
    LET r == clerk[c].at IN
    /\ clerk[c].step = "complete"
    /\ req' = [req EXCEPT ![r] = [clerk[c].obj[r] EXCEPT !.state = "COMPLETED"]]
    /\ transaction' = [transaction EXCEPT ![r] = "COMPLETED"]
    /\ UNCHANGED <<account, expired, task, chainVars, payoutVars,
                   unspent, coins, batches, paidBatches>>

(* A plausible bug: the return is in the loop over the requests. *)
CompleteFirst(c) == CompletesRow(c) /\ Runs(c, NoRun)

CompleteItem(c) ==
    LET r == clerk[c].at
        left == clerk[c].left \ {r}
    IN  /\ CompletesRow(c)
        /\ Runs(c, IF left = {} THEN NoRun
                   ELSE [clerk[c] EXCEPT !.step = "save", !.left = left, !.at = "none",
                                         !.obj[r] = NoRow])

ClerkDies(c) ==
    /\ clerk[c].step # "idle" /\ crashes < MaxCrashes
    /\ Settling(c) => "crash" \in Races
    /\ crashes' = crashes + 1
    /\ Runs(c, NoRun)
    /\ UNCHANGED <<requestVars, chainVars, payouts, worker, checks, forgotten,
                   unspent, coins, batches, paidBatches>>

-----------------------------------------------------------------------------
(* The chain.  Without the race "twice" the keeper gets no output while a  *)
(* run has others in hand: with a new one the next run could pay what the  *)
(* first is about to complete.                                             *)

Confirms(value) ==
    /\ "twice" \in Races \/ \A c \in Clerks : clerk[c].inputs = {}
    /\ coins < MaxCoins /\ coins' = coins + 1
    /\ unspent' = unspent \cup {[n |-> coins + 1, value |-> value]}

MineBatch ==
    \E b \in batches :
        /\ Confirms(b.change)
        /\ batches' = batches \ {b}
        /\ UNCHANGED <<vars, paidBatches, clerk>>

(* Accumulated deposits reach the keeper. *)
KeeperReceives == Confirms(KeeperFunds) /\ UNCHANGED <<vars, batches, paidBatches, clerk>>

ClerkRuns(c) ==
    \/ SelectRequests(c) \/ SendFromKeeper(c)
    \/ SaveItem(c) \/ AssertItem(c) \/ CompleteItem(c)

(* The handlers of the views and of the administrator are those of every   *)
(* chain; so is the race "cancel".                                         *)
BeginAnyHandler ==
    /\ BeginHandler
    /\ "cancel" \in Races
        \/ \A a \in Actors : task'[a] # task[a] => ~InBatch(task'[a].id)

EvmNext ==
    \/ CreateRequest \/ ExpireRequest \/ BeginAnyHandler
    \/ \E a \in Actors : RunHandler(a)
    \/ ProcessPayouts
    \/ \E w \in Workers : PayoutWorker(w) \/ Crash(w)
    \/ LockExpires \/ Mine \/ Scan
    \/ \E a \in Checkers : CheckTx(a)
    \/ CheckLost \/ \E a \in Actors : SettleDies(a)
    \/ Quiescent

BtcNext ==
    \/ EvmNext /\ UNCHANGED btcVars
    \/ \E c \in Clerks : ReadKeeper(c) \/ ClerkRuns(c) \/ ClerkDies(c)
    \/ MineBatch \/ KeeperReceives

BtcSpec == BtcInit /\ [][BtcNext]_allVars

(* As in EvmPayouts; a run that has begun goes on, though nobody has to    *)
(* begin one.                                                              *)
BtcFairSpec ==
    /\ BtcSpec
    /\ \A a \in Actors : WF_allVars(RunHandler(a) /\ UNCHANGED btcVars)
    /\ \A a \in Checkers : WF_allVars(CheckTx(a) /\ UNCHANGED btcVars)
    /\ \A w \in Workers : /\ WF_allVars(PayoutWorker(w) /\ UNCHANGED btcVars)
                          /\ SF_allVars(SeesFreeNonce(w) /\ UNCHANGED btcVars)
    /\ WF_allVars(Mine /\ UNCHANGED btcVars) /\ WF_allVars(LockExpires /\ UNCHANGED btcVars)
    /\ WF_allVars(Scan /\ scanned' # scanned /\ UNCHANGED btcVars)
    /\ \A c \in Clerks : WF_allVars(ClerkRuns(c))
    /\ WF_allVars(MineBatch)

-----------------------------------------------------------------------------
(* Properties.                                                             *)

PaidByBatches(r) == Cardinality({i \in DOMAIN paidBatches : r \in paidBatches[i]})

(* A request on either chain is paid out once or given back once, and      *)
(* never both, though two administrators may pay at a time and runs fail   *)
(* before they have sent (process_withdrawals, withdraw_coin, cancel).     *)
AllPromise == INSTANCE Payout WITH
    settled <- transaction, paid <- [r \in Requests |-> PaidTimes(r) + PaidByBatches(r)]
AllPayoutsPromise == AllPromise!Spec

(* Each request of a payout transaction that was sent is completed, and    *)
(* not only the first of the batch (process_withdrawals, complete).        *)
BatchesSettle ==
    \A r \in Elsewhere : PaidByBatches(r) > 0 ~> transaction[r] = "COMPLETED"

==============================================================================

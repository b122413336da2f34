------------------------------ MODULE EvmPayouts ------------------------------
(***************************************************************************)
(* Payouts on an EVM chain: process_payouts enqueues a task per approved   *)
(* request; the task takes the nonce lock, sends a transaction, records it *)
(* in the row, waits for the receipt and, when none comes, sends the       *)
(* transaction again with the same nonce and a higher gas price.  The      *)
(* block scanner finds the mined transactions among those recorded and     *)
(* starts the task that completes or fails the request.                    *)
(*                                                                         *)
(* withdraw_coin and withdraw_tokens are one model: they differ in how     *)
(* amounts and gas are computed.  A block holds one keeper transaction.    *)
(***************************************************************************)
EXTENDS WithdrawalRequest, Sequences

CONSTANTS
    Workers,     \* Celery processes of the <currency>_payouts queue
    Checkers,    \* those that run check_tx_withdrawal tasks
    Elsewhere,   \* requests in the currency of another chain
    TooSmall,    \* requests not above the withdrawal fee when they are paid out
    MaxNonce,    \* bound: nonces used in a behaviour
    MaxPrice,    \* bound: gas prices
    MaxQueued,   \* bound: tasks waiting for one request
    MaxCrashes,  \* bound: tasks that die or raise on their way
    Races        \* what the code leaves to timing (RaceKinds)

(* "cancel": a handler may change a request whose payout has begun.        *)
(* "save":   an administrator's full save may write an object loaded       *)
(*           before another handler's commit.                              *)
(* "twice":  process_payouts may run again before the tasks it enqueued.   *)
(* "scan":   a block may be scanned before its transaction is recorded.    *)
(* "crash":  a worker may die between sending and recording, or save raise *)
(*           because the user's payouts were frozen in between.            *)
RaceKinds == {"cancel", "save", "twice", "scan", "crash"}

Tx == [id : Requests, nonce : 0 .. MaxNonce, price : 1 .. MaxPrice]

ASSUME PayoutAssumption ==
    /\ MaxNonce \in Nat /\ MaxPrice \in Nat \ {0}
    /\ MaxQueued \in Nat /\ MaxCrashes \in Nat
    /\ TooSmall \subseteq Requests /\ Elsewhere \subseteq Requests
    /\ Workers \subseteq Actors /\ Checkers \subseteq Actors \ Workers
    /\ Hashes = Tx
    /\ Handlers \subseteq Ops \ (Settles \cup {"none"})
    /\ Races \subseteq RaceKinds

VARIABLES
    payouts,   \* the payouts queue: how many tasks wait for each request
    worker,    \* the withdraw task of each payout worker
    lock,      \* cache: is nonce_<keeper>_lock set
    keyLost,   \* history: was the key set twice, or gone while it was needed
    pool,      \* node: the keeper's transactions that are not mined
    mined,     \* chain: the keeper's mined transactions, and whether they succeeded
    scanned,   \* how many of them are in processed blocks
    checks,    \* check_tx_withdrawal tasks: request and validity of the transaction
    crashes,   \* how many tasks died or raised
    forgotten  \* history: requests whose check was lost, or whose transaction
               \* another withdrawal's has replaced

chainVars == <<lock, keyLost, pool, mined, scanned>>
payoutVars == <<payouts, worker, checks, crashes, forgotten>>
vars == <<requestVars, chainVars, payoutVars>>

NoTx == [id |-> "none", nonce |-> 0, price |-> 1]
Steps == {"idle", "nonce", "free", "send", "save", "receipt"}
Withdraw == [step : Steps, id : Requests \cup {"none"}, obj : Row,
             tx : Tx \cup {NoTx}]
NoWithdraw == [step |-> "idle", id |-> "none", obj |-> NoRow, tx |-> NoTx]

Used == {mined[i].tx : i \in 1 .. Len(mined)}

(* A withdraw task for r is queued or running, or what it sent is not settled. *)
InPayout(r) ==
    \/ payouts[r] > 0 \/ req[r].state = "PENDING"
    \/ \E w \in Workers : worker[w].id = r
    \/ \E t \in pool : t.id = r

-----------------------------------------------------------------------------
(* The views and the administrator (see WithdrawalRequest).                *)

Busy(r, ops) == \E a \in Actors : task[a].id = r /\ task[a].op \in ops

FullSaves == AdminSaves \cup {"admin_cancel"}

(* Web processes, the admin, the expiry task. *)
Web == Actors \ (Workers \cup Checkers)

BeginHandler ==
    \E a \in Web, op \in Handlers, r \in Requests :
        /\ "cancel" \in Races \/ ~InPayout(r)
        /\ "save" \in Races \/ ~Busy(r, IF op \in FullSaves THEN Ops ELSE FullSaves)
        /\ Begin(a, op, r)
        /\ UNCHANGED <<chainVars, payoutVars>>

RunHandler(a) == Handle(a) /\ UNCHANGED <<chainVars, payoutVars>>

CreateRequest == \E r \in Requests : Create(r) /\ UNCHANGED <<chainVars, payoutVars>>

ExpireRequest == \E r \in Requests : Expires(r) /\ UNCHANGED <<chainVars, payoutVars>>

-----------------------------------------------------------------------------
(* The payout tasks.                                                       *)

ToProcess == {r \in Requests \ Elsewhere : /\ req[r].state = "CREATED"
                                           /\ req[r].approved /\ req[r].confirmed}

ProcessPayouts ==
    /\ ToProcess # {}
    /\ \A r \in ToProcess : /\ payouts[r] < MaxQueued
                            /\ "twice" \in Races \/ ~InPayout(r)
                            /\ "cancel" \in Races \/ ~Busy(r, Ops)
    /\ payouts' = [r \in Requests |-> payouts[r] + IF r \in ToProcess THEN 1 ELSE 0]
    /\ UNCHANGED <<requestVars, chainVars, worker, checks, crashes, forgotten>>

WithdrawSteps(w, x) == worker' = [worker EXCEPT ![w] = x]

(* withdraw_coin up to the nonce: the request is read, whatever its state. *)
(* A keeper without funds ends the task.                                   *)
StartWithdraw(w) ==
    \E r \in Requests :
        /\ worker[w].step = "idle" /\ Idle(w) /\ payouts[r] > 0
        /\ payouts' = [payouts EXCEPT ![r] = @ - 1]
        /\ IF r \in TooSmall
           THEN Loads(w, "fail", r, req[r]) /\ UNCHANGED worker
           ELSE /\ \/ WithdrawSteps(w, [step |-> "nonce", id |-> r, obj |-> req[r], tx |-> NoTx])
                   \/ UNCHANGED worker
                /\ UNCHANGED task
        /\ UNCHANGED <<req, transaction, account, expired, chainVars, checks, crashes,
                       forgotten>>

(* wait_for_nonce reads the key until it is gone, which another worker may *)
(* find as well ...                                                        *)
SeesFreeNonce(w) ==
    /\ worker[w].step = "nonce" /\ ~lock
    /\ WithdrawSteps(w, [worker[w] EXCEPT !.step = "free"])
    /\ UNCHANGED <<requestVars, chainVars, payouts, checks, crashes, forgotten>>

(* A plausible bug: the key is waited for and never set. *)
TakeNonceUnset(w) ==
    \E p \in 1 .. MaxPrice :
        /\ worker[w].step = "free" /\ Len(mined) <= MaxNonce
        /\ WithdrawSteps(w, [worker[w] EXCEPT !.step = "send",
                                 !.tx = [id |-> worker[w].id, nonce |-> Len(mined), price |-> p]])
        /\ UNCHANGED <<requestVars, chainVars, payouts, checks, crashes, forgotten>>

(* ... then sets it, whoever has set it since, and asks the node for the   *)
(* number of mined transactions.                                           *)
TakeNonce(w) ==
    \E p \in 1 .. MaxPrice :
        /\ worker[w].step = "free" /\ Len(mined) <= MaxNonce
        /\ lock' = TRUE /\ keyLost' = (keyLost \/ lock)
        /\ WithdrawSteps(w, [worker[w] EXCEPT !.step = "send",
                                 !.tx = [id |-> worker[w].id, nonce |-> Len(mined), price |-> p]])
        /\ UNCHANGED <<requestVars, pool, mined, scanned, payouts, checks, crashes, forgotten>>

(* The node takes a transaction whose nonce is not used, and in place of a  *)
(* pending one with that nonce only at a higher price.                      *)
SameNonce(t) == {u \in pool : u.nonce = t.nonce}
Replaces(t) == {u.id : u \in SameNonce(t)} \ {t.id}
Accepts(t) == t.nonce >= Len(mined) /\ \A u \in SameNonce(t) : t.price > u.price

(* A task whose transaction is refused releases the key, whether or not an *)
(* earlier one is pending.                                                 *)
Send(w) ==
    LET t == worker[w].tx IN
    /\ worker[w].step = "send"
    /\ \/ /\ Accepts(t)
          /\ pool' = (pool \ SameNonce(t)) \cup {t}
          /\ WithdrawSteps(w, [worker[w] EXCEPT !.step = "save"])
          /\ forgotten' = forgotten \cup Replaces(t)
          /\ UNCHANGED <<lock, keyLost>>
       \/ /\ lock' = FALSE /\ keyLost' = (keyLost \/ pool # {})
          /\ WithdrawSteps(w, NoWithdraw)
          /\ UNCHANGED <<pool, forgotten>>
    /\ UNCHANGED <<requestVars, mined, scanned, payouts, checks, crashes>>

(* A plausible bug: only the first attempt is recorded. *)
SaveAttemptOnce(w) ==
    LET x == worker[w].obj
        sent == IF x.attempts = {} THEN {worker[w].tx} ELSE x.attempts
        r == worker[w].id
    IN  /\ worker[w].step = "save"
        /\ req' = [req EXCEPT ![r].state = "PENDING", ![r].attempts = sent]
        /\ WithdrawSteps(w, [worker[w] EXCEPT !.step = "receipt"])
        /\ UNCHANGED <<transaction, account, expired, task, chainVars,
                       payouts, checks, crashes, forgotten>>

(* The state and data columns are saved, from the object the task loaded,  *)
(* unless save refuses it.                                                 *)
SaveAttempt(w) ==
    LET x == worker[w].obj
        sent == x.attempts \cup {worker[w].tx}
        r == worker[w].id
    IN  /\ worker[w].step = "save"
        /\ IF x.approved => x.confirmed
           THEN /\ req' = [req EXCEPT ![r].state = "PENDING", ![r].attempts = sent]
                /\ WithdrawSteps(w, [worker[w] EXCEPT !.step = "receipt"])
           ELSE WithdrawSteps(w, NoWithdraw) /\ UNCHANGED req
        /\ UNCHANGED <<transaction, account, expired, task, chainVars,
                       payouts, checks, crashes, forgotten>>

Receipt(w) ==
    /\ worker[w].step = "receipt" /\ worker[w].tx \in Used
    /\ lock' = FALSE
    /\ WithdrawSteps(w, NoWithdraw)
    /\ UNCHANGED <<requestVars, keyLost, pool, mined, scanned, payouts, checks, crashes,
                   forgotten>>

(* No receipt in time: withdraw_coin calls itself, which reads the row     *)
(* again and, without taking the lock, raises the price.                   *)
Resend(w) ==
    LET t == worker[w].tx IN
    /\ worker[w].step = "receipt" /\ t \notin Used /\ t.price < MaxPrice
    /\ WithdrawSteps(w, [worker[w] EXCEPT !.step = "send", !.obj = req[t.id],
                                          !.tx.price = @ + 1])
    /\ UNCHANGED <<requestVars, chainVars, payouts, checks, crashes, forgotten>>

(* The second call returns early, because the transaction has been mined   *)
(* meanwhile or the keeper lacks the gas: nobody releases the nonce.       *)
GiveUp(w) ==
    /\ worker[w].step = "receipt"
    /\ WithdrawSteps(w, NoWithdraw)
    /\ UNCHANGED <<requestVars, chainVars, payouts, checks, crashes, forgotten>>

(* A worker dies or its task raises; it was acknowledged when it began. *)
Crash(w) ==
    /\ worker[w].step # "idle" /\ crashes < MaxCrashes
    /\ worker[w].step = "save" => "crash" \in Races
    /\ crashes' = crashes + 1
    /\ WithdrawSteps(w, NoWithdraw)
    /\ UNCHANGED <<requestVars, chainVars, payouts, checks, forgotten>>

(* A plausible bug: the key is set without a timeout. *)
LockStays == FALSE

HasNonce == {"send", "save", "receipt"}

(* The key is set for 300 seconds, whatever its owner is doing. *)
LockExpires ==
    /\ lock /\ lock' = FALSE
    /\ keyLost' = (keyLost \/ pool # {} \/ \E w \in Workers : worker[w].step \in HasNonce)
    /\ UNCHANGED <<requestVars, pool, mined, scanned, payoutVars>>

-----------------------------------------------------------------------------
(* The chain and the block scanner.                                        *)

Mine ==
    \E t \in pool, ok \in BOOLEAN :
        /\ t.nonce = Len(mined)
        /\ mined' = Append(mined, [tx |-> t, ok |-> ok])
        /\ pool' = pool \ SameNonce(t)
        /\ UNCHANGED <<requestVars, lock, keyLost, scanned, payoutVars>>

(* A plausible bug: the scanner takes any keeper transaction for a payout. *)
AwaitingAny(t) == {r \in Requests : /\ req[r].state = "PENDING"
                                    /\ req[r].approved /\ req[r].confirmed}

(* Requests the scanner looks for the transaction in. *)
Awaiting(t) == {r \in Requests : /\ req[r].state = "PENDING"
                                 /\ req[r].approved /\ req[r].confirmed
                                 /\ t \in req[r].attempts}

(* The next block, or the last one again, which every run starts with. *)
Scan ==
    \E i \in {scanned, scanned + 1} \cap (1 .. Len(mined)) :
        LET t == mined[i].tx IN
        /\ "scan" \in Races
            \/ \A w \in Workers : worker[w].step = "save" => worker[w].tx # t
        /\ checks' = checks \cup {[id |-> r, ok |-> mined[i].ok] : r \in Awaiting(t)}
        /\ scanned' = i
        /\ UNCHANGED <<requestVars, lock, keyLost, pool, mined, payouts, worker, crashes,
                       forgotten>>

(* A plausible bug: a mined transaction is taken for a successful one. *)
CheckTxMined(a) ==
    \E c \in checks :
        /\ Idle(a)
        /\ checks' = checks \ {c}
        /\ IF req[c.id].state = "PENDING"
           THEN Loads(a, "complete", c.id, req[c.id])
           ELSE UNCHANGED task
        /\ UNCHANGED <<req, transaction, account, expired, chainVars,
                       payouts, worker, crashes, forgotten>>

(* check_tx_withdrawal finds the request only while it is PENDING, and     *)
(* waits for the receipt ...                                               *)
CheckTx(a) ==
    \E c \in checks :
        /\ Idle(a)
        /\ checks' = checks \ {c}
        /\ IF req[c.id].state = "PENDING"
           THEN Loads(a, IF c.ok THEN "complete" ELSE "fail", c.id, req[c.id])
           ELSE UNCHANGED task
        /\ UNCHANGED <<req, transaction, account, expired, chainVars,
                       payouts, worker, crashes, forgotten>>

(* ... when none comes in time RetryRequired is raised, for which this     *)
(* task, unlike those of deposits, has no autoretry; or the process dies.  *)
CheckLost ==
    \E c \in checks :
        /\ crashes < MaxCrashes /\ crashes' = crashes + 1
        /\ checks' = checks \ {c}
        /\ forgotten' = forgotten \cup {c.id}
        /\ UNCHANGED <<requestVars, chainVars, payouts, worker>>

(* A process dies before it has completed or failed its request. *)
SettleDies(a) ==
    /\ task[a].op \in Settles
    /\ crashes < MaxCrashes /\ crashes' = crashes + 1
    /\ Ends(a)
    /\ forgotten' = forgotten \cup {task[a].id}
    /\ UNCHANGED <<req, transaction, account, expired, chainVars, payouts, worker, checks>>

-----------------------------------------------------------------------------
Init ==
    /\ RequestInit
    /\ payouts = [r \in Requests |-> 0]
    /\ worker = [w \in Workers |-> NoWithdraw]
    /\ lock = FALSE /\ keyLost = FALSE /\ pool = {} /\ mined = <<>> /\ scanned = 0
    /\ checks = {} /\ crashes = 0 /\ forgotten = {}

PayoutWorker(w) ==
    \/ StartWithdraw(w) \/ SeesFreeNonce(w) \/ TakeNonce(w) \/ Send(w) \/ SaveAttempt(w)
    \/ Receipt(w) \/ Resend(w) \/ GiveUp(w)

(* Nothing is left to do until somebody asks for something. *)
Quiescent ==
    /\ \A a \in Actors : Idle(a)
    /\ \A w \in Workers : worker[w].step = "idle"
    /\ \A r \in Requests : payouts[r] = 0
    /\ pool = {} /\ checks = {} /\ ~lock
    /\ UNCHANGED vars

Next ==
    \/ CreateRequest \/ ExpireRequest \/ BeginHandler
    \/ \E a \in Actors : RunHandler(a)
    \/ ProcessPayouts
    \/ \E w \in Workers : PayoutWorker(w) \/ Crash(w)
    \/ LockExpires \/ Mine \/ Scan
    \/ \E a \in Checkers : CheckTx(a)
    \/ CheckLost \/ \E a \in Actors : SettleDies(a)
    \/ Quiescent

Spec == Init /\ [][Next]_vars

(* Processes go on with what they began and with what waits in their queue, *)
(* the node mines what it can, the scanner runs every few seconds and the   *)
(* nonce key expires.  A worker that polls for the nonce every second does  *)
(* not miss it each time it is free.                                        *)
FairSpec ==
    /\ Spec
    /\ \A a \in Actors : WF_vars(RunHandler(a))
    /\ \A a \in Checkers : WF_vars(CheckTx(a))
    /\ \A w \in Workers : WF_vars(PayoutWorker(w)) /\ SF_vars(SeesFreeNonce(w))
    /\ WF_vars(Mine) /\ WF_vars(LockExpires) /\ WF_vars(Scan /\ scanned' # scanned)

-----------------------------------------------------------------------------
(* Properties.                                                             *)

(* Every variable has the type its column or object has; no balance is     *)
(* ever negative.                                                          *)
TypeOK ==
    /\ RequestTypeOK
    /\ payouts \in [Requests -> Nat]
    /\ worker \in [Workers -> Withdraw]
    /\ lock \in BOOLEAN /\ keyLost \in BOOLEAN
    /\ pool \subseteq Tx
    /\ mined \in Seq([tx : Tx, ok : BOOLEAN])
    /\ scanned \in 0 .. Len(mined)
    /\ checks \subseteq [id : Requests, ok : BOOLEAN]
    /\ crashes \in Nat /\ forgotten \subseteq Requests

PaidTimes(r) == Cardinality({i \in 1 .. Len(mined) : mined[i].tx.id = r /\ mined[i].ok})

(* A request is paid out once or given back once, and never both: whatever *)
(* the order of cancels, expiry, resends, crashes and repeated scans.      *)
Promise == INSTANCE Payout WITH settled <- transaction, paid <- [r \in Requests |-> PaidTimes(r)]
PayoutPromise == Promise!Spec

(* complete() asserts that the money of a request whose payment is mined   *)
(* is still held for it (assert self.transaction.state ==                  *)
(* TRANSACTION_PENDING).                                                   *)
CompleteFindsMoneyHeld ==
    \A a \in Checkers : task[a].op = "complete" /\ ~task[a].checked
        => transaction[task[a].id] = "PENDING"

(* A request says COMPLETED only when the chain holds its payment: neither *)
(* a stale full save nor a repeated check can complete an unpaid request.  *)
CompletedWerePaid == \A r \in Requests : req[r].state = "COMPLETED" => PaidTimes(r) > 0

(* A request that is still to be paid out is approved only when its owner  *)
(* confirmed it, although approval and confirmation are separate columns   *)
(* saved by handlers that may hold old copies of both.                     *)
ApprovedAreConfirmed ==
    \A r \in Requests :
        req[r].state \in {"CREATED", "VERIFYING"} /\ req[r].approved => req[r].confirmed

(* The request and its money agree: cancelled and failed requests are      *)
(* given back, completed ones spent, all others held.                      *)
StateMatchesMoney ==
    \A r \in Requests :
        transaction[r] = CASE req[r].state = "NONE" -> "NONE"
                           [] req[r].state = "COMPLETED" -> "COMPLETED"
                           [] req[r].state \in {"FAILED", "CANCELLED"} -> "CANCELED"
                           [] OTHER -> "PENDING"

(* No payout is forgotten but in two ways: its check was lost, or another  *)
(* withdrawal's transaction took the place of its own.  Otherwise a        *)
(* PENDING request has a recorded transaction that may still be mined or   *)
(* scanned, a check on its way, or a worker that is about to record one    *)
(* (withdraw_coin, process_block, check_tx_withdrawal).                    *)
PendingIsFollowed ==
    \A r \in Requests \ forgotten : req[r].state = "PENDING" =>
        \/ \E t \in req[r].attempts : t \in pool
        \/ \E i \in (scanned + 1) .. Len(mined) : mined[i].tx \in req[r].attempts
        \/ \E c \in checks : c.id = r
        \/ Busy(r, Settles)
        \/ \E w \in Workers : worker[w].step = "save" /\ worker[w].id = r

(* Only through the loss of the nonce key does a transaction for one       *)
(* withdrawal take the place of another's: as long as no worker set the    *)
(* key over another's and it did not go while a nonce was in use, only     *)
(* resends replace, although workers read and set it in two calls, die and *)
(* give up with it (wait_for_nonce, release_nonce).                        *)
ReplacedByOwnResend ==
    [][~keyLost => \A t \in pool, u \in pool' \ pool : t.nonce = u.nonce => t.id = u.id]_vars

(* A request whose transaction was sent does not stay PENDING for ever,    *)
(* but for the two ways of being forgotten.                                *)
PayoutsSettle ==
    \A r \in Requests :
        req[r].state = "PENDING" ~> req[r].state # "PENDING" \/ r \in forgotten

(* A withdraw task ends: a worker that died or gave up with the nonce      *)
(* locked does not block the others for ever.                              *)
WithdrawTasksEnd ==
    \A w \in Workers : worker[w].step # "idle" ~> worker[w].step = "idle"

==============================================================================

---------------------------- MODULE EvmPayoutsInv ----------------------------
(***************************************************************************)
(* Inductive invariants of EvmPayouts.  First the one behind               *)
(* CompletedWerePaid and ApprovedAreConfirmed: a row is written from       *)
(* objects that were loaded long before, so each object, wherever it is    *)
(* held, has to satisfy what the row has to.  Then those behind the other  *)
(* properties.  Parts are stated for given values of the variables they    *)
(* relate.                                                                 *)
(***************************************************************************)
EXTENDS EvmPayouts

(* The requests the chain m holds a payment of. *)
PaidIn(m) == {m[i].tx.id : i \in {j \in 1 .. Len(m) : m[j].ok}}

(* What the row of r, and every copy of it, satisfies.  A request of       *)
(* another chain is paid there.                                            *)
ObjectOK(m, r, x) ==
    /\ x.state = "COMPLETED" => r \in PaidIn(m) \cup Elsewhere
    /\ x.state \in {"CREATED", "VERIFYING"} /\ x.approved => x.confirmed
    /\ \A t \in x.attempts : t.id = r

RowsOK(m, rows) == \A r \in Requests : ObjectOK(m, r, rows[r])

TaskOK(m, t) ==
    t.op # "none" => /\ t.id \in Requests
                     /\ ObjectOK(m, t.id, t.obj)
                     /\ t.op = "complete" => t.id \in PaidIn(m)

TasksOK(m, ts) == \A a \in Actors : TaskOK(m, ts[a])

WithdrawOK(x) ==
    /\ x.step # "idle" => x.id \in Requests /\ \A t \in x.obj.attempts : t.id = x.id
    /\ x.step \in {"send", "save", "receipt"} => x.tx \in Tx /\ x.tx.id = x.id

WithdrawsOK(ws) == \A w \in Workers : WithdrawOK(ws[w])

ChecksOK(m, cs) == \A c \in cs : c.ok => c.id \in PaidIn(m)

(* A completion is only begun for a payment the chain holds, an attempt is *)
(* only recorded in the row it was sent for, and no copy of a row is       *)
(* approved without being confirmed while it is open.                      *)
PayoutInv ==
    /\ TypeOK
    /\ RowsOK(mined, req)
    /\ TasksOK(mined, task)
    /\ WithdrawsOK(worker)
    /\ ChecksOK(mined, checks)

-----------------------------------------------------------------------------
(* The tasks and the transactions of this chain are for its own requests;  *)
(* it completes no other.                                                  *)

Known == pool \cup Used
Sent(r) == \E t \in Known : t.id = r

HereAt(r) ==
    /\ payouts[r] = 0 /\ ~Sent(r)
    /\ \A w \in Workers : worker[w].id # r
    /\ \A c \in checks : c.id # r
    /\ \A a \in Actors : task[a].id = r => task[a].op \notin Settles

HereInv == \A r \in Elsewhere : HereAt(r)

OpenAt(r) ==
    /\ req[r].state # "COMPLETED"
    /\ \A a \in Actors : task[a].id = r => task[a].obj.state # "COMPLETED"

OpenElsewhere == \A r \in Elsewhere : OpenAt(r)

-----------------------------------------------------------------------------
(* Nonces are mined in order, and one transaction is pending for each.     *)
ChainInv ==
    /\ \A i \in 1 .. Len(mined) : mined[i].tx.nonce = i - 1
    /\ \A t \in pool : t.nonce >= Len(mined)
    /\ \A t, u \in pool : t.nonce = u.nonce => t = u

(* The inductive invariant behind ReplacedByOwnResend: until the key is    *)
(* lost one worker at a time has a nonce, and what is pending is what that *)
(* worker sent.                                                            *)
LockInv ==
    /\ \A v, w \in Workers : v # w /\ worker[v].step \in HasNonce => worker[w].step \notin HasNonce
    /\ \A w \in Workers : worker[w].step \in HasNonce => lock /\ worker[w].tx.nonce <= Len(mined)
    /\ ~lock => pool = {}
    /\ \A t \in pool : t.nonce = Len(mined) /\ \A u \in pool : u = t
    /\ \A w \in Workers, t \in pool :
           worker[w].step \in HasNonce =>
               /\ t.id = worker[w].id /\ t.nonce = worker[w].tx.nonce
               /\ worker[w].step = "send" => t.price < worker[w].tx.price
               /\ worker[w].step # "send" => t = worker[w].tx

KeyInv == ~keyLost => LockInv

-----------------------------------------------------------------------------
(* The inductive invariant behind StateMatchesMoney and PayoutPromise.     *)
(* Nobody else is at a request that is paid out or saved whole, all its    *)
(* transactions have one nonce, and so at most one of them is mined.       *)

(* The requests the chain m holds a failed payment of. *)
FailedIn(m) == {m[i].tx.id : i \in {j \in 1 .. Len(m) : ~m[j].ok}}

MoneyOf(state) ==
    CASE state = "NONE" -> "NONE"
      [] state = "COMPLETED" -> "COMPLETED"
      [] state \in {"FAILED", "CANCELLED"} -> "CANCELED"
      [] OTHER -> "PENDING"

SentStates == {"PENDING", "COMPLETED", "FAILED"}

(* The row of r. *)
RowInv(r) ==
    /\ transaction[r] = MoneyOf(req[r].state)
    /\ req[r].state \in {"NONE", "CREATED", "VERIFYING"} => req[r].attempts = {}
    /\ req[r].state = "FAILED" => r \in TooSmall \cup FailedIn(mined)
    /\ InPayout(r) => req[r].state # "NONE" /\ req[r].approved /\ req[r].confirmed
    /\ Sent(r) => /\ r \notin TooSmall
                  /\ \/ req[r].state \in SentStates
                     \/ \E w \in Workers : worker[w].id = r /\ worker[w].step = "save"

(* The payout queue, and the checks. *)
QueueInv(r) ==
    payouts[r] > 0 =>
        /\ payouts[r] = 1 /\ req[r].state = "CREATED" /\ ~Sent(r)
        /\ \A a \in Actors : task[a].id # r
        /\ \A w \in Workers : worker[w].id # r

CheckInv(r) ==
    \A c \in checks : c.id = r => /\ req[r].state \in SentStates
                                  /\ ~c.ok => r \in FailedIn(mined)

(* The transactions of r have one nonce. *)
NonceInv(r) == \A t, u \in Known : t.id = r /\ u.id = r => t.nonce = u.nonce

(* A handler t that completes or fails r, whose row is y. *)
SettleInv(t, r, y) ==
    /\ t.obj.approved /\ t.obj.confirmed /\ t.obj.attempts = y.attempts
    /\ t.op = "complete" => t.obj.state = "PENDING" /\ y.state \in {"PENDING", "COMPLETED"}
    /\ t.op = "fail" =>
           \/ r \in TooSmall /\ t.obj.state = "CREATED"
           \/ /\ r \in FailedIn(mined) /\ t.obj.state = "PENDING"
              /\ y.state \in {"PENDING", "FAILED"}

(* The handlers at r: one that saves its object whole is alone, and the    *)
(* object is the row; only such as settle it are at one that is paid out.  *)
HandlerInv(a, r) ==
    /\ req[r].state # "NONE"
    /\ task[a].op \in FullSaves => task[a].obj = req[r] /\ \A b \in Actors \ {a} : task[b].id # r
    /\ task[a].op = "disable_user" => req[r].state = "VERIFYING"
    /\ task[a].op \in Settles => SettleInv(task[a], r, req[r])
    /\ task[a].op \notin Settles => ~InPayout(r)

(* A payout worker's attempt x at r, whose row is y. *)
AttemptInv(x, r, y) ==
    /\ r \notin TooSmall /\ x.obj.approved /\ x.obj.confirmed /\ x.obj.attempts \subseteq y.attempts
    /\ x.step \in {"nonce", "free"} => y.state = "CREATED" /\ ~Sent(r)
    /\ x.step = "send" => y.state \in SentStates \/ (y.state = "CREATED" /\ ~Sent(r))
    /\ x.step = "save" => y.state \in {"CREATED", "PENDING"}
    /\ x.step = "receipt" => y.state \in SentStates
    /\ x.step \in HasNonce => \A t \in Known : t.id = r => t.nonce = x.tx.nonce
    /\ x.step \in {"send", "save"} => \A t \in y.attempts : t.price < x.tx.price
    /\ x.step = "receipt" => \A t \in y.attempts : t.price <= x.tx.price

WorkerInv(w, r) ==
    /\ AttemptInv(worker[w], r, req[r])
    /\ \A v \in Workers \ {w} : worker[v].id # r
    /\ worker[w].step = "save" =>
           /\ \A t \in Known : t.id = r => t = worker[w].tx
           /\ \A c \in checks : c.id # r
           /\ \A a \in Actors : task[a].id # r

RequestInv(r) ==
    /\ RowInv(r) /\ QueueInv(r) /\ CheckInv(r) /\ NonceInv(r)
    /\ \A a \in Actors : task[a].id = r => HandlerInv(a, r)
    /\ \A w \in Workers : worker[w].id = r => WorkerInv(w, r)

IdleInv ==
    /\ \A a \in Actors : task[a].op = "none" => task[a] = NoTask
    /\ \A w \in Workers : worker[w].step = "idle" => worker[w] = NoWithdraw

MoneyInv == PayoutInv /\ HereInv /\ ChainInv /\ IdleInv /\ \A r \in Requests : RequestInv(r)

(* What a worker has sent is pending or mined, unless another withdrawal's *)
(* transaction took its place, and until it is recorded its block is not   *)
(* scanned; and what is too small is never sent.                           *)
FollowInv ==
    /\ PendingIsFollowed
    /\ \A r \in Requests : req[r].state = "PENDING" => r \notin TooSmall
    /\ \A w \in Workers :
           worker[w].step = "save" /\ worker[w].id \notin forgotten =>
               /\ worker[w].tx \in Known
               /\ \A i \in 1 .. scanned : mined[i].tx # worker[w].tx

==============================================================================

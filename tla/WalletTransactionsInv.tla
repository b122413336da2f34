------------------------ MODULE WalletTransactionsInv ------------------------
(***************************************************************************)
(* Inductive invariants of the handlers of WalletTransactions rows, and    *)
(* what a step of a handler means to the ledger of deposits.               *)
(***************************************************************************)
EXTENDS WalletTransactions

(* The steps at which each kind of handler can be. *)
StepsOf(op) ==
    CASE op = "none" -> {"idle"}
      [] op = "insert" -> {"create", "check"}
      [] op = "score" -> {"score", "topup", "credit", "save"}
      [] op = "force" -> {"topup", "credit", "unblock"}
      [] op = "external" -> {"save"}
      [] op = "revert" -> {"revert"}

Inserting(t) == t.step = "create"
Working(t) == t.op # "none" /\ t.step # "create"

(* A handler beyond its first step works on a copy of a row. *)
Shaped(t) ==
    /\ t.step \in StepsOf(t.op)
    /\ t.op = "none" => t.id = NoId
    /\ t.op # "none" => t.id \in Rows
    /\ Working(t) => t.obj \in Row
    /\ t.step = "check" => t.obj = Created

(* Every row, handler and counter has its type, and the row a handler is   *)
(* at exists, whatever races. *)
RowsSound ==
    /\ RowTypeInv
    /\ \A a \in Actors : Shaped(task[a])
    /\ \A a \in Actors : Working(task[a]) => Exists(task[a].id)

(* A handler that is about to credit a row was started by force, or has    *)
(* asked for the score. *)
ToppedUp(t, rows) ==
    t.step \in {"topup", "credit"} =>
        IF t.op = "force" THEN t.id \in rows ELSE t.id[1] \notin LowScore

LowScoresInv ==
    /\ \A a \in Actors : ToppedUp(task[a], forced)
    /\ \A r \in Rows : credits[r] > 0 /\ r[1] \in LowScore => r \in forced

(* What excludes that a row is credited or charged twice: one handler at a *)
(* row, one row x for a transfer, a transaction tx that remembers the      *)
(* credit and a row that remembers the revert. *)
RowOnce(x, copy, tx, credit, charge) ==
    /\ x.state # "none" => copy = 1
    /\ x.state = "none" => tx = "none" /\ ~x.reverted
    /\ credit = IF tx = "COMPLETED" THEN 1 ELSE 0
    /\ charge = IF x.reverted THEN 1 ELSE 0

TaskOnce(t, x, tx) ==
    /\ t.id[2] = 1
    /\ Inserting(t) => x.state = "none"
    /\ Working(t) => t.obj.reverted = x.reverted
    /\ t.step = "check" => tx = "none"
    /\ t.step = "credit" => tx = "PENDING"
    /\ t.step = "revert" => ~x.reverted

OneHandler == \A a, b \in Actors : a # b /\ ~Idle(a) => task[a].id # task[b].id

OnceInv ==
    /\ OneHandler
    /\ \A r \in Rows : RowOnce(row[r], r[2], transaction[r], credits[r], charges[r])
    /\ \A a \in Actors :
           ~Idle(a) => TaskOnce(task[a], row[task[a].id], transaction[task[a].id])

(* States before check_balances takes a row. *)
Early == KytStates \cup {"none", "CREATED", "VERIFICATION_FAILED", "KYT_APPROVE_REJECTED"}

(* Whether what row x stands for may be moved on: it was credited, or an   *)
(* administrator gave it an external address. *)
Clear(x, credit) == x.external \/ credit > 0
Cleared(r) == Clear(row[r], credits[r])

(* A handler t has credited its row, is about to, or its copy is early. *)
CopyClear(t, credit) ==
    t.obj.state \in Early \/ t.step \in {"topup", "credit"} \/ Clear(t.obj, credit)

(* A row passes the early states only once it may be moved on, and no      *)
(* handler's copy has lost the external address. *)
RowsClear ==
    /\ \A r \in Rows : row[r].state \in Early \/ Cleared(r)
    /\ \A a \in Actors :
           Working(task[a]) =>
               /\ CopyClear(task[a], credits[task[a].id])
               /\ row[task[a].id].external => task[a].obj.external

Existing == {r \in Rows : Exists(r)}

(* The four things a step of a handler can be to the ledger. *)
LedgerRests == Existing' = Existing /\ UNCHANGED <<balance, credits, charges>>

LedgerEnters(r) ==
    /\ r \in Rows \ Existing /\ Existing' = Existing \cup {r}
    /\ UNCHANGED <<balance, credits, charges>>

LedgerCredits(r) ==
    /\ r \in Existing /\ credits[r] = 0 /\ Existing' = Existing
    /\ credits' = [credits EXCEPT ![r] = 1]
    /\ balance' = [balance EXCEPT ![WalletOf(r)] = @ + AmountOf(r)]
    /\ UNCHANGED charges

LedgerCharges(r) ==
    /\ r \in Existing /\ charges[r] = 0 /\ Existing' = Existing
    /\ charges' = [charges EXCEPT ![r] = 1]
    /\ balance[WalletOf(r)] >= AmountOf(r)
    /\ balance' = [balance EXCEPT ![WalletOf(r)] = @ - AmountOf(r)]
    /\ UNCHANGED credits

==============================================================================

-------------------------- MODULE WithdrawalRequest --------------------------
(***************************************************************************)
(* The rows WithdrawalRequest and their Transaction, and the handlers that *)
(* change them: the user's views, the expiry task, the administrator's     *)
(* actions, and complete and fail, which the payout modules start.         *)
(*                                                                         *)
(* A handler runs in steps, because others run between its statements: it  *)
(* loads the row, a handler that moves money then asserts on what it reads *)
(* (AssertState), and at last one database transaction writes.  An object  *)
(* loaded in full is saved in full, old columns included; the views and    *)
(* the expiry task load only the id, so that each later attribute is a     *)
(* fresh read and only what was read is saved.                             *)
(*                                                                         *)
(* A handler that raises changes nothing, as one that never began: the     *)
(* limit checks and the payout freeze of save are left out for that reason.*)
(* Where a payout has been sent before save raises, EvmPayouts has a step. *)
(***************************************************************************)
EXTENDS Naturals, FiniteSets

CONSTANTS
    Requests,   \* the withdrawals a behaviour may ask for
    Users,
    Owner,      \* user of each request
    Amount,     \* amount of each request
    Funds,      \* the balances the users may begin with
    Hashes,     \* hashes of blockchain transactions
    Actors,     \* processes that run handlers
    Handlers    \* which handlers of the views and of the admin may run

ASSUME WithdrawalAssumption ==
    /\ Owner \in [Requests -> Users]
    /\ Amount \in [Requests -> Nat]
    /\ Funds \subseteq [Users -> Nat]
    /\ "none" \notin Requests

VARIABLES
    req,          \* database: the WithdrawalRequest rows
    transaction,  \* database: state of the row's Transaction
    account,      \* database: Balance.amount of the currency, by user
    expired,      \* requests older than WITHDRAWAL_REQUEST_EXPIRATION_M
    task          \* what each process is doing, and the object it loaded

requestVars == <<req, transaction, account, expired, task>>

States == {"NONE", "CREATED", "PENDING", "COMPLETED", "FAILED", "CANCELLED", "VERIFYING"}

(* attempts: data['txs_attempts'], the hashes sent for the request. *)
Row == [state : States, confirmed : BOOLEAN, approved : BOOLEAN, attempts : SUBSET Hashes]
NoRow == [state |-> "NONE", confirmed |-> FALSE, approved |-> FALSE, attempts |-> {}]

AdminSaves == {"approve", "disable_approve", "admin_confirm", "unconfirm",
               "pause", "unpause", "disable_user"}
Cancels == {"cancel", "expire", "admin_cancel"}
Settles == {"complete", "fail"}
Ops == {"none", "confirm"} \cup AdminSaves \cup Cancels \cup Settles

Task == [op : Ops, id : Requests \cup {"none"}, obj : Row, checked : BOOLEAN]
NoTask == [op |-> "none", id |-> "none", obj |-> NoRow, checked |-> FALSE]

Exists(r) == req[r].state # "NONE"
Idle(a) == task[a] = NoTask
Ends(a) == task' = [task EXCEPT ![a] = NoTask]

-----------------------------------------------------------------------------
(* Creation: save takes the amount from the balance.                       *)

Create(r) ==
    /\ ~Exists(r)
    /\ account[Owner[r]] >= Amount[r]
    /\ account' = [account EXCEPT ![Owner[r]] = @ - Amount[r]]
    /\ req' = [req EXCEPT ![r] = [NoRow EXCEPT !.state = "CREATED"]]
    /\ transaction' = [transaction EXCEPT ![r] = "PENDING"]
    /\ UNCHANGED <<expired, task>>

Expires(r) ==
    /\ Exists(r) /\ r \notin expired
    /\ expired' = expired \cup {r}
    /\ UNCHANGED <<req, transaction, account, task>>

-----------------------------------------------------------------------------
(* Beginning a handler: the rows its query finds.                          *)

Finds(op, r) ==
    CASE op = "confirm" -> r \notin expired /\ ~req[r].confirmed
      [] op = "cancel" -> r \notin expired /\ ~req[r].confirmed
      [] op = "expire" -> r \in expired /\ req[r].state = "CREATED" /\ ~req[r].confirmed
      [] op = "disable_user" -> req[r].state = "VERIFYING"
      [] OTHER -> TRUE

Loads(a, op, r, x) ==
    task' = [task EXCEPT ![a] = [op |-> op, id |-> r, obj |-> x, checked |-> FALSE]]

Begin(a, op, r) ==
    /\ Idle(a) /\ Exists(r) /\ Finds(op, r)
    /\ Loads(a, op, r, req[r])
    /\ UNCHANGED <<req, transaction, account, expired>>

-----------------------------------------------------------------------------
(* Handlers that save the row.                                             *)

Confirm(a) ==
    LET r == task[a].id IN
    /\ task[a].op = "confirm"
    /\ req' = [req EXCEPT ![r].confirmed = TRUE]
    /\ Ends(a)
    /\ UNCHANGED <<transaction, account, expired>>

(* A plausible bug: save does not refuse to unconfirm an approved request. *)
AllowedToUnconfirm(op, x) ==
    CASE op = "approve" -> x.confirmed
      [] op = "pause" -> x.state = "CREATED" /\ x.confirmed
      [] op = "unpause" -> x.state = "VERIFYING"
      [] OTHER -> TRUE

(* When the object allows the action ... *)
Allowed(op, x) ==
    CASE op = "approve" -> x.confirmed
      [] op = "unconfirm" -> ~x.approved
      [] op = "pause" -> x.state = "CREATED" /\ x.confirmed
      [] op = "unpause" -> x.state = "VERIFYING"
      [] op = "disable_user" -> x.approved => x.confirmed
      [] OTHER -> TRUE

(* ... and what it makes of it. *)
Changed(op, x) ==
    CASE op = "approve" -> [x EXCEPT !.approved = TRUE]
      [] op = "disable_approve" -> [x EXCEPT !.approved = FALSE]
      [] op = "admin_confirm" -> [x EXCEPT !.confirmed = TRUE]
      [] op = "unconfirm" -> [x EXCEPT !.confirmed = FALSE]
      [] op = "pause" -> [x EXCEPT !.state = "VERIFYING"]
      [] op \in {"unpause", "disable_user"} -> [x EXCEPT !.state = "CREATED"]

(* disable_users_withdrawals saves a request under verification as CREATED *)
(* and goes on to cancel it.                                               *)
AdminSave(a) ==
    LET t == task[a]
        x == Changed(t.op, t.obj)
    IN  /\ t.op \in AdminSaves
        /\ IF Allowed(t.op, t.obj)
           THEN /\ req' = [req EXCEPT ![t.id] = x]
                /\ IF t.op = "disable_user" THEN Loads(a, "admin_cancel", t.id, x)
                                            ELSE Ends(a)
           ELSE Ends(a) /\ UNCHANGED req
        /\ UNCHANGED <<transaction, account, expired>>

-----------------------------------------------------------------------------
(* Handlers that move money: cancel, fail and complete.                    *)

(* The assertions at the beginning of cancel, fail and complete; the       *)
(* cancel view also looks at confirmed again.                              *)
Asserted(t) ==
    /\ transaction[t.id] = "PENDING"
    /\ CASE t.op = "cancel" -> req[t.id].state = "CREATED" /\ ~req[t.id].confirmed
         [] t.op = "expire" -> req[t.id].state = "CREATED"
         [] t.op = "admin_cancel" -> t.obj.state = "CREATED"
         [] t.op = "fail" -> t.obj.state \in {"CREATED", "PENDING"}
         [] t.op = "complete" -> t.obj.state \in {"CREATED", "PENDING"}

AssertState(a) ==
    LET t == task[a] IN
    /\ t.op \in Cancels \cup Settles /\ ~t.checked
    /\ IF Asserted(t) THEN task' = [task EXCEPT ![a].checked = TRUE] ELSE Ends(a)
    /\ UNCHANGED <<req, transaction, account, expired>>

(* change_state: the update finds the row only in the state the object has. *)
ChangesState(t) ==
    req[t.id].state = IF t.op \in Cancels THEN "CREATED" ELSE t.obj.state

(* The row a cancel or a fail leaves: all the object's columns, or with a  *)
(* deferred object those that were read: the state, and confirmed, which   *)
(* the cancel view read as FALSE.                                          *)
Returned(t) ==
    CASE t.op = "fail" -> [t.obj EXCEPT !.state = "FAILED"]
      [] t.op = "admin_cancel" -> [t.obj EXCEPT !.state = "CANCELLED"]
      [] t.op = "expire" -> [req[t.id] EXCEPT !.state = "CANCELLED"]
      [] t.op = "cancel" -> [req[t.id] EXCEPT !.state = "CANCELLED", !.confirmed = FALSE]

GiveBack(a) ==
    LET t == task[a] IN
    /\ t.op \in Cancels \cup {"fail"} /\ t.checked
    /\ IF ChangesState(t)
       THEN /\ req' = [req EXCEPT ![t.id] = Returned(t)]
            /\ transaction' = [transaction EXCEPT ![t.id] = "CANCELED"]
            /\ account' = [account EXCEPT ![Owner[t.id]] = @ + Amount[t.id]]
       ELSE UNCHANGED <<req, transaction, account>>
    /\ Ends(a)
    /\ UNCHANGED expired

(* A plausible bug: the transaction is not completed with its request. *)
CompleteRowOnly(a) ==
    LET t == task[a] IN
    /\ t.op = "complete" /\ t.checked
    /\ req' = [req EXCEPT ![t.id] = [t.obj EXCEPT !.state = "COMPLETED"]]
    /\ Ends(a)
    /\ UNCHANGED <<transaction, account, expired>>

(* complete writes without change_state, which is commented out. *)
Complete(a) ==
    LET t == task[a] IN
    /\ t.op = "complete" /\ t.checked
    /\ req' = [req EXCEPT ![t.id] = [t.obj EXCEPT !.state = "COMPLETED"]]
    /\ transaction' = [transaction EXCEPT ![t.id] = "COMPLETED"]
    /\ Ends(a)
    /\ UNCHANGED <<account, expired>>

-----------------------------------------------------------------------------
RequestInit ==
    /\ req = [r \in Requests |-> NoRow]
    /\ transaction = [r \in Requests |-> "NONE"]
    /\ account \in Funds
    /\ expired = {}
    /\ task = [a \in Actors |-> NoTask]

Handle(a) == Confirm(a) \/ AdminSave(a) \/ AssertState(a) \/ GiveBack(a) \/ Complete(a)

RequestTypeOK ==
    /\ req \in [Requests -> Row]
    /\ transaction \in [Requests -> {"NONE", "PENDING", "COMPLETED", "CANCELED"}]
    /\ account \in [Users -> Nat]
    /\ expired \subseteq Requests
    /\ task \in [Actors -> Task]

==============================================================================

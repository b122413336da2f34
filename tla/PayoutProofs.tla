---------------------------- MODULE PayoutProofs -----------------------------
(*****************************************************************************)
(* Theorems of EvmPayouts and BtcPayouts, in four parts: what holds with     *)
(* every race; what the EVM part does with the requests of other chains;     *)
(* the money of the requests; the payouts of both chains together.           *)
(*****************************************************************************)
EXTENDS BtcPayoutsInv, SumProofs, FiniteSetTheorems, TLAPS

-----------------------------------------------------------------------------
(***************************************************************************)
(* Theorems of EvmPayouts for every value of its constants, in particular  *)
(* with every race the code leaves to timing.                              *)
(***************************************************************************)

(* The three groups of variables the invariant is proved over. *)
RequestsOK(m, rows, ts) == RowsOK(m, rows) /\ TasksOK(m, ts)

ChainOK ==
    /\ lock \in BOOLEAN /\ keyLost \in BOOLEAN
    /\ pool \subseteq Tx
    /\ mined \in Seq([tx : Tx, ok : BOOLEAN])
    /\ scanned \in 0 .. Len(mined)

PayoutsOK ==
    /\ payouts \in [Requests -> Nat]
    /\ worker \in [Workers -> Withdraw] /\ WithdrawsOK(worker)
    /\ checks \subseteq [id : Requests, ok : BOOLEAN] /\ ChecksOK(mined, checks)
    /\ crashes \in Nat /\ forgotten \subseteq Requests

LEMMA InvParts ==
    PayoutInv <=> RequestTypeOK /\ RequestsOK(mined, req, task) /\ ChainOK /\ PayoutsOK
  BY DEF PayoutInv, TypeOK, RequestsOK, ChainOK, PayoutsOK

-----------------------------------------------------------------------------
(* Payments that were mined stay mined. *)
LEMMA PaidStays ==
    ASSUME NEW m \in Seq([tx : Tx, ok : BOOLEAN]), NEW e \in [tx : Tx, ok : BOOLEAN]
    PROVE  PaidIn(m) \subseteq PaidIn(Append(m, e))
<1> SUFFICES ASSUME NEW i \in 1 .. Len(m), m[i].ok
             PROVE  m[i].tx.id \in PaidIn(Append(m, e))
  BY DEF PaidIn
<1>1. i \in 1 .. Len(Append(m, e)) /\ Append(m, e)[i] = m[i]
  OBVIOUS
<1>2. QED
  BY <1>1 DEF PaidIn

(* What holds of rows and tasks for a chain holds when the chain grows. *)
LEMMA RequestsStay ==
    ASSUME NEW m, NEW n, PaidIn(m) \subseteq PaidIn(n), NEW rows, NEW ts,
           RequestsOK(m, rows, ts)
    PROVE  RequestsOK(n, rows, ts)
  BY DEF RequestsOK, RowsOK, TasksOK, TaskOK, ObjectOK

(* A step that leaves rows and tasks alone. *)
LEMMA RequestsUnchanged ==
    ASSUME PayoutInv, UNCHANGED requestVars, UNCHANGED mined
    PROVE  RequestTypeOK' /\ RequestsOK(mined, req, task)'
  BY InvParts DEF requestVars, RequestTypeOK, RequestsOK, RowsOK, TasksOK, TaskOK, ObjectOK

LEMMA ChainUnchanged == ChainOK /\ UNCHANGED chainVars => ChainOK'
  BY DEF ChainOK, chainVars

LEMMA PayoutsUnchanged ==
    PayoutsOK /\ UNCHANGED <<payoutVars, mined>> => PayoutsOK'
  BY DEF PayoutsOK, payoutVars, WithdrawsOK, WithdrawOK, ChecksOK

(* The rows a loaded object and a written one may be. *)
LEMMA EmptyIsTyped == NoRow \in Row /\ NoTask \in Task /\ NoWithdraw \in Withdraw
  BY DEF NoRow, Row, States, NoTask, Task, Ops, NoWithdraw, Withdraw, Steps

-----------------------------------------------------------------------------
(* The handlers of WithdrawalRequest.                                      *)

RequestsInv == RequestTypeOK /\ RequestsOK(mined, req, task) /\ UNCHANGED mined
RequestsNext == RequestTypeOK' /\ RequestsOK(mined, req, task)'

(* A process ends its handler. *)
LEMMA EndsTask ==
    ASSUME RequestsInv, NEW a \in Actors, Ends(a)
    PROVE  task' \in [Actors -> Task] /\ TasksOK(mined', task')
<1>1. task' = [task EXCEPT ![a] = NoTask]
  BY DEF Ends
<1>2. task' \in [Actors -> Task]
  BY <1>1, EmptyIsTyped DEF RequestsInv, RequestTypeOK
<1>3. TaskOK(mined', NoTask)
  BY DEF TaskOK, NoTask
<1>4. mined' = mined
  BY DEF RequestsInv
<1>5. QED
  BY <1>1, <1>2, <1>3, <1>4 DEF TasksOK, RequestsInv, RequestsOK, RequestTypeOK

(* A process loads an object that satisfies what its row has to. *)
LEMMA LoadsTask ==
    ASSUME RequestsInv, NEW a \in Actors, NEW op \in Ops, NEW r \in Requests, NEW x \in Row,
           ObjectOK(mined, r, x), op = "complete" => r \in PaidIn(mined), Loads(a, op, r, x)
    PROVE  task' \in [Actors -> Task] /\ TasksOK(mined', task')
<1> DEFINE t == [op |-> op, id |-> r, obj |-> x, checked |-> FALSE]
<1>1. task' = [task EXCEPT ![a] = t]
  BY DEF Loads
<1>2. t \in Task
  BY DEF Task
<1>3. mined' = mined
  BY DEF RequestsInv
<1>4. TaskOK(mined', t)
  BY <1>3 DEF TaskOK
<1>5. task' \in [Actors -> Task]
  BY <1>1, <1>2 DEF RequestsInv, RequestTypeOK
<1>6. QED
  BY <1>1, <1>3, <1>4, <1>5 DEF TasksOK, RequestsInv, RequestsOK, RequestTypeOK

(* A row is written. *)
LEMMA WritesRow ==
    ASSUME RequestsInv, NEW r \in Requests, NEW x \in Row, ObjectOK(mined, r, x),
           req' = [req EXCEPT ![r] = x]
    PROVE  req' \in [Requests -> Row] /\ RowsOK(mined', req')
<1>1. req' \in [Requests -> Row] /\ mined' = mined
  BY DEF RequestsInv, RequestTypeOK
<1>2. QED
  BY <1>1 DEF RowsOK, RequestsInv, RequestsOK, RequestTypeOK

LEMMA CreateStep == ASSUME RequestsInv, NEW r \in Requests, Create(r) PROVE RequestsNext
<1> DEFINE x == [NoRow EXCEPT !.state = "CREATED"]
<1>1. x \in Row /\ ObjectOK(mined, r, x)
  BY DEF NoRow, Row, States, ObjectOK
<1>2. req' \in [Requests -> Row] /\ RowsOK(mined', req')
  BY <1>1, WritesRow DEF Create
<1>3. Owner[r] \in Users /\ Amount[r] \in Nat /\ account \in [Users -> Nat]
  BY WithdrawalAssumption DEF RequestsInv, RequestTypeOK
<1>4. account[Owner[r]] - Amount[r] \in Nat
  BY <1>3 DEF Create
<1>5. account' \in [Users -> Nat]
  BY <1>3, <1>4 DEF Create
<1>6. QED
  BY <1>2, <1>5 DEF Create, RequestsInv, RequestsNext, RequestTypeOK, RequestsOK, TasksOK

LEMMA ExpiresStep == ASSUME RequestsInv, NEW r \in Requests, Expires(r) PROVE RequestsNext
  BY DEF Expires, RequestsInv, RequestsNext, RequestTypeOK, RequestsOK, TasksOK, RowsOK

LEMMA BeginStep ==
    ASSUME RequestsInv, NEW a \in Actors, NEW op \in Ops \ Settles, NEW r \in Requests,
           Begin(a, op, r)
    PROVE  RequestsNext
<1>1. req[r] \in Row /\ ObjectOK(mined, r, req[r])
  BY DEF RequestsInv, RequestTypeOK, RequestsOK, RowsOK
<1>2. task' \in [Actors -> Task] /\ TasksOK(mined', task')
  BY <1>1, LoadsTask DEF Begin, Settles
<1>3. QED
  BY <1>2 DEF Begin, RequestsInv, RequestsNext, RequestTypeOK, RequestsOK, RowsOK

(* The task of a process that runs a handler. *)
LEMMA RunningTask ==
    ASSUME RequestsInv, NEW a \in Actors, task[a].op # "none"
    PROVE  /\ task[a] \in Task /\ task[a].id \in Requests
           /\ task[a].obj \in Row /\ ObjectOK(mined, task[a].id, task[a].obj)
           /\ task[a].op = "complete" => task[a].id \in PaidIn(mined)
           /\ req[task[a].id] \in Row /\ ObjectOK(mined, task[a].id, req[task[a].id])
<1>1. task[a] \in Task /\ TaskOK(mined, task[a])
  BY DEF RequestsInv, RequestTypeOK, RequestsOK, TasksOK
<1>2. task[a].id \in Requests
  BY <1>1 DEF TaskOK
<1>3. QED
  BY <1>1, <1>2 DEF TaskOK, Task, RequestsInv, RequestTypeOK, RequestsOK, RowsOK

LEMMA ConfirmStep == ASSUME RequestsInv, NEW a \in Actors, Confirm(a) PROVE RequestsNext
<1> DEFINE r == task[a].id
           x == [req[r] EXCEPT !.confirmed = TRUE]
<1>1. r \in Requests /\ req[r] \in Row /\ ObjectOK(mined, r, req[r])
  BY RunningTask DEF Confirm
<1>2. x \in Row /\ ObjectOK(mined, r, x)
  BY <1>1 DEF Row, ObjectOK
<1>3. req' = [req EXCEPT ![r] = x]
  BY DEF Confirm
<1>4. req' \in [Requests -> Row] /\ RowsOK(mined', req')
  BY <1>1, <1>2, <1>3, WritesRow
<1>5. task' \in [Actors -> Task] /\ TasksOK(mined', task')
  BY EndsTask DEF Confirm
<1>6. QED
  BY <1>4, <1>5 DEF Confirm, RequestsInv, RequestsNext, RequestTypeOK, RequestsOK

(* What an allowed action makes of an object is an object of the same row. *)
LEMMA ChangedIsObject ==
    ASSUME NEW op \in AdminSaves, NEW x \in Row, NEW r, NEW m,
           ObjectOK(m, r, x), Allowed(op, x)
    PROVE  Changed(op, x) \in Row /\ ObjectOK(m, r, Changed(op, x))
<1> DEFINE y == Changed(op, x)
<1>1. y \in Row /\ y.attempts = x.attempts
  BY DEF Changed, AdminSaves, Row, States
<1>2. y.state = "COMPLETED" => x.state = "COMPLETED"
  BY DEF Changed, AdminSaves, Row, States
<1>3. y.state \in {"CREATED", "VERIFYING"} /\ y.approved => y.confirmed
  BY DEF Changed, Allowed, AdminSaves, Row, States, ObjectOK
<1>4. QED
  BY <1>1, <1>2, <1>3 DEF ObjectOK

LEMMA AdminSaveStep == ASSUME RequestsInv, NEW a \in Actors, AdminSave(a) PROVE RequestsNext
<1> DEFINE t == task[a]
           x == Changed(t.op, t.obj)
<1>1. t.op \in AdminSaves /\ t.op # "none"
  BY DEF AdminSave, AdminSaves
<1>2. t.id \in Requests /\ t.obj \in Row /\ ObjectOK(mined, t.id, t.obj)
  BY <1>1, RunningTask
<1>3. UNCHANGED <<transaction, account, expired, mined>>
  BY DEF AdminSave, RequestsInv
<1>4. CASE Allowed(t.op, t.obj)
  <2>1. x \in Row /\ ObjectOK(mined, t.id, x)
    BY <1>1, <1>2, <1>4, ChangedIsObject
  <2>2. req' = [req EXCEPT ![t.id] = x]
    BY <1>4 DEF AdminSave
  <2>3. req' \in [Requests -> Row] /\ RowsOK(mined', req')
    BY <1>2, <2>1, <2>2, WritesRow
  <2>4. task' \in [Actors -> Task] /\ TasksOK(mined', task')
    <3>1. CASE t.op = "disable_user"
      <4>1. Loads(a, "admin_cancel", t.id, x) /\ "admin_cancel" \in Ops
        BY <1>4, <3>1 DEF AdminSave, Ops, Cancels
      <4>2. QED
        BY <1>2, <2>1, <4>1, LoadsTask
    <3>2. CASE t.op # "disable_user"
      BY <1>4, <3>2, EndsTask DEF AdminSave
    <3>3. QED
      BY <3>1, <3>2
  <2>5. QED
    BY <1>3, <2>3, <2>4 DEF RequestsInv, RequestsNext, RequestTypeOK, RequestsOK
<1>5. CASE ~Allowed(t.op, t.obj)
  <2>1. Ends(a) /\ UNCHANGED req
    BY <1>5 DEF AdminSave
  <2>2. task' \in [Actors -> Task] /\ TasksOK(mined', task')
    BY <2>1, EndsTask
  <2>3. QED
    BY <1>3, <2>1, <2>2 DEF RequestsInv, RequestsNext, RequestTypeOK, RequestsOK, RowsOK
<1>6. QED
  BY <1>4, <1>5

LEMMA AssertStep == ASSUME RequestsInv, NEW a \in Actors, AssertState(a) PROVE RequestsNext
<1> DEFINE t == task[a]
           u == [t EXCEPT !.checked = TRUE]
<1>1. t.op # "none"
  BY DEF AssertState, Cancels, Settles
<1>2. t \in Task /\ TaskOK(mined, t)
  BY DEF RequestsInv, RequestTypeOK, RequestsOK, TasksOK
<1>3. UNCHANGED <<req, transaction, account, expired, mined>>
  BY DEF AssertState, RequestsInv
<1>4. task' \in [Actors -> Task] /\ TasksOK(mined', task')
  <2>1. CASE Asserted(t)
    <3>1. task' = [task EXCEPT ![a] = u]
      BY <2>1 DEF AssertState
    <3>2. u \in Task /\ TaskOK(mined, u)
      BY <1>2 DEF Task, TaskOK
    <3>3. QED
      BY <1>3, <3>1, <3>2 DEF RequestsInv, RequestTypeOK, RequestsOK, TasksOK
  <2>2. CASE ~Asserted(t)
    BY <2>2, EndsTask DEF AssertState
  <2>3. QED
    BY <2>1, <2>2
<1>5. QED
  BY <1>3, <1>4 DEF RequestsInv, RequestsNext, RequestTypeOK, RequestsOK, RowsOK

(* What a cancel or a fail leaves is an object of the same row. *)
LEMMA ReturnedIsObject ==
    ASSUME RequestsInv, NEW a \in Actors, task[a].op \in Cancels \cup {"fail"}
    PROVE  Returned(task[a]) \in Row /\ ObjectOK(mined, task[a].id, Returned(task[a]))
<1> DEFINE t == task[a]
           y == Returned(t)
<1>1. /\ t.obj \in Row /\ ObjectOK(mined, t.id, t.obj)
      /\ req[t.id] \in Row /\ ObjectOK(mined, t.id, req[t.id])
  BY RunningTask DEF Cancels
<1>2. y \in Row /\ y.state \in {"FAILED", "CANCELLED"}
  BY <1>1 DEF Returned, Cancels, Row, States
<1>3. y.attempts = t.obj.attempts \/ y.attempts = req[t.id].attempts
  BY <1>1 DEF Returned, Cancels, Row
<1>4. QED
  BY <1>1, <1>2, <1>3 DEF ObjectOK

LEMMA GiveBackStep == ASSUME RequestsInv, NEW a \in Actors, GiveBack(a) PROVE RequestsNext
<1> DEFINE t == task[a]
<1>1. t.op \in Cancels \cup {"fail"} /\ t.id \in Requests
  BY RunningTask DEF GiveBack, Cancels
<1>2. task' \in [Actors -> Task] /\ TasksOK(mined', task')
  BY EndsTask DEF GiveBack
<1>3. expired' = expired /\ mined' = mined
  BY DEF GiveBack, RequestsInv
<1>4. CASE ChangesState(t)
  <2>1. req' = [req EXCEPT ![t.id] = Returned(t)]
    BY <1>4 DEF GiveBack
  <2>2. req' \in [Requests -> Row] /\ RowsOK(mined', req')
    BY <1>1, <2>1, ReturnedIsObject, WritesRow
  <2>3. Owner[t.id] \in Users /\ Amount[t.id] \in Nat /\ account \in [Users -> Nat]
    BY <1>1, WithdrawalAssumption DEF RequestsInv, RequestTypeOK
  <2>4. account' \in [Users -> Nat]
    BY <1>4, <2>3 DEF GiveBack
  <2>5. transaction' \in [Requests -> {"NONE", "PENDING", "COMPLETED", "CANCELED"}]
    BY <1>4 DEF GiveBack, RequestsInv, RequestTypeOK
  <2>6. QED
    BY <1>2, <1>3, <2>2, <2>4, <2>5
       DEF RequestsInv, RequestsNext, RequestTypeOK, RequestsOK
<1>5. CASE ~ChangesState(t)
  <2>1. UNCHANGED <<req, transaction, account>>
    BY <1>5 DEF GiveBack
  <2>2. QED
    BY <1>2, <1>3, <2>1 DEF RequestsInv, RequestsNext, RequestTypeOK, RequestsOK, RowsOK
<1>6. QED
  BY <1>4, <1>5

LEMMA CompleteStep == ASSUME RequestsInv, NEW a \in Actors, Complete(a) PROVE RequestsNext
<1> DEFINE t == task[a]
           x == [t.obj EXCEPT !.state = "COMPLETED"]
<1>1. t.id \in Requests /\ t.obj \in Row /\ ObjectOK(mined, t.id, t.obj)
      /\ t.id \in PaidIn(mined)
  BY RunningTask DEF Complete
<1>2. x \in Row /\ ObjectOK(mined, t.id, x)
  BY <1>1 DEF Row, States, ObjectOK
<1>3. req' = [req EXCEPT ![t.id] = x]
  BY DEF Complete
<1>4. req' \in [Requests -> Row] /\ RowsOK(mined', req')
  BY <1>1, <1>2, <1>3, WritesRow
<1>5. task' \in [Actors -> Task] /\ TasksOK(mined', task')
  BY EndsTask DEF Complete
<1>6. QED
  BY <1>4, <1>5 DEF Complete, RequestsInv, RequestsNext, RequestTypeOK, RequestsOK

LEMMA HandleStep == ASSUME RequestsInv, NEW a \in Actors, Handle(a) PROVE RequestsNext
  BY ConfirmStep, AdminSaveStep, AssertStep, GiveBackStep, CompleteStep DEF Handle

-----------------------------------------------------------------------------
(* The payout tasks, the chain and the scanner.                            *)

(* The handlers leave the chain and the payouts alone. *)
LEMMA RequestsStep ==
    ASSUME PayoutInv, RequestsInv => RequestsNext, UNCHANGED <<chainVars, payoutVars>>
    PROVE  PayoutInv'
<1>1. mined' = mined
  BY DEF chainVars
<1>2. RequestsNext
  BY <1>1, InvParts DEF RequestsInv
<1>3. ChainOK' /\ PayoutsOK'
  BY <1>1, InvParts, ChainUnchanged, PayoutsUnchanged
<1>4. QED
  BY <1>2, <1>3 DEF RequestsNext, PayoutInv, TypeOK, RequestsOK, ChainOK, PayoutsOK

LEMMA HandlersStep ==
    ASSUME PayoutInv,
           CreateRequest \/ ExpireRequest \/ BeginHandler \/ \E a \in Actors : RunHandler(a)
    PROVE  PayoutInv'
<1>1. CASE CreateRequest
  BY <1>1, CreateStep, RequestsStep DEF CreateRequest
<1>2. CASE ExpireRequest
  BY <1>2, ExpiresStep, RequestsStep DEF ExpireRequest
<1>3. CASE BeginHandler
  BY <1>3, BeginStep, RequestsStep, PayoutAssumption DEF BeginHandler, Web
<1>4. CASE \E a \in Actors : RunHandler(a)
  BY <1>4, HandleStep, RequestsStep DEF RunHandler
<1>5. QED
  BY <1>1, <1>2, <1>3, <1>4

(* A payout worker takes its next step. *)
LEMMA WorkerSteps ==
    ASSUME PayoutInv, NEW w \in Workers, NEW x \in Withdraw, WithdrawOK(x),
           WithdrawSteps(w, x)
    PROVE  worker' \in [Workers -> Withdraw] /\ WithdrawsOK(worker')
<1>1. worker' = [worker EXCEPT ![w] = x]
  BY DEF WithdrawSteps
<1>2. worker \in [Workers -> Withdraw] /\ WithdrawsOK(worker)
  BY DEF PayoutInv, TypeOK
<1>3. QED
  BY <1>1, <1>2 DEF WithdrawsOK

LEMMA IdleWorker == NoWithdraw \in Withdraw /\ WithdrawOK(NoWithdraw)
  BY EmptyIsTyped DEF NoWithdraw, WithdrawOK

(* What a step of a worker changes when it leaves the requests, the chain  *)
(* and the checks alone.                                                   *)
LEMMA WorkerOnly ==
    ASSUME PayoutInv, NEW w \in Workers, NEW x \in Withdraw, WithdrawOK(x), WithdrawSteps(w, x),
           UNCHANGED <<requestVars, mined, scanned, checks>>,
           payouts' \in [Requests -> Nat], lock' \in BOOLEAN, keyLost' \in BOOLEAN,
           pool' \subseteq Tx, crashes' \in Nat, forgotten' \subseteq Requests
    PROVE  PayoutInv'
<1>1. worker' \in [Workers -> Withdraw] /\ WithdrawsOK(worker')
  BY WorkerSteps
<1>2. RequestTypeOK' /\ RequestsOK(mined, req, task)'
  BY RequestsUnchanged
<1>3. ChainOK' /\ PayoutsOK'
  BY <1>1, InvParts DEF ChainOK, PayoutsOK, ChecksOK
<1>4. QED
  BY <1>2, <1>3 DEF PayoutInv, TypeOK, RequestsOK, ChainOK, PayoutsOK

LEMMA RunningWorker ==
    ASSUME PayoutInv, NEW w \in Workers
    PROVE  worker[w] \in Withdraw /\ WithdrawOK(worker[w])
  BY DEF PayoutInv, TypeOK, WithdrawsOK

LEMMA Others ==
    ASSUME PayoutInv
    PROVE  /\ payouts \in [Requests -> Nat] /\ crashes \in Nat
           /\ lock \in BOOLEAN /\ keyLost \in BOOLEAN
           /\ pool \subseteq Tx /\ forgotten \subseteq Requests
           /\ mined \in Seq([tx : Tx, ok : BOOLEAN]) /\ scanned \in 0 .. Len(mined)
  BY DEF PayoutInv, TypeOK

LEMMA ProcessPayoutsStep == ASSUME PayoutInv, ProcessPayouts PROVE PayoutInv'
<1>1. UNCHANGED <<requestVars, chainVars, worker, checks, crashes, forgotten, mined>>
  BY DEF ProcessPayouts, chainVars
<1>2. payouts' \in [Requests -> Nat]
  BY Others DEF ProcessPayouts
<1>3. RequestTypeOK' /\ RequestsOK(mined, req, task)'
  BY <1>1, RequestsUnchanged
<1>4. ChainOK' /\ PayoutsOK'
  BY <1>1, <1>2, InvParts, ChainUnchanged DEF PayoutsOK, WithdrawsOK, ChecksOK
<1>5. QED
  BY <1>3, <1>4 DEF PayoutInv, TypeOK, RequestsOK, ChainOK, PayoutsOK

LEMMA StartWithdrawStep ==
    ASSUME PayoutInv, NEW w \in Workers, StartWithdraw(w) PROVE PayoutInv'
<1>1. PICK r \in Requests :
        /\ payouts[r] > 0
        /\ payouts' = [payouts EXCEPT ![r] = @ - 1]
        /\ IF r \in TooSmall
           THEN Loads(w, "fail", r, req[r]) /\ UNCHANGED worker
           ELSE /\ \/ WithdrawSteps(w, [step |-> "nonce", id |-> r, obj |-> req[r], tx |-> NoTx])
                   \/ UNCHANGED worker
                /\ UNCHANGED task
  BY DEF StartWithdraw
<1>2. UNCHANGED <<req, transaction, account, expired, chainVars, checks, crashes, forgotten,
                  mined, scanned>>
  BY DEF StartWithdraw, chainVars
<1>3. payouts' \in [Requests -> Nat]
  BY <1>1, Others
<1>4. req[r] \in Row /\ ObjectOK(mined, r, req[r])
  BY DEF PayoutInv, TypeOK, RequestTypeOK, RowsOK
<1>5. CASE r \in TooSmall
  <2>1. RequestsInv
    BY <1>2, InvParts DEF RequestsInv
  <2>2. w \in Actors /\ "fail" \in Ops
    BY PayoutAssumption DEF Ops, Settles
  <2>3. task' \in [Actors -> Task] /\ TasksOK(mined', task')
    BY <1>1, <1>4, <1>5, <2>1, <2>2, LoadsTask
  <2>4. UNCHANGED worker
    BY <1>1, <1>5
  <2>5. RequestTypeOK' /\ RequestsOK(mined, req, task)'
    BY <1>2, <2>3, InvParts DEF RequestTypeOK, RequestsOK, RowsOK
  <2>6. ChainOK' /\ PayoutsOK'
    BY <1>2, <1>3, <2>4, InvParts, ChainUnchanged DEF PayoutsOK, WithdrawsOK, ChecksOK
  <2>7. QED
    BY <2>5, <2>6 DEF PayoutInv, TypeOK, RequestsOK, ChainOK, PayoutsOK
<1>6. CASE r \notin TooSmall
  <2> DEFINE x == [step |-> "nonce", id |-> r, obj |-> req[r], tx |-> NoTx]
  <2>1. x \in Withdraw /\ WithdrawOK(x)
    BY <1>4 DEF Withdraw, WithdrawOK, Steps, ObjectOK
  <2>2. UNCHANGED requestVars
    BY <1>1, <1>2, <1>6 DEF requestVars
  <2>3. /\ lock' \in BOOLEAN /\ keyLost' \in BOOLEAN /\ pool' \subseteq Tx
        /\ crashes' \in Nat /\ forgotten' \subseteq Requests
    BY <1>2, Others DEF chainVars
  <2>4. CASE WithdrawSteps(w, x)
    BY <1>2, <1>3, <2>1, <2>2, <2>3, <2>4, WorkerOnly
  <2>5. CASE UNCHANGED worker
    <3>1. WithdrawSteps(w, worker[w])
      BY <2>5 DEF WithdrawSteps, PayoutInv, TypeOK
    <3>2. QED
      BY <1>2, <1>3, <2>2, <2>3, <3>1, RunningWorker, WorkerOnly
  <2>6. QED
    BY <1>1, <1>6, <2>4, <2>5
<1>7. QED
  BY <1>5, <1>6

(* Records with several fields replaced, in full. *)
LEMMA ResentWithdraw ==
    ASSUME NEW v \in Withdraw, NEW o, NEW u, NEW y,
           y = [v EXCEPT !.step = "send", !.obj = o, !.tx = u]
    PROVE  y = [step |-> "send", id |-> v.id, obj |-> o, tx |-> u]
  BY DEF Withdraw

LEMMA SeesFreeNonceStep ==
    ASSUME PayoutInv, NEW w \in Workers, SeesFreeNonce(w) PROVE PayoutInv'
<1> DEFINE x == [worker[w] EXCEPT !.step = "free"]
<1>1. worker[w] \in Withdraw /\ WithdrawOK(worker[w]) /\ worker[w].step = "nonce"
  BY RunningWorker DEF SeesFreeNonce
<1>2. x \in Withdraw /\ WithdrawOK(x)
  BY <1>1 DEF Withdraw, WithdrawOK, Steps
<1>3. QED
  BY <1>2, WorkerOnly, Others DEF SeesFreeNonce, chainVars

LEMMA TakeNonceStep == ASSUME PayoutInv, NEW w \in Workers, TakeNonce(w) PROVE PayoutInv'
<1>1. PICK p \in 1 .. MaxPrice :
        WithdrawSteps(w, [worker[w] EXCEPT !.step = "send",
                             !.tx = [id |-> worker[w].id, nonce |-> Len(mined), price |-> p]])
  BY DEF TakeNonce
<1> DEFINE u == [id |-> worker[w].id, nonce |-> Len(mined), price |-> p]
           x == [worker[w] EXCEPT !.step = "send", !.tx = u]
<1>2. worker[w] \in Withdraw /\ WithdrawOK(worker[w]) /\ worker[w].step = "free"
  BY RunningWorker DEF TakeNonce
<1>3. Len(mined) \in 0 .. MaxNonce
  BY Others, PayoutAssumption DEF TakeNonce
<1>4. u \in Tx /\ u.id = worker[w].id
  BY <1>2, <1>3 DEF Tx, WithdrawOK
<1> HIDE DEF u
<1>5. /\ x \in Withdraw
      /\ x.step = "send" /\ x.id = worker[w].id /\ x.obj = worker[w].obj /\ x.tx = u
  BY <1>2, <1>4 DEF Withdraw, Steps
<1>6. WithdrawOK(x)
  BY <1>2, <1>4, <1>5 DEF WithdrawOK
<1>7. WithdrawSteps(w, x)
  BY <1>1 DEF u
<1>8. QED
  BY <1>5, <1>6, <1>7, WorkerOnly, Others DEF TakeNonce

LEMMA SendStep == ASSUME PayoutInv, NEW w \in Workers, Send(w) PROVE PayoutInv'
<1> DEFINE u == worker[w].tx
           x == [worker[w] EXCEPT !.step = "save"]
<1>1. worker[w] \in Withdraw /\ WithdrawOK(worker[w]) /\ worker[w].step = "send"
  BY RunningWorker DEF Send
<1>2. u \in Tx
  BY <1>1 DEF WithdrawOK
<1>3. x \in Withdraw /\ WithdrawOK(x)
  BY <1>1 DEF Withdraw, WithdrawOK, Steps
<1>4. UNCHANGED <<requestVars, mined, scanned, checks, payouts, crashes>>
  BY DEF Send
<1>5. CASE /\ pool' = (pool \ SameNonce(u)) \cup {u}
           /\ WithdrawSteps(w, x)
           /\ forgotten' = forgotten \cup Replaces(u)
           /\ UNCHANGED <<lock, keyLost>>
  <2>1. Replaces(u) \subseteq Requests
    BY Others DEF Replaces, SameNonce, Tx
  <2>2. QED
    BY <1>2, <1>3, <1>4, <1>5, <2>1, WorkerOnly, Others
<1>6. CASE /\ lock' = FALSE /\ keyLost' = (keyLost \/ pool # {})
           /\ WithdrawSteps(w, NoWithdraw)
           /\ UNCHANGED <<pool, forgotten>>
  BY <1>4, <1>6, WorkerOnly, IdleWorker, Others
<1>7. QED
  BY <1>5, <1>6 DEF Send

(* An attempt is recorded in the row it was sent for. *)
LEMMA SaveAttemptStep == ASSUME PayoutInv, NEW w \in Workers, SaveAttempt(w) PROVE PayoutInv'
<1> DEFINE o == worker[w].obj
           r == worker[w].id
           sent == o.attempts \cup {worker[w].tx}
           z == [req[r] EXCEPT !.state = "PENDING", !.attempts = sent]
           x == [worker[w] EXCEPT !.step = "receipt"]
<1>1. worker[w] \in Withdraw /\ WithdrawOK(worker[w]) /\ worker[w].step = "save"
  BY RunningWorker DEF SaveAttempt
<1>2. x \in Withdraw /\ WithdrawOK(x)
  BY <1>1 DEF Withdraw, WithdrawOK, Steps
<1>3. UNCHANGED <<transaction, account, expired, task, chainVars, payouts, checks, crashes,
                  forgotten>>
  BY DEF SaveAttempt
<1>4. r \in Requests /\ worker[w].tx \in Tx /\ worker[w].tx.id = r
      /\ \A k \in o.attempts : k.id = r
  BY <1>1 DEF WithdrawOK
<1>5. o \in Row /\ req[r] \in Row
  BY <1>1, <1>4 DEF Withdraw, PayoutInv, TypeOK, RequestTypeOK
<1>6. CASE o.approved => o.confirmed
  <2>1. req' = [req EXCEPT ![r].state = "PENDING", ![r].attempts = sent]
    BY <1>6 DEF SaveAttempt
  <2>2. sent \subseteq Hashes /\ \A k \in sent : k.id = r
    BY <1>4, <1>5, PayoutAssumption DEF Row
  <2> HIDE DEF sent
  <2>3. req \in [Requests -> Row] /\ RequestsInv
    BY <1>3, InvParts DEF RequestsInv, RequestTypeOK, chainVars
  <2>4. req' = [req EXCEPT ![r] = z]
    BY <1>4, <2>1, <2>3
  <2>5. z \in Row /\ z.state = "PENDING" /\ z.attempts = sent
    BY <1>5, <2>2 DEF Row, States
  <2>6. ObjectOK(mined, r, z)
    BY <2>2, <2>5 DEF ObjectOK
  <2>7. req' \in [Requests -> Row] /\ RowsOK(mined', req')
    BY <1>4, <2>3, <2>4, <2>5, <2>6, WritesRow
  <2>8. worker' \in [Workers -> Withdraw] /\ WithdrawsOK(worker')
    BY <1>2, <1>6, WorkerSteps DEF SaveAttempt
  <2>9. RequestTypeOK' /\ RequestsOK(mined, req, task)'
    BY <1>3, <2>7, InvParts DEF RequestTypeOK, RequestsOK, TasksOK, chainVars
  <2>10. ChainOK' /\ PayoutsOK'
    BY <1>3, <2>8, InvParts, ChainUnchanged DEF PayoutsOK, ChecksOK, chainVars
  <2>11. QED
    BY <2>9, <2>10 DEF PayoutInv, TypeOK, RequestsOK, ChainOK, PayoutsOK
<1>7. CASE ~(o.approved => o.confirmed)
  <2>1. WithdrawSteps(w, NoWithdraw) /\ UNCHANGED req
    BY <1>7 DEF SaveAttempt
  <2>2. QED
    BY <1>3, <2>1, WorkerOnly, IdleWorker, Others DEF requestVars, chainVars
<1>8. QED
  BY <1>6, <1>7

LEMMA ResendStep == ASSUME PayoutInv, NEW w \in Workers, Resend(w) PROVE PayoutInv'
<1> DEFINE v == worker[w]
           u == [id |-> v.tx.id, nonce |-> v.tx.nonce, price |-> v.tx.price + 1]
           x == [step |-> "send", id |-> v.id, obj |-> req[v.tx.id], tx |-> u]
<1>1. v \in Withdraw /\ WithdrawOK(v) /\ v.step = "receipt"
  BY RunningWorker DEF Resend
<1>2. v.tx \in Tx /\ v.tx.id = v.id /\ v.id \in Requests
  BY <1>1 DEF WithdrawOK
<1>3. v.tx.price + 1 \in 1 .. MaxPrice
  BY <1>2, PayoutAssumption DEF Tx, Resend
<1>4. u \in Tx
  BY <1>2, <1>3 DEF Tx
<1>5. req[v.id] \in Row /\ ObjectOK(mined, v.id, req[v.id])
  BY <1>2 DEF PayoutInv, TypeOK, RequestTypeOK, RowsOK
<1>6. x \in Withdraw /\ WithdrawOK(x)
  BY <1>2, <1>4, <1>5 DEF Withdraw, WithdrawOK, Steps, ObjectOK
<1>7. [v EXCEPT !.step = "send", !.obj = req[v.tx.id], !.tx.price = @ + 1] = x
  <2>1. [v.tx EXCEPT !.price = @ + 1] = u
    BY <1>2 DEF Tx
  <2>2. SUFFICES ASSUME NEW y, y = [v EXCEPT !.step = "send", !.obj = req[v.tx.id], !.tx = u]
                 PROVE  y = x
    BY <2>1, <1>1 DEF Withdraw
  <2> HIDE DEF v, u
  <2>3. QED
    BY <1>1, <2>2, ResentWithdraw
<1>8. WithdrawSteps(w, x)
  BY <1>7 DEF Resend
<1>9. QED
  BY <1>6, <1>8, WorkerOnly, Others DEF Resend, chainVars

(* A withdraw task ends: with its receipt, early, or because its worker died. *)
LEMMA EndedStep ==
    ASSUME PayoutInv, NEW w \in Workers, Receipt(w) \/ GiveUp(w) \/ Crash(w) PROVE PayoutInv'
<1>1. CASE Receipt(w)
  BY <1>1, WorkerOnly, IdleWorker, Others DEF Receipt
<1>2. CASE GiveUp(w)
  BY <1>2, WorkerOnly, IdleWorker, Others DEF GiveUp, chainVars
<1>3. CASE Crash(w)
  BY <1>3, WorkerOnly, IdleWorker, Others DEF Crash, chainVars
<1>4. QED
  BY <1>1, <1>2, <1>3

LEMMA LockExpiresStep == ASSUME PayoutInv, LockExpires PROVE PayoutInv'
<1>1. /\ UNCHANGED <<requestVars, pool, mined, scanned, payoutVars>>
      /\ lock' = FALSE /\ keyLost' \in BOOLEAN
  BY DEF LockExpires
<1>2. RequestTypeOK' /\ RequestsOK(mined, req, task)'
  BY <1>1, RequestsUnchanged
<1>3. ChainOK' /\ PayoutsOK'
  BY <1>1, InvParts, PayoutsUnchanged DEF ChainOK
<1>4. QED
  BY <1>2, <1>3 DEF PayoutInv, TypeOK, RequestsOK, ChainOK, PayoutsOK

(* The chain grows: what was paid stays paid. *)
LEMMA MineStep == ASSUME PayoutInv, Mine PROVE PayoutInv'
<1>1. PICK u \in pool, ok \in BOOLEAN :
        /\ mined' = Append(mined, [tx |-> u, ok |-> ok])
        /\ pool' = pool \ SameNonce(u)
  BY DEF Mine
<1>2. UNCHANGED <<requestVars, lock, keyLost, scanned, payoutVars>>
  BY DEF Mine
<1> DEFINE e == [tx |-> u, ok |-> ok]
<1>3. e \in [tx : Tx, ok : BOOLEAN]
  BY Others
<1>4. PaidIn(mined) \subseteq PaidIn(mined')
  BY <1>1, <1>3, PaidStays, Others
<1> HIDE DEF e
<1>5. mined' \in Seq([tx : Tx, ok : BOOLEAN]) /\ Len(mined') = Len(mined) + 1
  BY <1>1, <1>3, Others DEF e
<1>6. ChainOK'
  BY <1>1, <1>2, <1>5, Others DEF ChainOK
<1>7. RequestTypeOK' /\ RequestsOK(mined', req', task')
  BY <1>2, <1>4, InvParts, RequestsStay DEF requestVars, RequestTypeOK
<1>8. PayoutsOK'
  BY <1>2, <1>4, InvParts DEF PayoutsOK, payoutVars, WithdrawsOK, WithdrawOK, ChecksOK
<1>9. QED
  BY <1>6, <1>7, <1>8 DEF PayoutInv, TypeOK, RequestsOK, ChainOK, PayoutsOK

(* A check is only started for a request a recorded transaction pays. *)
LEMMA ScanStep == ASSUME PayoutInv, Scan PROVE PayoutInv'
<1>1. PICK i \in {scanned, scanned + 1} \cap (1 .. Len(mined)) :
        /\ checks' = checks \cup {[id |-> r, ok |-> mined[i].ok] : r \in Awaiting(mined[i].tx)}
        /\ scanned' = i
  BY DEF Scan
<1>2. UNCHANGED <<requestVars, lock, keyLost, pool, mined, payouts, worker, crashes, forgotten>>
  BY DEF Scan
<1>3. \A r \in Awaiting(mined[i].tx) : r \in Requests /\ mined[i].tx.id = r
  BY DEF Awaiting, PayoutInv, RowsOK, ObjectOK
<1>4. mined[i] \in [tx : Tx, ok : BOOLEAN]
  <2>1. mined \in Seq([tx : Tx, ok : BOOLEAN]) /\ i \in 1 .. Len(mined)
    BY <1>1, Others
  <2> DEFINE entries == [tx : Tx, ok : BOOLEAN]
  <2> HIDE DEF entries
  <2>2. \A s \in Seq(entries), j \in 1 .. Len(mined) : s = mined => s[j] \in entries
    OBVIOUS
  <2>3. QED
    BY <2>1, <2>2 DEF entries
<1>5. ChecksOK(mined, checks')
  <2>1. \A r \in Awaiting(mined[i].tx) : mined[i].ok => r \in PaidIn(mined)
    BY <1>3 DEF PaidIn
  <2>2. QED
    BY <1>1, <2>1 DEF ChecksOK, PayoutInv
<1>6. checks' \subseteq [id : Requests, ok : BOOLEAN]
  BY <1>1, <1>3, <1>4 DEF PayoutInv, TypeOK
<1>7. ChainOK' /\ PayoutsOK'
  BY <1>1, <1>2, <1>5, <1>6, InvParts DEF ChainOK, PayoutsOK, WithdrawsOK
<1>8. RequestTypeOK' /\ RequestsOK(mined, req, task)'
  BY <1>2, RequestsUnchanged
<1>9. QED
  BY <1>7, <1>8 DEF PayoutInv, TypeOK, RequestsOK, ChainOK, PayoutsOK

(* A completion is only begun for a request that is paid. *)
LEMMA CheckTxStep == ASSUME PayoutInv, NEW a \in Checkers, CheckTx(a) PROVE PayoutInv'
<1>1. PICK k \in checks :
        /\ checks' = checks \ {k}
        /\ IF req[k.id].state = "PENDING"
           THEN Loads(a, IF k.ok THEN "complete" ELSE "fail", k.id, req[k.id])
           ELSE UNCHANGED task
  BY DEF CheckTx
<1>2. UNCHANGED <<req, transaction, account, expired, chainVars, payouts, worker, crashes,
                  forgotten, mined>>
  BY DEF CheckTx, chainVars
<1>3. k.id \in Requests /\ k.ok \in BOOLEAN /\ (k.ok => k.id \in PaidIn(mined))
  BY DEF PayoutInv, TypeOK, ChecksOK
<1>4. req[k.id] \in Row /\ ObjectOK(mined, k.id, req[k.id])
  BY <1>3 DEF PayoutInv, TypeOK, RequestTypeOK, RowsOK
<1>5. task' \in [Actors -> Task] /\ TasksOK(mined', task')
  <2>1. CASE req[k.id].state = "PENDING"
    <3> DEFINE op == IF k.ok THEN "complete" ELSE "fail"
    <3>1. op \in Ops /\ (op = "complete" => k.id \in PaidIn(mined))
      BY <1>3 DEF Ops, Settles
    <3>2. a \in Actors /\ RequestsInv
      BY <1>2, InvParts, PayoutAssumption DEF RequestsInv
    <3>3. QED
      BY <1>1, <1>3, <1>4, <2>1, <3>1, <3>2, LoadsTask
  <2>2. CASE req[k.id].state # "PENDING"
    BY <1>1, <1>2, <2>2 DEF PayoutInv, TypeOK, RequestTypeOK, TasksOK
  <2>3. QED
    BY <2>1, <2>2
<1>6. RequestTypeOK' /\ RequestsOK(mined, req, task)'
  BY <1>2, <1>5, InvParts DEF RequestTypeOK, RequestsOK, RowsOK
<1>7. ChainOK' /\ PayoutsOK'
  BY <1>1, <1>2, InvParts, ChainUnchanged DEF PayoutsOK, WithdrawsOK, ChecksOK
<1>8. QED
  BY <1>6, <1>7 DEF PayoutInv, TypeOK, RequestsOK, ChainOK, PayoutsOK

(* A check or a handler that settles is lost. *)
LEMMA CheckLostStep == ASSUME PayoutInv, CheckLost PROVE PayoutInv'
<1>1. PICK k \in checks : checks' = checks \ {k} /\ forgotten' = forgotten \cup {k.id}
  BY DEF CheckLost
<1>2. UNCHANGED <<requestVars, chainVars, payouts, worker, mined>> /\ crashes' = crashes + 1
  BY DEF CheckLost, chainVars
<1>3. k.id \in Requests
  BY DEF PayoutInv, TypeOK
<1>4. RequestTypeOK' /\ RequestsOK(mined, req, task)'
  BY <1>2, RequestsUnchanged
<1>5. ChainOK' /\ PayoutsOK'
  BY <1>1, <1>2, <1>3, InvParts, ChainUnchanged DEF PayoutsOK, WithdrawsOK, ChecksOK
<1>6. QED
  BY <1>4, <1>5 DEF PayoutInv, TypeOK, RequestsOK, ChainOK, PayoutsOK

LEMMA SettleDiesStep == ASSUME PayoutInv, NEW a \in Actors, SettleDies(a) PROVE PayoutInv'
<1>1. UNCHANGED <<req, transaction, account, expired, chainVars, payouts, worker, checks, mined>>
  BY DEF SettleDies, chainVars
<1>2. RequestsInv /\ Ends(a) /\ task[a].op # "none"
  BY <1>1, InvParts DEF RequestsInv, SettleDies, Settles
<1>3. task' \in [Actors -> Task] /\ TasksOK(mined', task')
  BY <1>2, EndsTask
<1>4. crashes' \in Nat /\ forgotten' \subseteq Requests
  BY <1>2, RunningTask, Others DEF SettleDies
<1>5. RequestTypeOK' /\ RequestsOK(mined, req, task)'
  BY <1>1, <1>3, InvParts DEF RequestTypeOK, RequestsOK, RowsOK
<1>6. ChainOK' /\ PayoutsOK'
  BY <1>1, <1>4, InvParts, ChainUnchanged DEF PayoutsOK, WithdrawsOK, ChecksOK
<1>7. QED
  BY <1>5, <1>6 DEF PayoutInv, TypeOK, RequestsOK, ChainOK, PayoutsOK

LEMMA StutterStep == ASSUME PayoutInv, UNCHANGED vars PROVE PayoutInv'
<1>1. RequestTypeOK' /\ RequestsOK(mined, req, task)'
  BY RequestsUnchanged DEF vars, chainVars
<1>2. ChainOK' /\ PayoutsOK'
  BY InvParts, ChainUnchanged, PayoutsUnchanged DEF vars, chainVars
<1>3. QED
  BY <1>1, <1>2 DEF PayoutInv, TypeOK, RequestsOK, ChainOK, PayoutsOK

-----------------------------------------------------------------------------
(* The theorems.                                                           *)

LEMMA PayoutInit == Init => PayoutInv
<1> SUFFICES ASSUME Init PROVE PayoutInv
  OBVIOUS
<1>1. RequestTypeOK
  BY EmptyIsTyped, WithdrawalAssumption DEF Init, RequestInit, RequestTypeOK
<1>2. RequestsOK(mined, req, task)
  BY DEF Init, RequestInit, RequestsOK, RowsOK, TasksOK, ObjectOK, TaskOK, NoRow, NoTask
<1>3. ChainOK
  <2>1. mined = <<>> /\ scanned = 0 /\ pool = {} /\ lock = FALSE /\ keyLost = FALSE
    BY DEF Init
  <2>2. mined \in Seq([tx : Tx, ok : BOOLEAN]) /\ Len(mined) = 0
    BY <2>1
  <2>3. scanned \in 0 .. Len(mined)
    BY <2>1, <2>2
  <2>4. pool \subseteq Tx /\ lock \in BOOLEAN /\ keyLost \in BOOLEAN
    BY <2>1
  <2>5. QED
    BY <2>2, <2>3, <2>4 DEF ChainOK
<1>4. PayoutsOK
  BY IdleWorker DEF Init, PayoutsOK, WithdrawsOK, ChecksOK
<1>5. QED
  BY <1>1, <1>2, <1>3, <1>4, InvParts

LEMMA PayoutNext == PayoutInv /\ [Next]_vars => PayoutInv'
<1> SUFFICES ASSUME PayoutInv, [Next]_vars PROVE PayoutInv'
  OBVIOUS
<1>1. CASE \E w \in Workers : PayoutWorker(w)
  BY <1>1, StartWithdrawStep, SeesFreeNonceStep, TakeNonceStep, SendStep, SaveAttemptStep,
     ResendStep, EndedStep DEF PayoutWorker
<1>2. QED
  BY <1>1, HandlersStep, ProcessPayoutsStep, EndedStep, LockExpiresStep, MineStep, ScanStep,
     CheckTxStep, CheckLostStep, SettleDiesStep, StutterStep DEF Next, Quiescent

(* Whatever the order of cancels, stale saves, repeated payouts, resends,  *)
(* crashes and scans: no balance is negative, every copy of a row and every *)
(* completion under way stems from a payment the chain holds.              *)
THEOREM PayoutCorrect == Spec => []PayoutInv
  BY PayoutInit, PayoutNext, PTL DEF Spec

(* A request still to be paid out is approved only if it is confirmed. *)
THEOREM OnlyConfirmedApproved == Spec => []ApprovedAreConfirmed
<1>1. PayoutInv => ApprovedAreConfirmed
  BY DEF PayoutInv, RowsOK, ObjectOK, ApprovedAreConfirmed
<1>2. QED
  BY <1>1, PayoutCorrect, PTL

-----------------------------------------------------------------------------
(***************************************************************************)
(* Theorems of EvmPayouts about what it does with the requests of other    *)
(* chains, still with every race: nothing that pays or settles.            *)
(***************************************************************************)

-----------------------------------------------------------------------------
(* The node's transactions.                                                *)

(* A worker's transaction is taken by the node. *)
Sends(w) ==
    /\ worker[w].step = "send" /\ Accepts(worker[w].tx)
    /\ pool' = (pool \ SameNonce(worker[w].tx)) \cup {worker[w].tx}
    /\ WithdrawSteps(w, [worker[w] EXCEPT !.step = "save"])
    /\ forgotten' = forgotten \cup Replaces(worker[w].tx)
    /\ UNCHANGED <<requestVars, lock, keyLost, mined, scanned, payouts, checks, crashes>>

LEMMA ChainMoves ==
    ASSUME PayoutInv, [Next]_vars
    PROVE  UNCHANGED <<pool, mined>> \/ Mine \/ \E w \in Workers : Sends(w)
<1>1. CASE \E w \in Workers : Send(w)
  BY <1>1 DEF Send, Sends
<1>2. CASE \E w \in Workers : (PayoutWorker(w) /\ ~Send(w)) \/ Crash(w)
  BY <1>2 DEF PayoutWorker, StartWithdraw, SeesFreeNonce, TakeNonce, SaveAttempt, Receipt, Resend,
              GiveUp, Crash, chainVars
<1>3. CASE \/ CreateRequest \/ ExpireRequest \/ BeginHandler \/ \E a \in Actors : RunHandler(a)
           \/ ProcessPayouts \/ (\E a \in Checkers : CheckTx(a))
           \/ CheckLost \/ \E a \in Actors : SettleDies(a)
  BY <1>3 DEF CreateRequest, ExpireRequest, BeginHandler, RunHandler, ProcessPayouts, CheckTx,
              CheckLost, SettleDies, chainVars
<1>4. CASE LockExpires \/ Mine \/ Scan
  BY <1>4 DEF LockExpires, Scan
<1>5. CASE UNCHANGED vars
  BY <1>5 DEF vars, chainVars
<1>6. QED
  BY <1>1, <1>2, <1>3, <1>4, <1>5 DEF Next, Quiescent

(* What is mined, and where. *)
LEMMA MinedIsTyped ==
    ASSUME PayoutInv, NEW i \in 1 .. Len(mined)
    PROVE  mined[i] \in [tx : Tx, ok : BOOLEAN] /\ mined[i].tx \in Tx
<1> DEFINE entries == [tx : Tx, ok : BOOLEAN]
<1>1. mined \in Seq(entries)
  BY Others
<1> HIDE DEF entries
<1>2. mined[i] \in entries
  BY <1>1
<1>3. QED
  BY <1>2 DEF entries

(* The next transaction is mined. *)
LEMMA MinesOne ==
    ASSUME PayoutInv, Mine
    PROVE  \E u \in pool, ok \in BOOLEAN :
             /\ u \in Tx /\ u.nonce = Len(mined)
             /\ pool' = pool \ SameNonce(u)
             /\ Len(mined) \in Nat /\ Len(mined') = Len(mined) + 1
             /\ mined'[Len(mined) + 1] = [tx |-> u, ok |-> ok]
             /\ \A i \in 1 .. Len(mined) : mined'[i] = mined[i]
<1>1. PICK u \in pool, ok \in BOOLEAN :
        /\ u.nonce = Len(mined)
        /\ mined' = Append(mined, [tx |-> u, ok |-> ok])
        /\ pool' = pool \ SameNonce(u)
  BY DEF Mine
<1> DEFINE e == [tx |-> u, ok |-> ok]
           entries == [tx : Tx, ok : BOOLEAN]
<1>2. u \in Tx /\ e \in entries /\ mined \in Seq(entries)
  BY Others
<1> HIDE DEF e, entries
<1>3. mined' = Append(mined, e)
  BY <1>1 DEF e
<1>4. /\ Len(mined) \in Nat /\ Len(mined') = Len(mined) + 1
      /\ mined'[Len(mined) + 1] = e
      /\ \A i \in 1 .. Len(mined) : mined'[i] = mined[i]
  BY <1>2, <1>3
<1>5. QED
  BY <1>1, <1>2, <1>4 DEF e


-----------------------------------------------------------------------------
(* What a step does to the tasks and the rows.                             *)

(* The handler of a goes on with its request, or one begins. *)
Continues(a) ==
    /\ task[a].op # "none" /\ task'[a].id = task[a].id
    /\ \/ task'[a].op = task[a].op /\ task'[a].obj = task[a].obj
       \/ task'[a].op = "admin_cancel" /\ task'[a].obj.state = "CREATED"
Starts(a, op, r) ==
    /\ Idle(a) /\ r \in Requests /\ op # "none"
    /\ task'[a].op = op /\ task'[a].id = r /\ task'[a].obj = req[r]

LEMMA HandlerMoves ==
    ASSUME PayoutInv, NEW b \in Actors, Handle(b), NEW a \in Actors
    PROVE  task'[a] = task[a] \/ task'[a] = NoTask \/ Continues(a)
<1>1. task \in [Actors -> Task]
  BY DEF PayoutInv, TypeOK, RequestTypeOK
<1>2. CASE Ends(b)
  BY <1>1, <1>2 DEF Ends
<1>3. CASE AdminSave(b) /\ ~Ends(b)
  <2> DEFINE x == Changed(task[b].op, task[b].obj)
  <2>1. task[b].op = "disable_user" /\ Loads(b, "admin_cancel", task[b].id, x)
    BY <1>3 DEF AdminSave
  <2>2. x.state = "CREATED"
    BY <1>1, <2>1 DEF Changed, Task, Row
  <2> HIDE DEF x
  <2>3. QED
    BY <1>1, <2>1, <2>2 DEF Loads, Continues
<1>4. CASE AssertState(b) /\ ~Ends(b)
  <2>1. task' = [task EXCEPT ![b].checked = TRUE] /\ task[b].op # "none"
    BY <1>4 DEF AssertState, Cancels, Settles
  <2>2. QED
    BY <1>1, <2>1 DEF Continues, Task
<1>5. QED
  BY <1>2, <1>3, <1>4 DEF Handle, Confirm, GiveBack, Complete

(* A step in which nobody begins a handler of the views or of the admin. *)
NextButBegin ==
    \/ CreateRequest \/ ExpireRequest
    \/ \E a \in Actors : RunHandler(a)
    \/ ProcessPayouts
    \/ \E w \in Workers : PayoutWorker(w) \/ Crash(w)
    \/ LockExpires \/ Mine \/ Scan
    \/ \E a \in Checkers : CheckTx(a)
    \/ CheckLost \/ \E a \in Actors : SettleDies(a)
    \/ UNCHANGED vars

LEMMA OtherTasksMove ==
    ASSUME PayoutInv, NextButBegin, NEW a \in Actors
    PROVE  \/ task'[a] = task[a] \/ task'[a] = NoTask \/ Continues(a)
           \/ \E r \in Requests : Starts(a, "fail", r) /\ payouts[r] > 0
           \/ \E c \in checks, op \in Settles : Starts(a, op, c.id)
<1>1. task \in [Actors -> Task]
  BY DEF PayoutInv, TypeOK, RequestTypeOK
<1>2. CASE \E b \in Actors : RunHandler(b)
  BY <1>2, HandlerMoves DEF RunHandler
<1>3. CASE \E w \in Workers : StartWithdraw(w)
  <2>1. PICK w \in Workers, r \in Requests :
          /\ Idle(w) /\ payouts[r] > 0
          /\ UNCHANGED task \/ Loads(w, "fail", r, req[r])
    BY <1>3 DEF StartWithdraw
  <2>2. CASE UNCHANGED task
    BY <2>2
  <2>3. CASE Loads(w, "fail", r, req[r]) /\ a = w
    <3>1. Starts(a, "fail", r)
      BY <1>1, <2>1, <2>3 DEF Loads, Starts
    <3>2. QED
      BY <2>1, <3>1
  <2>4. CASE Loads(w, "fail", r, req[r]) /\ a # w
    BY <1>1, <2>4 DEF Loads
  <2>5. QED
    BY <2>1, <2>2, <2>3, <2>4
<1>4. CASE \E b \in Checkers : CheckTx(b)
  <2>1. PICK b \in Checkers, c \in checks :
          /\ Idle(b)
          /\ UNCHANGED task \/ Loads(b, IF c.ok THEN "complete" ELSE "fail", c.id, req[c.id])
    BY <1>4 DEF CheckTx
  <2> DEFINE op == IF c.ok THEN "complete" ELSE "fail"
  <2>2. op \in Settles /\ op # "none" /\ c.id \in Requests
    BY DEF Settles, PayoutInv, TypeOK
  <2>3. UNCHANGED task \/ Loads(b, op, c.id, req[c.id])
    BY <2>1
  <2> HIDE DEF op
  <2>4. CASE UNCHANGED task
    BY <2>4
  <2>5. CASE Loads(b, op, c.id, req[c.id]) /\ a = b
    <3>1. Starts(a, op, c.id)
      BY <1>1, <2>1, <2>2, <2>5 DEF Loads, Starts
    <3>2. QED
      BY <2>2, <3>1
  <2>6. CASE Loads(b, op, c.id, req[c.id]) /\ a # b
    BY <1>1, <2>6 DEF Loads
  <2>7. QED
    BY <2>3, <2>4, <2>5, <2>6
<1>5. CASE \/ CreateRequest \/ ExpireRequest \/ ProcessPayouts
           \/ \E w \in Workers : (PayoutWorker(w) /\ ~StartWithdraw(w)) \/ Crash(w)
           \/ LockExpires \/ Mine \/ Scan \/ CheckLost \/ UNCHANGED vars
  <2>1. UNCHANGED task
    BY <1>5 DEF CreateRequest, Create, ExpireRequest, Expires, ProcessPayouts, PayoutWorker,
         SeesFreeNonce, TakeNonce, Send, SaveAttempt, Receipt, Resend, GiveUp, Crash, LockExpires, Mine,
         Scan, CheckLost, vars, requestVars
  <2>2. QED
    BY <2>1
<1>6. CASE \E b \in Actors : SettleDies(b)
  BY <1>1, <1>6 DEF SettleDies, Ends
<1>7. QED
  BY <1>2, <1>3, <1>4, <1>5, <1>6 DEF NextButBegin

LEMMA TaskMoves ==
    ASSUME PayoutInv, [Next]_vars, NEW a \in Actors
    PROVE  \/ task'[a] = task[a] \/ task'[a] = NoTask \/ Continues(a)
           \/ \E op \in Handlers, r \in Requests : Starts(a, op, r)
           \/ \E r \in Requests : Starts(a, "fail", r) /\ payouts[r] > 0
           \/ \E c \in checks, op \in Settles : Starts(a, op, c.id)
<1>1. task \in [Actors -> Task]
  BY DEF PayoutInv, TypeOK, RequestTypeOK
<1>2. CASE BeginHandler
  <2>1. PICK b \in Web, op \in Handlers, r \in Requests : Begin(b, op, r)
    BY <1>2 DEF BeginHandler
  <2>2. Idle(b) /\ Loads(b, op, r, req[r]) /\ op # "none"
    BY <2>1, PayoutAssumption DEF Begin
  <2>3. CASE a = b
    <3>1. Starts(a, op, r)
      BY <1>1, <2>2, <2>3 DEF Loads, Starts
    <3>2. QED
      BY <3>1
  <2>4. CASE a # b
    BY <1>1, <2>2, <2>4 DEF Loads
  <2>5. QED
    BY <2>3, <2>4
<1>3. CASE NextButBegin
  BY <1>3, OtherTasksMove
<1>4. QED
  BY <1>2, <1>3 DEF Next, Quiescent, NextButBegin

(* The row of r is left alone, made, or written by a handler that is at r. *)
Rewrites(a, r) == task[a].id = r /\ (Confirm(a) \/ AdminSave(a) \/ GiveBack(a))

LEMMA RowMoves ==
    ASSUME PayoutInv, [Next]_vars, NEW r \in Requests, HereAt(r)
    PROVE  \/ req'[r] = req[r] /\ transaction'[r] = transaction[r]
           \/ req[r].state = "NONE" /\ req'[r].state = "CREATED"
           \/ \E a \in Actors : Rewrites(a, r)
<1>1. /\ req \in [Requests -> Row]
      /\ transaction \in [Requests -> {"NONE", "PENDING", "COMPLETED", "CANCELED"}]
  BY DEF PayoutInv, TypeOK, RequestTypeOK
<1>2. CASE CreateRequest
  <2>1. PICK q \in Requests : Create(q)
    BY <1>2 DEF CreateRequest
  <2>2. CASE q = r
    <3> DEFINE x == [NoRow EXCEPT !.state = "CREATED"]
    <3>1. req' = [req EXCEPT ![q] = x] /\ x.state = "CREATED" /\ req[r].state = "NONE"
      BY <2>1, <2>2 DEF Create, Exists, NoRow
    <3> HIDE DEF x
    <3>2. QED
      BY <1>1, <2>2, <3>1
  <2>3. CASE q # r
    BY <1>1, <2>1, <2>3 DEF Create
  <2>4. QED
    BY <2>2, <2>3
<1>3. CASE \E a \in Actors : RunHandler(a)
  <2>1. PICK a \in Actors : Handle(a)
    BY <1>3 DEF RunHandler
  <2>2. CASE AssertState(a)
    BY <2>2 DEF AssertState
  <2>3. CASE (Confirm(a) \/ AdminSave(a) \/ GiveBack(a)) /\ task[a].id = r
    BY <2>3 DEF Rewrites
  <2>4. CASE (Confirm(a) \/ AdminSave(a) \/ GiveBack(a) \/ Complete(a)) /\ task[a].id # r
    BY <1>1, <2>4 DEF Confirm, AdminSave, GiveBack, Complete
  <2>5. CASE Complete(a) /\ task[a].id = r
    BY <2>5 DEF Complete, HereAt, Settles
  <2>6. QED
    BY <2>1, <2>2, <2>3, <2>4, <2>5 DEF Handle
<1>4. CASE \E w \in Workers : SaveAttempt(w)
  <2>1. PICK w \in Workers : SaveAttempt(w)
    BY <1>4
  <2>2. worker[w].id # r
    BY DEF HereAt
  <2>3. req'[r] = req[r] /\ UNCHANGED transaction
    BY <1>1, <2>1, <2>2 DEF SaveAttempt
  <2>4. QED
    BY <2>3
<1>5. CASE \/ ExpireRequest \/ BeginHandler \/ ProcessPayouts
           \/ \E w \in Workers : (PayoutWorker(w) /\ ~SaveAttempt(w)) \/ Crash(w)
           \/ LockExpires \/ Mine \/ Scan \/ (\E a \in Checkers : CheckTx(a))
           \/ CheckLost \/ (\E a \in Actors : SettleDies(a)) \/ UNCHANGED vars
  <2>1. UNCHANGED <<req, transaction>>
    BY <1>5 DEF ExpireRequest, Expires, BeginHandler, Begin, ProcessPayouts, PayoutWorker, StartWithdraw,
         SeesFreeNonce, TakeNonce, Send, Receipt, Resend, GiveUp, Crash, LockExpires, Mine,
         Scan, CheckTx, CheckLost, SettleDies, vars, requestVars
  <2>2. QED
    BY <2>1
<1>6. QED
  BY <1>2, <1>3, <1>4, <1>5 DEF Next, Quiescent

-----------------------------------------------------------------------------
(* The requests of other chains.                                           *)

LEMMA NoneQueued ==
    ASSUME PayoutInv, [Next]_vars, NEW r \in Elsewhere, HereAt(r) PROVE payouts'[r] = 0
<1>1. r \in Requests /\ payouts[r] = 0 /\ payouts \in [Requests -> Nat]
  BY Others, PayoutAssumption DEF HereAt
<1>2. CASE ProcessPayouts
  <2>1. r \notin ToProcess
    BY DEF ToProcess
  <2>2. payouts'[r] = payouts[r] + 0
    BY <1>1, <1>2, <2>1 DEF ProcessPayouts
  <2>3. QED
    BY <1>1, <2>2
<1>3. CASE \E w \in Workers : StartWithdraw(w)
  <2>1. PICK q \in Requests : payouts[q] > 0 /\ payouts' = [payouts EXCEPT ![q] = @ - 1]
    BY <1>3 DEF StartWithdraw
  <2>2. q # r
    BY <1>1, <2>1
  <2>3. QED
    BY <1>1, <2>1, <2>2
<1>4. CASE \/ CreateRequest \/ ExpireRequest \/ BeginHandler \/ (\E a \in Actors : RunHandler(a))
           \/ \E w \in Workers : (PayoutWorker(w) /\ ~StartWithdraw(w)) \/ Crash(w)
           \/ LockExpires \/ Mine \/ Scan \/ (\E a \in Checkers : CheckTx(a))
           \/ CheckLost \/ (\E a \in Actors : SettleDies(a)) \/ UNCHANGED vars
  BY <1>1, <1>4 DEF CreateRequest, ExpireRequest, BeginHandler, RunHandler, PayoutWorker,
         SeesFreeNonce, TakeNonce, Send, SaveAttempt, Receipt, Resend, GiveUp, Crash, LockExpires, Mine,
         Scan, CheckTx, CheckLost, SettleDies, vars, payoutVars
<1>5. QED
  BY <1>2, <1>3, <1>4 DEF Next, Quiescent

LEMMA NoWorker ==
    ASSUME PayoutInv, [Next]_vars, NEW r \in Elsewhere, HereAt(r), NEW v \in Workers
    PROVE  worker'[v].id # r
<1>1. r \in Requests /\ worker \in [Workers -> Withdraw] /\ worker[v].id # r /\ r # "none"
  BY PayoutAssumption, WithdrawalAssumption DEF HereAt, PayoutInv, TypeOK
<1>2. \/ worker'[v] = worker[v] \/ worker'[v] = NoWithdraw \/ worker'[v].id = worker[v].id
      \/ \E q \in Requests : payouts[q] > 0 /\ worker'[v].id = q
  <2>1. CASE \E w \in Workers : StartWithdraw(w)
    <3>1. PICK w \in Workers, q \in Requests :
            /\ payouts[q] > 0
            /\ \/ UNCHANGED worker
               \/ WithdrawSteps(w, [step |-> "nonce", id |-> q, obj |-> req[q], tx |-> NoTx])
      BY <2>1 DEF StartWithdraw
    <3>2. QED
      BY <1>1, <3>1 DEF WithdrawSteps
  <2>2. CASE \E w \in Workers : SeesFreeNonce(w) \/ TakeNonce(w) \/ Send(w) \/ SaveAttempt(w) \/ Resend(w)
    <3>1. PICK w \in Workers : SeesFreeNonce(w) \/ TakeNonce(w) \/ Send(w) \/ SaveAttempt(w) \/ Resend(w)
      BY <2>2
    <3>2. CASE UNCHANGED worker \/ WithdrawSteps(w, NoWithdraw)
      BY <1>1, <3>2 DEF WithdrawSteps
    <3>3. CASE Resend(w)
      BY <1>1, <3>3 DEF Resend, WithdrawSteps, Withdraw
    <3>4. CASE TakeNonce(w)
      BY <1>1, <3>4 DEF TakeNonce, WithdrawSteps, Withdraw
    <3>5. CASE \/ WithdrawSteps(w, [worker[w] EXCEPT !.step = "free"])
               \/ WithdrawSteps(w, [worker[w] EXCEPT !.step = "save"])
               \/ WithdrawSteps(w, [worker[w] EXCEPT !.step = "receipt"])
      BY <1>1, <3>5 DEF WithdrawSteps, Withdraw
    <3>6. QED
      BY <3>1, <3>2, <3>3, <3>4, <3>5 DEF SeesFreeNonce, Send, SaveAttempt
  <2>3. CASE \E w \in Workers : Receipt(w) \/ GiveUp(w) \/ Crash(w)
    BY <1>1, <2>3 DEF Receipt, GiveUp, Crash, WithdrawSteps
  <2>4. CASE \/ CreateRequest \/ ExpireRequest \/ BeginHandler \/ (\E a \in Actors : RunHandler(a))
             \/ ProcessPayouts \/ LockExpires \/ Mine \/ Scan \/ (\E a \in Checkers : CheckTx(a))
             \/ CheckLost \/ (\E a \in Actors : SettleDies(a)) \/ UNCHANGED vars
    BY <2>4 DEF CreateRequest, ExpireRequest, BeginHandler, RunHandler, ProcessPayouts, LockExpires, Mine,
           Scan, CheckTx, CheckLost, SettleDies, vars, payoutVars
  <2>5. QED
    BY <2>1, <2>2, <2>3, <2>4 DEF Next, PayoutWorker, Quiescent
<1>3. QED
  BY <1>1, <1>2 DEF NoWithdraw, HereAt

LEMMA NoneSent ==
    ASSUME PayoutInv, [Next]_vars, NEW r \in Elsewhere, HereAt(r) PROVE ~Sent(r)'
<1>1. CASE UNCHANGED <<pool, mined>>
  BY <1>1 DEF HereAt, Sent, Known, Used
<1>2. CASE \E w \in Workers : Sends(w)
  <2>1. PICK w \in Workers : Sends(w)
    BY <1>2
  <2>2. worker[w].tx.id = worker[w].id /\ worker[w].id # r
    BY <2>1, RunningWorker DEF Sends, WithdrawOK, HereAt
  <2>3. QED
    BY <2>1, <2>2 DEF HereAt, Sent, Known, Used, Sends
<1>3. CASE Mine
  <2>1. PICK u \in pool, ok \in BOOLEAN :
          /\ u \in Tx /\ u.nonce = Len(mined)
          /\ pool' = pool \ SameNonce(u)
          /\ Len(mined) \in Nat /\ Len(mined') = Len(mined) + 1
          /\ mined'[Len(mined) + 1] = [tx |-> u, ok |-> ok]
          /\ \A i \in 1 .. Len(mined) : mined'[i] = mined[i]
    BY <1>3, MinesOne
  <2>2. ASSUME NEW i \in 1 .. Len(mined') PROVE mined'[i].tx \in Known
    <3>1. CASE i \in 1 .. Len(mined)
      BY <2>1, <3>1 DEF Known, Used
    <3>2. CASE i = Len(mined) + 1
      BY <2>1, <3>2 DEF Known
    <3>3. QED
      BY <2>1, <3>1, <3>2
  <2>3. Known' \subseteq Known
    BY <2>1, <2>2 DEF Known, Used
  <2>4. QED
    BY <2>3 DEF HereAt, Sent
<1>4. QED
  BY <1>1, <1>2, <1>3, ChainMoves

LEMMA NoCheck ==
    ASSUME PayoutInv, [Next]_vars, NEW r \in Elsewhere, HereAt(r), NEW c \in checks' PROVE c.id # r
<1>1. CASE Scan
  <2>1. PICK i \in 1 .. Len(mined) :
          checks' = checks \cup {[id |-> q, ok |-> mined[i].ok] : q \in Awaiting(mined[i].tx)}
    BY <1>1 DEF Scan
  <2>2. r \notin Awaiting(mined[i].tx)
    <3>1. r \in Requests /\ \A t \in req[r].attempts : t.id = r
      BY PayoutAssumption DEF PayoutInv, RowsOK, ObjectOK
    <3>2. mined[i].tx \in Known
      BY DEF Known, Used
    <3>3. QED
      BY <3>1, <3>2 DEF Awaiting, HereAt, Sent
  <2>3. QED
    BY <2>1, <2>2 DEF HereAt
<1>2. CASE CheckLost \/ \E a \in Checkers : CheckTx(a)
  BY <1>2 DEF CheckTx, CheckLost, HereAt
<1>3. CASE \/ CreateRequest \/ ExpireRequest \/ BeginHandler \/ (\E a \in Actors : RunHandler(a))
           \/ ProcessPayouts \/ (\E w \in Workers : PayoutWorker(w) \/ Crash(w))
           \/ LockExpires \/ Mine \/ (\E a \in Actors : SettleDies(a)) \/ UNCHANGED vars
  <2>1. UNCHANGED checks
    BY <1>3 DEF CreateRequest, ExpireRequest, BeginHandler, RunHandler, ProcessPayouts, PayoutWorker,
         StartWithdraw, SeesFreeNonce, TakeNonce, Send, SaveAttempt, Receipt, Resend, GiveUp, Crash,
         LockExpires, Mine, SettleDies, vars, payoutVars
  <2>2. QED
    BY <2>1 DEF HereAt
<1>4. QED
  BY <1>1, <1>2, <1>3 DEF Next, Quiescent

LEMMA NoneSettled ==
    ASSUME PayoutInv, [Next]_vars, NEW r \in Elsewhere, HereAt(r), NEW a \in Actors, task'[a].id = r
    PROVE  task'[a].op \notin Settles
<1>1. CASE task'[a] = task[a] \/ Continues(a)
  BY <1>1 DEF HereAt, Continues, Settles
<1>2. CASE task'[a] = NoTask
  BY <1>2 DEF NoTask, Settles
<1>3. CASE \E op \in Handlers, q \in Requests : Starts(a, op, q)
  BY <1>3, PayoutAssumption DEF Starts
<1>4. CASE \E q \in Requests : Starts(a, "fail", q) /\ payouts[q] > 0
  BY <1>4 DEF Starts, HereAt
<1>5. CASE \E c \in checks, op \in Settles : Starts(a, op, c.id)
  BY <1>5 DEF Starts, HereAt
<1>6. QED
  BY <1>1, <1>2, <1>3, <1>4, <1>5, TaskMoves

LEMMA HereStart == Init => HereInv /\ OpenElsewhere
  BY WithdrawalAssumption, PayoutAssumption
     DEF Init, RequestInit, HereInv, HereAt, OpenElsewhere, OpenAt, Sent, Known, Used, NoTask, NoRow,
         NoWithdraw, Settles

LEMMA HereNext ==
    ASSUME PayoutInv, HereInv, [Next]_vars PROVE HereInv'
<1> SUFFICES ASSUME NEW r \in Elsewhere PROVE HereAt(r)'
  BY DEF HereInv
<1>1. HereAt(r)
  BY DEF HereInv
<1>2. QED
  BY <1>1, NoneQueued, NoWorker, NoneSent, NoCheck, NoneSettled DEF HereAt

(* Only a completion makes a row COMPLETED that was not. *)
LEMMA OpenNext ==
    ASSUME PayoutInv, HereInv, OpenElsewhere, [Next]_vars PROVE OpenElsewhere'
<1> SUFFICES ASSUME NEW r \in Elsewhere PROVE OpenAt(r)'
  BY DEF OpenElsewhere
<1>1. r \in Requests /\ HereAt(r) /\ OpenAt(r)
  BY PayoutAssumption DEF HereInv, OpenElsewhere
<1>2. req'[r].state # "COMPLETED"
  <2>1. ASSUME NEW a \in Actors, Rewrites(a, r) PROVE req'[r].state # "COMPLETED"
    <3> DEFINE t == task[a]
    <3>1. /\ req \in [Requests -> Row] /\ t \in Task /\ t.id = r
          /\ req[r].state # "COMPLETED" /\ t.obj.state # "COMPLETED"
      BY <1>1, <2>1 DEF Rewrites, OpenAt, PayoutInv, TypeOK, RequestTypeOK
    <3>2. req[r] \in Row /\ t.obj \in Row
      BY <1>1, <3>1 DEF Task
    <3>3. CASE Confirm(a)
      BY <1>1, <3>1, <3>2, <3>3 DEF Confirm, Row
    <3>4. CASE AdminSave(a)
      <4> DEFINE x == Changed(t.op, t.obj)
      <4>1. t.op \in AdminSaves /\ (UNCHANGED req \/ req' = [req EXCEPT ![r] = x])
        BY <3>1, <3>4 DEF AdminSave
      <4>2. x.state # "COMPLETED"
        BY <3>1, <3>2, <4>1 DEF Changed, Row, AdminSaves
      <4> HIDE DEF x
      <4>3. QED
        BY <1>1, <3>1, <4>1, <4>2
    <3>5. CASE GiveBack(a)
      <4> DEFINE x == Returned(t)
      <4>1. t.op \in Cancels \cup {"fail"} /\ (UNCHANGED req \/ req' = [req EXCEPT ![r] = x])
        BY <3>1, <3>5 DEF GiveBack
      <4>2. x.state # "COMPLETED"
        BY <3>1, <3>2, <4>1 DEF Returned, Row, Cancels
      <4> HIDE DEF x
      <4>3. QED
        BY <1>1, <3>1, <4>1, <4>2
    <3>6. QED
      BY <2>1, <3>3, <3>4, <3>5 DEF Rewrites
  <2>2. QED
    BY <1>1, <2>1, RowMoves DEF OpenAt
<1>3. ASSUME NEW a \in Actors, task'[a].id = r PROVE task'[a].obj.state # "COMPLETED"
  <2>1. CASE task'[a] = task[a] \/ Continues(a)
    BY <1>1, <1>3, <2>1 DEF OpenAt, Continues
  <2>2. CASE task'[a] = NoTask
    BY <2>2 DEF NoTask, NoRow
  <2>3. CASE \E op, q : Starts(a, op, q)
    BY <1>1, <1>3, <2>3 DEF Starts, OpenAt
  <2>4. QED
    BY <2>1, <2>2, <2>3, TaskMoves
<1>4. QED
  BY <1>2, <1>3 DEF OpenAt

(* A request is COMPLETED only when the chain holds its payment. *)
THEOREM OnlyPaidComplete == Spec => []CompletedWerePaid
<1>1. PayoutInv /\ OpenElsewhere => CompletedWerePaid
  <2> SUFFICES ASSUME PayoutInv, OpenElsewhere, NEW r \in Requests, req[r].state = "COMPLETED"
               PROVE  PaidTimes(r) > 0
    BY DEF CompletedWerePaid
  <2> DEFINE S == {i \in 1 .. Len(mined) : mined[i].tx.id = r /\ mined[i].ok}
  <2>1. S # {}
    BY DEF PayoutInv, RowsOK, ObjectOK, PaidIn, OpenElsewhere, OpenAt
  <2>2. IsFiniteSet(S)
    <3>1. Len(mined) \in Nat
      BY Others
    <3>2. IsFiniteSet(1 .. Len(mined))
      BY <3>1, FS_Interval
    <3>3. S \subseteq 1 .. Len(mined)
      OBVIOUS
    <3>4. QED
      BY <3>2, <3>3, FS_Subset
  <2>3. Cardinality(S) \in Nat /\ Cardinality(S) # 0
    BY <2>1, <2>2, FS_CardinalityType, FS_EmptySet
  <2>4. QED
    BY <2>3 DEF PaidTimes
<1>2. HereInv /\ OpenElsewhere /\ PayoutInv /\ [Next]_vars => HereInv' /\ OpenElsewhere'
  BY HereNext, OpenNext
<1>3. QED
  BY <1>1, <1>2, HereStart, PayoutCorrect, PTL DEF Spec

-----------------------------------------------------------------------------
(***************************************************************************)
(* Theorems of EvmPayouts about nonces and money.  They hold under the     *)
(* timing each of them names: EvmPayouts!Races says what the code leaves   *)
(* to timing, and the runs show what is lost without it.                   *)
(***************************************************************************)

-----------------------------------------------------------------------------
(* Nonces are mined in order.                                              *)

LEMMA ChainStart == Init => ChainInv
  BY DEF Init, ChainInv

LEMMA ChainNext ==
    ASSUME PayoutInv, ChainInv, [Next]_vars PROVE ChainInv'
<1>1. CASE UNCHANGED <<pool, mined>>
  BY <1>1 DEF ChainInv
<1>2. CASE \E w \in Workers : Sends(w)
  BY <1>2 DEF ChainInv, Sends, Accepts, SameNonce
<1>3. CASE Mine
  <2>1. PICK u \in pool, ok \in BOOLEAN :
          /\ u \in Tx /\ u.nonce = Len(mined)
          /\ pool' = pool \ SameNonce(u)
          /\ Len(mined) \in Nat /\ Len(mined') = Len(mined) + 1
          /\ mined'[Len(mined) + 1] = [tx |-> u, ok |-> ok]
          /\ \A i \in 1 .. Len(mined) : mined'[i] = mined[i]
    BY <1>3, MinesOne
  <2>2. \A i \in 1 .. Len(mined') : mined'[i].tx.nonce = i - 1
    <3> SUFFICES ASSUME NEW i \in 1 .. Len(mined') PROVE mined'[i].tx.nonce = i - 1
      OBVIOUS
    <3>1. CASE i \in 1 .. Len(mined)
      BY <2>1, <3>1 DEF ChainInv
    <3>2. CASE i = Len(mined) + 1
      BY <2>1, <3>2
    <3>3. QED
      BY <2>1, <3>1, <3>2
  <2>3. \A t \in pool' : t.nonce >= Len(mined')
    <3> SUFFICES ASSUME NEW t \in pool' PROVE t.nonce >= Len(mined')
      OBVIOUS
    <3>1. t \in pool /\ t.nonce # Len(mined)
      BY <2>1 DEF SameNonce
    <3>2. t.nonce \in Nat /\ t.nonce >= Len(mined)
      BY <3>1, Others DEF Tx, ChainInv
    <3>3. QED
      BY <2>1, <3>1, <3>2
  <2>4. \A t, u2 \in pool' : t.nonce = u2.nonce => t = u2
    BY <2>1 DEF ChainInv
  <2>5. QED
    BY <2>2, <2>3, <2>4 DEF ChainInv
<1>4. QED
  BY <1>1, <1>2, <1>3, ChainMoves

-----------------------------------------------------------------------------
(* The nonce and its key.                                                  *)

(* What holds of the others when w takes a step to x. *)
LEMMA OthersStay ==
    ASSUME PayoutInv, NEW w \in Workers, NEW x, WithdrawSteps(w, x)
    PROVE  worker'[w] = x /\ \A v \in Workers \ {w} : worker'[v] = worker[v]
  BY DEF WithdrawSteps, PayoutInv, TypeOK

(* A step that changes neither lock, pool nor chain, and after which w     *)
(* has no nonce, or has it as it had it. *)
LEMMA LockSame ==
    ASSUME PayoutInv, LockInv, UNCHANGED <<lock, pool, mined>>, NEW w \in Workers, NEW x,
           WithdrawSteps(w, x),
           \/ x.step \in {"idle", "nonce", "free"}
           \/ x.step = "receipt" /\ worker[w].step = "save" /\ x.id = worker[w].id /\ x.tx = worker[w].tx
    PROVE  LockInv'
<1>1. worker'[w] = x /\ \A v \in Workers \ {w} : worker'[v] = worker[v]
  BY OthersStay
<1>2. QED
  BY <1>1 DEF LockInv, HasNonce

LEMMA LockUnchanged ==
    ASSUME LockInv, UNCHANGED <<lock, pool, mined, worker>> PROVE LockInv'
  BY DEF LockInv

LEMMA LockStart == Init => LockInv
  BY DEF Init, LockInv, HasNonce, NoWithdraw

LEMMA LockSees ==
    ASSUME PayoutInv, LockInv, NEW w \in Workers, SeesFreeNonce(w)
    PROVE  LockInv'
<1> DEFINE x == [worker[w] EXCEPT !.step = "free"]
<1>1. x.step = "free"
  BY RunningWorker DEF Withdraw
<1>2. WithdrawSteps(w, x) /\ UNCHANGED <<lock, pool, mined>>
  BY DEF SeesFreeNonce, chainVars
<1> HIDE DEF x
<1>3. QED
  BY <1>1, <1>2, LockSame

(* The key is not lost when it was free to take. *)
LEMMA LockTakes ==
    ASSUME ~keyLost', PayoutInv, LockInv, NEW w \in Workers, TakeNonce(w)
    PROVE  LockInv'
<1>1. PICK p \in 1 .. MaxPrice :
        WithdrawSteps(w, [worker[w] EXCEPT !.step = "send",
                             !.tx = [id |-> worker[w].id, nonce |-> Len(mined), price |-> p]])
  BY DEF TakeNonce
<1> DEFINE u == [id |-> worker[w].id, nonce |-> Len(mined), price |-> p]
           x == [worker[w] EXCEPT !.step = "send", !.tx = u]
<1>2. worker'[w] = x /\ \A v \in Workers \ {w} : worker'[v] = worker[v]
  BY <1>1, OthersStay
<1>3. u.nonce = Len(mined) /\ Len(mined) \in Nat
  BY Others
<1> HIDE DEF u
<1>4. x.step = "send" /\ x.tx = u
  BY RunningWorker DEF Withdraw
<1>5. ~lock /\ lock' = TRUE /\ UNCHANGED <<pool, mined>>
  BY DEF TakeNonce
<1>6. pool = {} /\ \A v \in Workers \ {w} : worker[v].step \notin HasNonce
  BY <1>5 DEF LockInv
<1> HIDE DEF x
<1>7. QED
  BY <1>2, <1>3, <1>4, <1>5, <1>6 DEF LockInv, HasNonce

(* The node takes a resend in place of the worker's own transaction.       *)
LEMMA LockSends ==
    ASSUME ~keyLost', PayoutInv, ChainInv, LockInv, NEW w \in Workers, Send(w)
    PROVE  LockInv'
<1> DEFINE u == worker[w].tx
           x == [worker[w] EXCEPT !.step = "save"]
<1>1. worker[w] \in Withdraw /\ u \in Tx /\ u.id = worker[w].id /\ worker[w].step = "send"
  BY RunningWorker DEF Send, WithdrawOK
<1>2. Len(mined) \in Nat /\ pool \subseteq Tx
  BY Others
<1>3. SameNonce(u) = pool
  BY <1>1 DEF SameNonce, LockInv, HasNonce
<1>4. lock /\ u.nonce <= Len(mined)
  BY <1>1 DEF LockInv, HasNonce
<1>5. mined' = mined
  BY DEF Send
<1>6. CASE Accepts(u) /\ pool' = (pool \ SameNonce(u)) \cup {u} /\ WithdrawSteps(w, x) /\ UNCHANGED lock
  <2>1. worker'[w] = x /\ \A v \in Workers \ {w} : worker'[v] = worker[v]
    BY <1>6, OthersStay
  <2>2. x.step = "save" /\ x.tx = u /\ x.id = worker[w].id
    BY <1>1 DEF Withdraw
  <2>3. pool' = {u}
    BY <1>3, <1>6
  <2>4. u.nonce = Len(mined)
    BY <1>1, <1>2, <1>4, <1>6 DEF Accepts, Tx
  <2> HIDE DEF u, x
  <2>5. \A v \in Workers \ {w} : worker[v].step \notin HasNonce
    BY <1>1 DEF LockInv, HasNonce
  <2>6. QED
    BY <1>1, <1>2, <1>4, <1>5, <1>6, <2>1, <2>2, <2>3, <2>4, <2>5 DEF LockInv, HasNonce
<1>7. CASE /\ lock' = FALSE /\ keyLost' = (keyLost \/ pool # {})
           /\ WithdrawSteps(w, NoWithdraw) /\ UNCHANGED pool
  <2>1. worker'[w] = NoWithdraw /\ \A v \in Workers \ {w} : worker'[v] = worker[v]
    BY <1>7, OthersStay
  <2>2. pool = {}
    BY <1>7
  <2>3. \A v \in Workers \ {w} : worker[v].step \notin HasNonce
    BY <1>1 DEF LockInv, HasNonce
  <2>4. NoWithdraw.step = "idle"
    BY DEF NoWithdraw
  <2>5. QED
    BY <1>5, <1>7, <2>1, <2>2, <2>3, <2>4 DEF LockInv, HasNonce
<1>8. QED
  BY <1>6, <1>7 DEF Send

LEMMA LockReceives ==
    ASSUME PayoutInv, ChainInv, LockInv, NEW w \in Workers, Receipt(w)
    PROVE  LockInv'
<1>1. worker'[w] = NoWithdraw /\ \A v \in Workers \ {w} : worker'[v] = worker[v]
  BY OthersStay DEF Receipt
<1>2. worker[w].step = "receipt" /\ lock' = FALSE /\ UNCHANGED <<pool, mined>>
  BY DEF Receipt
<1>3. PICK i \in 1 .. Len(mined) : mined[i].tx = worker[w].tx
  BY DEF Receipt, Used
<1>4. worker[w].tx.nonce = i - 1 /\ Len(mined) \in Nat
  BY <1>3, Others DEF ChainInv
<1>5. pool = {}
  BY <1>2, <1>4 DEF LockInv, HasNonce
<1>6. NoWithdraw.step = "idle" /\ \A v \in Workers \ {w} : worker[v].step \notin HasNonce
  BY <1>2 DEF LockInv, HasNonce, NoWithdraw
<1>7. QED
  BY <1>1, <1>2, <1>5, <1>6 DEF LockInv, HasNonce

LEMMA LockResends ==
    ASSUME PayoutInv, LockInv, NEW w \in Workers, Resend(w)
    PROVE  LockInv'
<1> DEFINE v == worker[w]
           u == [v.tx EXCEPT !.price = @ + 1]
           x == [v EXCEPT !.step = "send", !.obj = req[v.tx.id], !.tx = u]
<1>1. v \in Withdraw /\ v.step = "receipt" /\ v.tx \in Tx
  BY RunningWorker DEF Resend, WithdrawOK
<1>2. u.nonce = v.tx.nonce /\ u.price = v.tx.price + 1 /\ v.tx.price \in Nat
  BY <1>1 DEF Tx
<1>3. [v EXCEPT !.step = "send", !.obj = req[v.tx.id], !.tx.price = @ + 1] = x
  BY <1>1 DEF Withdraw
<1>4. worker'[w] = x /\ \A y \in Workers \ {w} : worker'[y] = worker[y]
  BY <1>3, OthersStay DEF Resend
<1> HIDE DEF u
<1>5. x.step = "send" /\ x.tx = u /\ x.id = v.id
  BY <1>1 DEF Withdraw
<1>6. UNCHANGED <<lock, pool, mined>>
  BY DEF Resend, chainVars
<1> HIDE DEF x
<1>7. /\ lock /\ v.tx.nonce <= Len(mined)
      /\ \A y \in Workers \ {w} : worker[y].step \notin HasNonce
      /\ \A t \in pool : t = v.tx /\ t.id = v.id
  BY <1>1 DEF LockInv, HasNonce
<1>8. \A t \in pool : t.id = x.id /\ t.nonce = x.tx.nonce /\ t.price < x.tx.price
  BY <1>2, <1>5, <1>7
<1>9. \A y \in Workers \ {w} : worker'[y].step \notin HasNonce
  BY <1>4, <1>7
<1>10. worker'[w].step = "send" /\ worker'[w].id = x.id /\ worker'[w].tx = x.tx
       /\ x.tx.nonce <= Len(mined)
  BY <1>2, <1>4, <1>5, <1>7
<1>11. lock' /\ pool' = pool /\ mined' = mined
  BY <1>6, <1>7
<1>12. \A t \in pool : t.nonce = Len(mined) /\ \A z \in pool : z = t
  BY DEF LockInv
<1>13. QED
  BY <1>8, <1>9, <1>10, <1>11, <1>12 DEF LockInv, HasNonce

LEMMA LockMines ==
    ASSUME PayoutInv, LockInv, Mine
    PROVE  LockInv'
<1>1. PICK u \in pool, ok \in BOOLEAN :
        /\ u \in Tx /\ u.nonce = Len(mined)
        /\ pool' = pool \ SameNonce(u)
        /\ Len(mined) \in Nat /\ Len(mined') = Len(mined) + 1
        /\ mined'[Len(mined) + 1] = [tx |-> u, ok |-> ok]
        /\ \A i \in 1 .. Len(mined) : mined'[i] = mined[i]
  BY MinesOne
<1>2. pool' = {}
  BY <1>1 DEF LockInv, SameNonce
<1>3. lock' = lock /\ worker' = worker
  BY DEF Mine, payoutVars
<1>4. \A w \in Workers : worker[w].step \in HasNonce => worker[w].tx.nonce \in Nat
  BY RunningWorker DEF WithdrawOK, HasNonce, Tx
<1>5. QED
  BY <1>1, <1>2, <1>3, <1>4 DEF LockInv

LEMMA LockNext ==
    ASSUME ~keyLost', PayoutInv, ChainInv, LockInv, [Next]_vars
    PROVE  LockInv'
<1>1. CASE \E w \in Workers : PayoutWorker(w) \/ Crash(w)
  <2>1. PICK w \in Workers : PayoutWorker(w) \/ Crash(w)
    BY <1>1
  <2>2. CASE StartWithdraw(w)
    <3>1. UNCHANGED <<lock, pool, mined>>
      BY <2>2 DEF StartWithdraw, chainVars
    <3>2. CASE UNCHANGED worker
      BY <3>1, <3>2, LockUnchanged
    <3>3. CASE \E r \in Requests :
                 WithdrawSteps(w, [step |-> "nonce", id |-> r, obj |-> req[r], tx |-> NoTx])
      BY <3>1, <3>3, LockSame
    <3>4. QED
      BY <2>2, <3>2, <3>3 DEF StartWithdraw
  <2>3. CASE SaveAttempt(w)
    <3>1. UNCHANGED <<lock, pool, mined>> /\ worker[w].step = "save"
      BY <2>3 DEF SaveAttempt, chainVars
    <3> DEFINE x == [worker[w] EXCEPT !.step = "receipt"]
    <3>2. x.step = "receipt" /\ x.id = worker[w].id /\ x.tx = worker[w].tx
      BY RunningWorker DEF Withdraw
    <3>3. NoWithdraw.step = "idle"
      BY DEF NoWithdraw
    <3>4. WithdrawSteps(w, x) \/ WithdrawSteps(w, NoWithdraw)
      BY <2>3 DEF SaveAttempt
    <3>5. QED
      BY <3>1, <3>2, <3>3, <3>4, LockSame
  <2>4. CASE GiveUp(w) \/ Crash(w)
    BY <2>4, LockSame DEF GiveUp, Crash, chainVars, NoWithdraw
  <2>5. QED
    BY <2>1, <2>2, <2>3, <2>4, LockSees, LockTakes, LockSends, LockReceives, LockResends DEF PayoutWorker
<1>2. CASE LockExpires
  BY <1>2 DEF LockExpires, LockInv, HasNonce, payoutVars
<1>3. CASE \/ CreateRequest \/ ExpireRequest \/ BeginHandler \/ \E a \in Actors : RunHandler(a)
           \/ ProcessPayouts \/ (\E a \in Checkers : CheckTx(a))
           \/ CheckLost \/ \E a \in Actors : SettleDies(a)
  BY <1>3, LockUnchanged
     DEF CreateRequest, ExpireRequest, BeginHandler, RunHandler, ProcessPayouts, CheckTx, CheckLost,
         SettleDies, chainVars, payoutVars
<1>4. CASE Scan \/ UNCHANGED vars
  BY <1>4, LockUnchanged DEF Scan, vars, chainVars, payoutVars
<1>5. QED
  BY <1>1, <1>2, <1>3, <1>4, LockMines DEF Next, Quiescent

(* A key that was lost stays lost. *)
LEMMA KeyStaysLost == ASSUME keyLost, [Next]_vars PROVE keyLost'
<1>1. CASE \E w \in Workers : PayoutWorker(w) \/ Crash(w)
  BY <1>1 DEF PayoutWorker, StartWithdraw, SeesFreeNonce, TakeNonce, Send, SaveAttempt, Receipt, Resend,
              GiveUp, Crash, chainVars
<1>2. CASE \/ CreateRequest \/ ExpireRequest \/ BeginHandler \/ \E a \in Actors : RunHandler(a)
           \/ ProcessPayouts \/ (\E a \in Checkers : CheckTx(a))
           \/ CheckLost \/ \E a \in Actors : SettleDies(a)
  BY <1>2 DEF CreateRequest, ExpireRequest, BeginHandler, RunHandler, ProcessPayouts, CheckTx, CheckLost,
              SettleDies, chainVars
<1>3. CASE LockExpires \/ Mine \/ Scan \/ UNCHANGED vars
  BY <1>3 DEF LockExpires, Mine, Scan, vars, chainVars
<1>4. QED
  BY <1>1, <1>2, <1>3 DEF Next, Quiescent

LEMMA LockSound == Spec => [](PayoutInv /\ ChainInv /\ KeyInv)
<1> DEFINE I == PayoutInv /\ ChainInv /\ KeyInv
<1>1. Init => I
  BY PayoutInit, ChainStart, LockStart DEF KeyInv
<1>2. I /\ [Next]_vars => I'
  BY PayoutNext, ChainNext, LockNext, KeyStaysLost DEF KeyInv
<1>3. QED
  BY <1>1, <1>2, PTL DEF Spec

(* Until the key nonce_<keeper>_lock is lost, set twice or gone while a    *)
(* nonce is in use, the only transaction that takes another's place is a   *)
(* resend of the same withdrawal: with every race.                         *)
THEOREM ReplacedByOwnResendAlways == Spec => ReplacedByOwnResend
<1>1. ASSUME PayoutInv /\ ChainInv /\ KeyInv, [Next]_vars
      PROVE  [~keyLost => \A t \in pool, u \in pool' \ pool : t.nonce = u.nonce => t.id = u.id]_vars
  <2>1. CASE keyLost \/ UNCHANGED pool \/ Mine
    BY <2>1 DEF Mine
  <2>2. CASE ~keyLost /\ \E w \in Workers : Sends(w)
    <3>1. PICK w \in Workers : Sends(w)
      BY <2>2
    <3>2. worker[w].step = "send" /\ worker[w].tx.id = worker[w].id
          /\ pool' \subseteq pool \cup {worker[w].tx}
      BY <1>1, <3>1, RunningWorker DEF Sends, WithdrawOK
    <3>3. LockInv
      BY <1>1, <2>2 DEF KeyInv
    <3>4. QED
      BY <3>2, <3>3 DEF LockInv, HasNonce
  <2>3. QED
    BY <1>1, <2>1, <2>2, ChainMoves
<1>2. QED
  BY <1>1, LockSound, PTL DEF Spec, ReplacedByOwnResend

-----------------------------------------------------------------------------
(* The requests that a step leaves alone.                                  *)

(* Nothing new comes to r: rows stay, handlers and workers may leave,      *)
(* transactions may be replaced or mined.                                  *)
Calm(r) ==
    /\ req'[r] = req[r] /\ transaction'[r] = transaction[r]
    /\ payouts'[r] <= payouts[r]
    /\ \A t \in pool' : t.id = r => t \in pool
    /\ \A t \in Known' : t.id = r => t \in Known
    /\ \A c \in checks' : c.id = r => c \in checks
    /\ \A a \in Actors : task'[a].id = r =>
           task[a].id = r /\ task'[a].op = task[a].op /\ task'[a].obj = task[a].obj
    /\ \A w \in Workers : worker'[w].id = r => worker'[w] = worker[w]
    /\ \A w \in Workers : worker[w].id = r /\ worker[w].step = "save" => worker'[w] = worker[w]
    /\ FailedIn(mined) \subseteq FailedIn(mined')

(* Who is at a request. *)
LEMMA AtRequest ==
    ASSUME MoneyInv, NEW r \in Requests
    PROVE  /\ payouts[r] \in Nat /\ req[r] \in Row
           /\ \A a \in Actors : task[a].id = r => task[a].op # "none" /\ task[a] \in Task
           /\ \A w \in Workers : worker[w].id = r =>
                 worker[w].step # "idle" /\ worker[w] \in Withdraw /\ WithdrawOK(worker[w])
  BY WithdrawalAssumption
     DEF MoneyInv, PayoutInv, TypeOK, RequestTypeOK, IdleInv, NoTask, NoWithdraw, WithdrawsOK

LEMMA CalmStays ==
    ASSUME MoneyInv, PayoutInv', NEW r \in Requests, Calm(r)
    PROVE  RequestInv(r)'
<1>1. RequestInv(r)
  BY DEF MoneyInv
<1>2. payouts[r] \in Nat /\ payouts'[r] \in Nat /\ payouts'[r] <= payouts[r]
  BY AtRequest DEF Calm, PayoutInv, TypeOK
<1>3. Sent(r)' => Sent(r)
  BY DEF Sent, Calm
<1>4. InPayout(r)' => InPayout(r)
  BY <1>2 DEF InPayout, Calm
<1>5. RowInv(r)'
  <2>1. req'[r] = req[r] /\ transaction'[r] = transaction[r]
    BY DEF Calm
  <2>2. req[r].state = "FAILED" => r \in TooSmall \cup FailedIn(mined')
    BY <1>1 DEF RequestInv, RowInv, Calm
  <2>3. \A w \in Workers : worker[w].id = r /\ worker[w].step = "save" => worker'[w] = worker[w]
    BY DEF Calm
  <2>4. QED
    BY <1>1, <1>3, <1>4, <2>1, <2>2, <2>3 DEF RequestInv, RowInv
<1>6. QueueInv(r)'
  <2>1. SUFFICES ASSUME payouts'[r] > 0 PROVE QueueInv(r)'
    BY DEF QueueInv
  <2>2. payouts[r] > 0
    BY <1>2, <2>1
  <2>3. payouts'[r] = 1
    BY <1>1, <1>2, <2>1, <2>2 DEF RequestInv, QueueInv
  <2>4. QED
    BY <1>1, <1>3, <2>2, <2>3 DEF RequestInv, QueueInv, Calm
<1>7. CheckInv(r)' /\ NonceInv(r)'
  BY <1>1 DEF RequestInv, CheckInv, NonceInv, Calm
<1>8. ASSUME NEW a \in Actors, task'[a].id = r PROVE HandlerInv(a, r)'
  <2>1. task[a].id = r /\ task'[a].op = task[a].op /\ task'[a].obj = task[a].obj /\ req'[r] = req[r]
    BY <1>8 DEF Calm
  <2>2. HandlerInv(a, r)
    BY <1>1, <2>1 DEF RequestInv
  <2>3. \A b \in Actors : task'[b].id = r => task[b].id = r
    BY DEF Calm
  <2>4. SettleInv(task[a], r, req[r]) => SettleInv(task[a], r, req[r])'
    BY <2>1 DEF SettleInv, Calm
  <2>5. QED
    BY <1>4, <2>1, <2>2, <2>3, <2>4 DEF HandlerInv
<1>9. ASSUME NEW w \in Workers, worker'[w].id = r PROVE WorkerInv(w, r)'
  <2>1. worker'[w] = worker[w] /\ worker[w].id = r
    BY <1>9 DEF Calm
  <2>2. WorkerInv(w, r)
    BY <1>1, <2>1 DEF RequestInv
  <2>3. \A v \in Workers : worker'[v].id = r => worker[v].id = r
    BY DEF Calm
  <2>4. req'[r] = req[r] /\ \A t \in Known' : t.id = r => t \in Known
    BY DEF Calm
  <2>5. AttemptInv(worker[w], r, req[r])'
    BY <1>3, <2>1, <2>2, <2>4 DEF WorkerInv, AttemptInv
  <2>6. \A v \in Workers \ {w} : worker'[v].id # r
    BY <2>2, <2>3 DEF WorkerInv
  <2>7. worker[w].step = "save" =>
           /\ \A t \in Known' : t.id = r => t = worker[w].tx
           /\ \A c \in checks' : c.id # r
           /\ \A a \in Actors : task'[a].id # r
    BY <2>2 DEF WorkerInv, Calm
  <2>8. QED
    BY <2>1, <2>5, <2>6, <2>7 DEF WorkerInv
<1>10. QED
  BY <1>5, <1>6, <1>7, <1>8, <1>9 DEF RequestInv

(* What a step has to keep besides the parts proved above. *)
MoneyKept == IdleInv' /\ \A r \in Requests : RequestInv(r)'

LEMMA TasksTyped == PayoutInv => task \in [Actors -> Task] /\ worker \in [Workers -> Withdraw]
  BY DEF PayoutInv, TypeOK, RequestTypeOK

(* A failed payment stays on the chain. *)
LEMMA FailedStays ==
    ASSUME PayoutInv, Mine PROVE FailedIn(mined) \subseteq FailedIn(mined')
<1>1. PICK u \in pool, ok \in BOOLEAN :
        /\ u \in Tx /\ u.nonce = Len(mined)
        /\ pool' = pool \ SameNonce(u)
        /\ Len(mined) \in Nat /\ Len(mined') = Len(mined) + 1
        /\ mined'[Len(mined) + 1] = [tx |-> u, ok |-> ok]
        /\ \A i \in 1 .. Len(mined) : mined'[i] = mined[i]
  BY MinesOne
<1>2. SUFFICES ASSUME NEW i \in 1 .. Len(mined), ~mined[i].ok
               PROVE  mined[i].tx.id \in FailedIn(mined')
  BY DEF FailedIn
<1>3. i \in 1 .. Len(mined') /\ mined'[i] = mined[i]
  BY <1>1
<1>4. QED
  BY <1>2, <1>3 DEF FailedIn

(* Nothing changes but the lock, what is scanned and what has expired. *)
LEMMA MoneyUnchanged ==
    ASSUME MoneyInv, PayoutInv',
           UNCHANGED <<req, transaction, task, payouts, worker, pool, mined, checks>>
    PROVE  MoneyKept
<1>1. IdleInv'
  BY DEF MoneyInv, IdleInv
<1>2. ASSUME NEW r \in Requests PROVE Calm(r)
  BY AtRequest DEF Calm, Known, Used
<1>3. QED
  BY <1>1, <1>2, CalmStays DEF MoneyKept

(* A handler ends, or goes on to its write. *)
LEMMA TaskGoesOn ==
    ASSUME MoneyInv, PayoutInv', NEW a \in Actors,
           Ends(a) \/ task' = [task EXCEPT ![a].checked = TRUE],
           task[a].op # "none",
           UNCHANGED <<req, transaction, chainVars, payoutVars>>
    PROVE  MoneyKept
<1>1. task \in [Actors -> Task]
  BY TasksTyped DEF MoneyInv
<1>2. \A b \in Actors : \/ task'[b] = NoTask
                        \/ task'[b] = task[b]
                        \/ /\ task'[b].id = task[b].id /\ task'[b].op = task[b].op /\ task[b].op # "none"
                           /\ task'[b].obj = task[b].obj
  <2>1. CASE Ends(a)
    BY <1>1, <2>1 DEF Ends
  <2>2. CASE task' = [task EXCEPT ![a].checked = TRUE]
    BY <1>1, <2>2 DEF Task
  <2>3. QED
    BY <2>1, <2>2
<1>3. UNCHANGED <<payouts, worker, pool, mined, checks>>
  BY DEF chainVars, payoutVars
<1>4. IdleInv'
  BY <1>2, <1>3 DEF MoneyInv, IdleInv
<1>5. ASSUME NEW r \in Requests PROVE Calm(r)
  <2>1. \A b \in Actors : task'[b].id = r =>
           task[b].id = r /\ task'[b].op = task[b].op /\ task'[b].obj = task[b].obj
    BY <1>2, WithdrawalAssumption DEF NoTask
  <2>2. payouts'[r] <= payouts[r] /\ Known' = Known
    BY <1>3, AtRequest DEF Known, Used
  <2>3. QED
    BY <1>3, <2>1, <2>2 DEF Calm
<1>6. QED
  BY <1>4, <1>5, CalmStays DEF MoneyKept

(* A withdraw task ends without recording an attempt it sent. *)
LEMMA WorkerLeaves ==
    ASSUME MoneyInv, PayoutInv', NEW w \in Workers, worker[w].step # "save",
           WithdrawSteps(w, NoWithdraw),
           UNCHANGED <<req, transaction, task, payouts, pool, mined, checks>>
    PROVE  MoneyKept
<1>1. worker'[w] = NoWithdraw /\ \A v \in Workers \ {w} : worker'[v] = worker[v]
  BY OthersStay DEF MoneyInv
<1>2. IdleInv'
  BY <1>1 DEF MoneyInv, IdleInv
<1>3. ASSUME NEW r \in Requests PROVE Calm(r)
  BY <1>1, AtRequest, WithdrawalAssumption DEF Calm, Known, Used, NoWithdraw
<1>4. QED
  BY <1>2, <1>3, CalmStays DEF MoneyKept

LEMMA MoneyMines ==
    ASSUME MoneyInv, PayoutInv', Mine PROVE MoneyKept
<1>1. PICK u \in pool, ok \in BOOLEAN :
        /\ u \in Tx /\ u.nonce = Len(mined)
        /\ pool' = pool \ SameNonce(u)
        /\ Len(mined) \in Nat /\ Len(mined') = Len(mined) + 1
        /\ mined'[Len(mined) + 1] = [tx |-> u, ok |-> ok]
        /\ \A i \in 1 .. Len(mined) : mined'[i] = mined[i]
  BY MinesOne DEF MoneyInv
<1>2. UNCHANGED <<req, transaction, task, payouts, worker, checks>>
  BY DEF Mine, requestVars, payoutVars
<1>3. Known' \subseteq Known
  <2>1. SUFFICES ASSUME NEW t \in Used' PROVE t \in Known
    BY <1>1 DEF Known
  <2>2. PICK i \in 1 .. Len(mined') : t = mined'[i].tx
    BY DEF Used
  <2>3. CASE i \in 1 .. Len(mined)
    BY <1>1, <2>2, <2>3 DEF Known, Used
  <2>4. CASE i = Len(mined) + 1
    BY <1>1, <2>2, <2>4 DEF Known
  <2>5. QED
    BY <1>1, <2>3, <2>4
<1>4. IdleInv'
  BY <1>2 DEF MoneyInv, IdleInv
<1>5. ASSUME NEW r \in Requests PROVE Calm(r)
  <2>1. FailedIn(mined) \subseteq FailedIn(mined')
    BY FailedStays DEF MoneyInv
  <2>2. QED
    BY <1>1, <1>2, <1>3, <2>1, AtRequest DEF Calm
<1>6. QED
  BY <1>4, <1>5, CalmStays DEF MoneyKept

-----------------------------------------------------------------------------
(* The handlers that write a row.                                          *)

(* All transactions of a request have one nonce: at most one is mined. *)
LEMMA MinedOnce ==
    ASSUME MoneyInv, NEW r \in Requests, NEW i \in 1 .. Len(mined), NEW j \in 1 .. Len(mined),
           mined[i].tx.id = r, mined[j].tx.id = r
    PROVE  i = j
<1>1. mined[i].tx \in Known /\ mined[j].tx \in Known
  BY DEF Known, Used
<1>2. NonceInv(r) /\ ChainInv
  BY DEF MoneyInv, RequestInv
<1>3. mined[i].tx.nonce = mined[j].tx.nonce
  BY <1>1, <1>2 DEF NonceInv
<1>4. Len(mined) \in Nat
  BY Others DEF MoneyInv
<1>5. QED
  BY <1>2, <1>3, <1>4 DEF ChainInv

LEMMA PaidOrFailed ==
    ASSUME MoneyInv, NEW r \in Requests
    PROVE  ~(r \in PaidIn(mined) /\ r \in FailedIn(mined))
<1> SUFFICES ASSUME r \in PaidIn(mined), r \in FailedIn(mined) PROVE FALSE
  OBVIOUS
<1>1. PICK i \in 1 .. Len(mined) : mined[i].tx.id = r /\ mined[i].ok
  BY DEF PaidIn
<1>2. PICK j \in 1 .. Len(mined) : mined[j].tx.id = r /\ ~mined[j].ok
  BY DEF FailedIn
<1>3. QED
  BY <1>1, <1>2, MinedOnce

(* What was mined of r was sent. *)
LEMMA MinedWasSent ==
    ASSUME NEW r, r \in PaidIn(mined) \cup FailedIn(mined) PROVE Sent(r)
  BY DEF PaidIn, FailedIn, Sent, Known, Used

(* The handler of a writes the row x of r and ends, or goes on alone. *)
Writes(a, r, x) ==
    /\ req'[r] = x /\ \A q \in Requests \ {r} : req'[q] = req[q] /\ transaction'[q] = transaction[q]
    /\ transaction'[r] = MoneyOf(x.state)
    /\ \A b \in Actors \ {a} : task'[b] = task[b]
    /\ \/ task'[a] = NoTask
       \/ /\ task[a].op = "disable_user"
          /\ task'[a].op = "admin_cancel" /\ task'[a].id = r /\ task'[a].obj = x
    /\ UNCHANGED <<chainVars, payoutVars>>

(* What it may make of the row y. *)
MayWrite(r, y, x) ==
    /\ x.state # "NONE" /\ x.attempts = y.attempts
    /\ x.state \in {"CREATED", "VERIFYING"} => x.attempts = {}
    /\ x.state = "FAILED" => r \in TooSmall \cup FailedIn(mined)
    /\ x.state = "PENDING" => y.state = "PENDING"
    /\ InPayout(r) => x.approved /\ x.confirmed
    /\ y.state \in SentStates => x.state \in SentStates
    /\ r \in PaidIn(mined) /\ y.state \in {"PENDING", "COMPLETED"} => x.state \in {"PENDING", "COMPLETED"}
    /\ r \in FailedIn(mined) /\ y.state \in {"PENDING", "FAILED"} => x.state \in {"PENDING", "FAILED"}

LEMMA WritesKeep ==
    ASSUME MoneyInv, PayoutInv', NEW a \in Actors, NEW r \in Requests, NEW x,
           task[a].id = r, Writes(a, r, x), MayWrite(r, req[r], x)
    PROVE  MoneyKept
<1>1. RequestInv(r) /\ HandlerInv(a, r)
  BY DEF MoneyInv, RequestInv
<1>2. (task[a].op # "none" /\ task'[a] = NoTask) \/ task'[a].op = "admin_cancel"
  BY AtRequest DEF Writes
<1>3. UNCHANGED <<payouts, worker, pool, mined, checks>>
  BY DEF Writes, chainVars, payoutVars
<1>4. Known' = Known /\ (Sent(r)' <=> Sent(r))
  BY <1>3 DEF Known, Used, Sent
<1>5. IdleInv'
  BY <1>2, <1>3 DEF MoneyInv, IdleInv, Writes
<1>6. ASSUME NEW q \in Requests \ {r} PROVE Calm(q)
  BY <1>3, <1>4, AtRequest, WithdrawalAssumption DEF Calm, Writes, NoTask
<1>7. payouts[r] = 0
  BY <1>1, AtRequest DEF RequestInv, QueueInv
<1>8. InPayout(r)' => InPayout(r)
  BY <1>3 DEF InPayout, Writes, MayWrite
<1>9. RowInv(r)'
  <2>1. transaction'[r] = MoneyOf(req'[r].state)
    BY DEF Writes
  <2>2. req'[r].state \in {"NONE", "CREATED", "VERIFYING"} => req'[r].attempts = {}
    BY DEF Writes, MayWrite
  <2>3. req'[r].state = "FAILED" => r \in TooSmall \cup FailedIn(mined')
    BY <1>3 DEF Writes, MayWrite
  <2>4. InPayout(r)' => req'[r].state # "NONE" /\ req'[r].approved /\ req'[r].confirmed
    BY <1>8 DEF Writes, MayWrite
  <2>5. Sent(r)' => /\ r \notin TooSmall
                    /\ \/ req'[r].state \in SentStates
                       \/ \E w \in Workers : worker'[w].id = r /\ worker'[w].step = "save"
    BY <1>1, <1>3, <1>4 DEF RequestInv, RowInv, Writes, MayWrite
  <2>6. QED
    BY <2>1, <2>2, <2>3, <2>4, <2>5 DEF RowInv
<1>10. QueueInv(r)' /\ CheckInv(r)' /\ NonceInv(r)'
  BY <1>1, <1>3, <1>4, <1>7 DEF QueueInv, CheckInv, NonceInv, RequestInv, Writes, MayWrite
<1>11. ASSUME NEW b \in Actors, task'[b].id = r PROVE HandlerInv(b, r)'
  <2>1. CASE b = a
    <3>1. task'[a].op = "admin_cancel" /\ task'[a].obj = x /\ task[a].op = "disable_user"
      BY <1>11, <2>1, WithdrawalAssumption DEF Writes, NoTask
    <3>2. ~InPayout(r) /\ \A v \in Actors \ {a} : task[v].id # r
      BY <1>1, <3>1 DEF HandlerInv, FullSaves, AdminSaves, Settles
    <3>3. QED
      BY <1>8, <2>1, <3>1, <3>2 DEF HandlerInv, Writes, MayWrite, FullSaves, Settles
  <2>2. CASE b # a
    <3>1. task'[b] = task[b] /\ task[b].id = r /\ HandlerInv(b, r)
      BY <1>1, <1>11, <2>2 DEF Writes, RequestInv
    <3>2. task[b].op \notin FullSaves /\ task[b].op # "disable_user"
      BY <2>2, <3>1 DEF HandlerInv, FullSaves, AdminSaves
    <3>3. task[b].op = "complete" => r \in PaidIn(mined)
      BY <3>1 DEF MoneyInv, PayoutInv, TasksOK, TaskOK
    <3>4. task[b].op \in Settles => SettleInv(task[b], r, req[r])'
      BY <1>3, <3>1, <3>3 DEF HandlerInv, SettleInv, Writes, MayWrite
    <3>5. QED
      BY <1>8, <3>1, <3>2, <3>4 DEF HandlerInv, Writes, MayWrite
  <2>3. QED
    BY <2>1, <2>2
<1>12. ASSUME NEW w \in Workers, worker'[w].id = r PROVE WorkerInv(w, r)'
  <2>1. worker'[w] = worker[w] /\ worker[w].id = r /\ WorkerInv(w, r)
    BY <1>1, <1>3, <1>12 DEF RequestInv
  <2>2. InPayout(r) /\ worker[w].step # "save" /\ worker[w].step \in Steps
    BY <2>1, AtRequest DEF InPayout, WorkerInv, Withdraw
  <2>3. task[a].op \in Settles /\ SettleInv(task[a], r, req[r])
    BY <1>1, <2>2 DEF HandlerInv
  <2>4. req[r].state \in SentStates
    <3>1. task[a].op = "complete" => req[r].state \in SentStates
      BY <2>3 DEF SettleInv, SentStates
    <3>2. task[a].op = "fail" => req[r].state \in SentStates
      BY <2>1, <2>3 DEF SettleInv, SentStates, WorkerInv, AttemptInv
    <3>3. QED
      BY <2>3, <3>1, <3>2 DEF Settles
  <2>5. worker[w].step \in {"send", "receipt"}
    BY <2>1, <2>2, <2>4, AtRequest DEF WorkerInv, AttemptInv, SentStates, Steps
  <2>6. req'[r].state \in SentStates /\ req'[r].attempts = req[r].attempts
    BY <2>4 DEF Writes, MayWrite
  <2>7. AttemptInv(worker[w], r, req[r])'
    BY <1>4, <2>1, <2>5, <2>6 DEF WorkerInv, AttemptInv
  <2>8. QED
    BY <1>3, <2>1, <2>2, <2>7 DEF WorkerInv
<1>13. RequestInv(r)'
  BY <1>9, <1>10, <1>11, <1>12 DEF RequestInv
<1>14. QED
  BY <1>5, <1>6, <1>13, CalmStays DEF MoneyKept

(* A handler at its request, as it is about to write. *)
LEMMA AtWork ==
    ASSUME MoneyInv, NEW a \in Actors, task[a].op # "none"
    PROVE  /\ task[a].id \in Requests /\ task[a].obj \in Row /\ req[task[a].id] \in Row
           /\ HandlerInv(a, task[a].id) /\ RowInv(task[a].id)
           /\ task[a].op = "complete" => task[a].id \in PaidIn(mined)
<1>1. TaskOK(mined, task[a]) /\ task[a] \in Task
  BY TasksTyped DEF MoneyInv, PayoutInv, TasksOK
<1>2. task[a].id \in Requests
  BY <1>1 DEF TaskOK
<1>3. QED
  BY <1>1, <1>2, AtRequest DEF MoneyInv, RequestInv, Task, TaskOK

(* The pointwise form of a write. *)
LEMMA WritesAre ==
    ASSUME MoneyInv, NEW a \in Actors, task[a].op # "none", NEW x, NEW m,
           req' = [req EXCEPT ![task[a].id] = x],
           transaction' = [transaction EXCEPT ![task[a].id] = m], m = MoneyOf(x.state),
           Ends(a) \/ (task[a].op = "disable_user" /\ Loads(a, "admin_cancel", task[a].id, x)),
           UNCHANGED <<chainVars, payoutVars>>
    PROVE  Writes(a, task[a].id, x)
<1>1. /\ req \in [Requests -> Row] /\ task \in [Actors -> Task] /\ task[a].id \in Requests
      /\ transaction \in [Requests -> {"NONE", "PENDING", "COMPLETED", "CANCELED"}]
  BY AtWork DEF MoneyInv, PayoutInv, TypeOK, RequestTypeOK
<1> DEFINE r == task[a].id
<1>2. /\ \A b \in Actors \ {a} : task'[b] = task[b]
      /\ \/ task'[a] = NoTask
         \/ /\ task[a].op = "disable_user"
            /\ task'[a].op = "admin_cancel" /\ task'[a].id = r /\ task'[a].obj = x
  BY <1>1 DEF Ends, Loads
<1>3. QED
  BY <1>1, <1>2 DEF Writes

(* A handler that leaves the transaction. *)
LEMMA SameMoney ==
    ASSUME MoneyInv, NEW r \in Requests, NEW m, m = MoneyOf(req[r].state), UNCHANGED transaction
    PROVE  transaction' = [transaction EXCEPT ![r] = m]
<1>1. transaction[r] = m
  BY DEF MoneyInv, RequestInv, RowInv
<1>2. transaction = [q \in Requests |-> transaction[q]]
  BY DEF MoneyInv, PayoutInv, TypeOK, RequestTypeOK
<1>3. QED
  BY <1>1, <1>2

LEMMA MoneyConfirms ==
    ASSUME MoneyInv, PayoutInv', NEW a \in Actors, Confirm(a), UNCHANGED <<chainVars, payoutVars>>
    PROVE  MoneyKept
<1> DEFINE r == task[a].id
           x == [req[r] EXCEPT !.confirmed = TRUE]
<1>1. task[a].op # "none" /\ task[a].op \notin Settles
  BY DEF Confirm, Settles
<1>2. r \in Requests /\ req[r] \in Row /\ HandlerInv(a, r) /\ RowInv(r)
  BY <1>1, AtWork
<1>3. x \in Row /\ x.state = req[r].state /\ x.attempts = req[r].attempts
  BY <1>2 DEF Row
<1>4. req' = [req EXCEPT ![r] = x] /\ Ends(a) /\ UNCHANGED transaction
  BY DEF Confirm
<1>5. MayWrite(r, req[r], x)
  <2> HIDE DEF x
  <2>1. ~InPayout(r) /\ req[r].state # "NONE"
    BY <1>1, <1>2 DEF HandlerInv
  <2>2. QED
    BY <1>2, <1>3, <2>1 DEF MayWrite, RowInv
<1> HIDE DEF x
<1>6. Writes(a, r, x)
  BY <1>1, <1>2, <1>3, <1>4, SameMoney, WritesAre
<1>7. QED
  BY <1>2, <1>5, <1>6, WritesKeep

(* What an administrator's save makes of the state. *)
LEMMA ChangedKeeps ==
    ASSUME NEW op \in AdminSaves, NEW y \in Row, Allowed(op, y),
           op = "disable_user" => y.state = "VERIFYING"
    PROVE  /\ Changed(op, y).attempts = y.attempts
           /\ \/ Changed(op, y).state = y.state
              \/ {y.state, Changed(op, y).state} \subseteq {"CREATED", "VERIFYING"}
  BY DEF AdminSaves, Row, Allowed, Changed

LEMMA MoneySaves ==
    ASSUME MoneyInv, PayoutInv', NEW a \in Actors, AdminSave(a), UNCHANGED <<chainVars, payoutVars>>
    PROVE  MoneyKept
<1> DEFINE r == task[a].id
           x == Changed(task[a].op, task[a].obj)
<1>1. /\ task[a].op # "none" /\ task[a].op \in AdminSaves
      /\ task[a].op \notin Settles /\ task[a].op \in FullSaves
  BY DEF AdminSave, AdminSaves, Settles, FullSaves
<1>2. r \in Requests /\ req[r] \in Row /\ HandlerInv(a, r) /\ RowInv(r)
  BY <1>1, AtWork
<1>3. /\ task[a].obj = req[r] /\ ~InPayout(r) /\ req[r].state # "NONE"
      /\ task[a].op = "disable_user" => req[r].state = "VERIFYING"
  BY <1>1, <1>2 DEF HandlerInv
<1>4. CASE ~Allowed(task[a].op, task[a].obj)
  BY <1>1, <1>4, TaskGoesOn DEF AdminSave
<1>5. CASE Allowed(task[a].op, task[a].obj)
  <2>1. /\ x.attempts = req[r].attempts
        /\ \/ x.state = req[r].state
           \/ {req[r].state, x.state} \subseteq {"CREATED", "VERIFYING"}
    BY <1>1, <1>2, <1>3, <1>5, ChangedKeeps
  <2>2. /\ req' = [req EXCEPT ![r] = x] /\ UNCHANGED transaction
        /\ Ends(a) \/ (task[a].op = "disable_user" /\ Loads(a, "admin_cancel", r, x))
    BY <1>5 DEF AdminSave
  <2> HIDE DEF x
  <2>3. MayWrite(r, req[r], x)
    BY <1>2, <1>3, <2>1 DEF MayWrite, RowInv, SentStates
  <2>4. MoneyOf(x.state) = MoneyOf(req[r].state)
    BY <2>1 DEF MoneyOf
  <2>5. Writes(a, r, x)
    BY <1>1, <1>2, <2>2, <2>4, SameMoney, WritesAre
  <2>6. QED
    BY <1>2, <2>3, <2>5, WritesKeep
<1>6. QED
  BY <1>4, <1>5

(* What a cancel or a fail writes. *)
LEMMA MayReturn ==
    ASSUME MoneyInv, NEW a \in Actors, task[a].op \in Cancels \cup {"fail"}, ChangesState(task[a])
    PROVE  /\ MayWrite(task[a].id, req[task[a].id], Returned(task[a]))
           /\ MoneyOf(Returned(task[a]).state) = "CANCELED"
<1> DEFINE t == task[a]
           r == t.id
           y == req[r]
           x == Returned(t)
<1>1. t.op # "none"
  BY DEF Cancels
<1>2. r \in Requests /\ t.obj \in Row /\ y \in Row /\ HandlerInv(a, r) /\ RowInv(r)
  BY <1>1, AtWork
<1>3. CASE t.op \in Cancels
  <2>1. y.state = "CREATED"
    BY <1>3 DEF ChangesState
  <2>2. ~InPayout(r)
    BY <1>2, <1>3 DEF HandlerInv, Cancels, Settles
  <2>3. t.op = "admin_cancel" => t.obj = y
    BY <1>2 DEF HandlerInv, FullSaves
  <2>4. x.state = "CANCELLED" /\ x.attempts = y.attempts
    BY <1>2, <1>3, <2>3 DEF Returned, Cancels, Row
  <2> HIDE DEF x
  <2>5. MayWrite(r, y, x) /\ MoneyOf(x.state) = "CANCELED"
    BY <2>1, <2>2, <2>4 DEF MayWrite, SentStates, MoneyOf
  <2>6. QED
    BY <2>5 DEF x
<1>4. CASE t.op = "fail"
  <2>1. SettleInv(t, r, y) /\ y.state = t.obj.state
    BY <1>2, <1>4 DEF HandlerInv, Settles, ChangesState, Cancels
  <2>2. /\ x.state = "FAILED" /\ x.attempts = t.obj.attempts
        /\ x.approved = t.obj.approved /\ x.confirmed = t.obj.confirmed
    BY <1>2, <1>4 DEF Returned, Row
  <2>3. r \in TooSmall \cup FailedIn(mined)
    BY <1>4, <2>1 DEF SettleInv
  <2>4. y.state = "PENDING" => r \in FailedIn(mined)
    BY <1>4, <2>1 DEF SettleInv
  <2>5. y.state \in {"CREATED", "PENDING"}
    BY <1>4, <2>1 DEF SettleInv
  <2>6. x.attempts = y.attempts /\ x.approved /\ x.confirmed
    BY <2>1, <2>2 DEF SettleInv
  <2> HIDE DEF x
  <2>7. ~(r \in PaidIn(mined) /\ r \in FailedIn(mined))
    BY <1>2, PaidOrFailed
  <2>8. MayWrite(r, y, x) /\ MoneyOf(x.state) = "CANCELED"
    BY <2>2, <2>3, <2>4, <2>5, <2>6, <2>7 DEF MayWrite, SentStates, MoneyOf
  <2>9. QED
    BY <2>8 DEF x
<1>5. QED
  BY <1>3, <1>4

LEMMA MoneyReturns ==
    ASSUME MoneyInv, PayoutInv', NEW a \in Actors, GiveBack(a), UNCHANGED <<chainVars, payoutVars>>
    PROVE  MoneyKept
<1> DEFINE r == task[a].id
           x == Returned(task[a])
<1>1. task[a].op \in Cancels \cup {"fail"} /\ task[a].op # "none" /\ Ends(a)
  BY DEF GiveBack, Cancels
<1>2. r \in Requests
  BY <1>1, AtWork
<1>3. CASE ChangesState(task[a])
  <2>1. MayWrite(r, req[r], x) /\ MoneyOf(x.state) = "CANCELED"
    BY <1>1, <1>3, MayReturn
  <2>2. req' = [req EXCEPT ![r] = x] /\ transaction' = [transaction EXCEPT ![r] = "CANCELED"]
    BY <1>3 DEF GiveBack
  <2> HIDE DEF x
  <2>3. Writes(a, r, x)
    BY <1>1, <2>1, <2>2, WritesAre
  <2>4. QED
    BY <1>2, <2>1, <2>3, WritesKeep
<1>4. CASE ~ChangesState(task[a])
  BY <1>1, <1>4, TaskGoesOn DEF GiveBack
<1>5. QED
  BY <1>3, <1>4

(* What a completion writes. *)
LEMMA MayComplete ==
    ASSUME MoneyInv, NEW a \in Actors, task[a].op = "complete"
    PROVE  MayWrite(task[a].id, req[task[a].id], [task[a].obj EXCEPT !.state = "COMPLETED"])
<1> DEFINE t == task[a]
           r == t.id
           y == req[r]
           x == [t.obj EXCEPT !.state = "COMPLETED"]
<1>1. r \in Requests /\ t.obj \in Row /\ HandlerInv(a, r) /\ r \in PaidIn(mined)
  BY AtWork
<1>2. /\ x.state = "COMPLETED" /\ x.attempts = t.obj.attempts
      /\ x.approved = t.obj.approved /\ x.confirmed = t.obj.confirmed
  BY <1>1 DEF Row
<1>3. SettleInv(t, r, y)
  BY <1>1 DEF HandlerInv, Settles
<1>4. y.state \in {"PENDING", "COMPLETED"} /\ x.attempts = y.attempts /\ x.approved /\ x.confirmed
  BY <1>2, <1>3 DEF SettleInv
<1> HIDE DEF x
<1>5. r \notin FailedIn(mined)
  BY <1>1, PaidOrFailed
<1>6. MayWrite(r, y, x)
  BY <1>2, <1>4, <1>5 DEF MayWrite, SentStates
<1>7. QED
  BY <1>6 DEF x

LEMMA MoneyCompletes ==
    ASSUME MoneyInv, PayoutInv', NEW a \in Actors, Complete(a), UNCHANGED <<chainVars, payoutVars>>
    PROVE  MoneyKept
<1> DEFINE r == task[a].id
           x == [task[a].obj EXCEPT !.state = "COMPLETED"]
<1>1. task[a].op = "complete" /\ task[a].op # "none" /\ Ends(a)
  BY DEF Complete
<1>2. r \in Requests /\ task[a].obj \in Row
  BY <1>1, AtWork
<1>3. MayWrite(r, req[r], x)
  BY <1>1, MayComplete
<1>4. x.state = "COMPLETED"
  BY <1>2 DEF Row
<1>5. req' = [req EXCEPT ![r] = x] /\ transaction' = [transaction EXCEPT ![r] = "COMPLETED"]
  BY DEF Complete
<1> HIDE DEF x
<1>6. MoneyOf(x.state) = "COMPLETED"
  BY <1>4 DEF MoneyOf
<1>7. Writes(a, r, x)
  BY <1>1, <1>5, <1>6, WritesAre
<1>8. QED
  BY <1>2, <1>3, <1>7, WritesKeep

LEMMA MoneyHandles ==
    ASSUME MoneyInv, PayoutInv', NEW a \in Actors, RunHandler(a) PROVE MoneyKept
<1>1. UNCHANGED <<chainVars, payoutVars>>
  BY DEF RunHandler
<1>2. CASE AssertState(a)
  BY <1>1, <1>2, TaskGoesOn DEF AssertState, Cancels, Settles
<1>3. QED
  BY <1>1, <1>2, MoneyConfirms, MoneySaves, MoneyReturns, MoneyCompletes DEF RunHandler, Handle

-----------------------------------------------------------------------------
(* Requests are made, and handlers begin.                                  *)

LEMMA MoneyCreates ==
    ASSUME MoneyInv, PayoutInv', CreateRequest PROVE MoneyKept
<1>1. PICK r \in Requests : Create(r) /\ UNCHANGED <<chainVars, payoutVars>>
  BY DEF CreateRequest
<1> DEFINE x == [NoRow EXCEPT !.state = "CREATED"]
<1>2. x.state = "CREATED" /\ x.attempts = {}
  BY DEF NoRow
<1>3. req' = [req EXCEPT ![r] = x] /\ transaction' = [transaction EXCEPT ![r] = "PENDING"]
  BY <1>1 DEF Create
<1> HIDE DEF x
<1>4. /\ req'[r] = x /\ transaction'[r] = "PENDING"
      /\ \A q \in Requests \ {r} : req'[q] = req[q] /\ transaction'[q] = transaction[q]
  BY <1>3 DEF MoneyInv, PayoutInv, TypeOK, RequestTypeOK
<1>5. UNCHANGED <<task, payouts, worker, pool, mined, checks>>
  BY <1>1 DEF Create, chainVars, payoutVars
<1>6. Known' = Known
  BY <1>5 DEF Known, Used
<1>7. IdleInv'
  BY <1>5 DEF MoneyInv, IdleInv
<1>8. ASSUME NEW q \in Requests \ {r} PROVE Calm(q)
  BY <1>4, <1>5, <1>6, AtRequest DEF Calm
<1>9. RequestInv(r) /\ req[r].state = "NONE"
  BY <1>1 DEF Create, Exists, MoneyInv, RequestInv
<1>10. ~InPayout(r)
  BY <1>9 DEF RequestInv, RowInv
<1>11. /\ payouts[r] = 0 /\ \A w \in Workers : worker[w].id # r
       /\ \A t \in pool : t.id # r
  BY <1>10, AtRequest DEF InPayout
<1>12. ~Sent(r) /\ (\A a \in Actors : task[a].id # r) /\ \A c \in checks : c.id # r
  BY <1>9, <1>11 DEF RequestInv, RowInv, SentStates, HandlerInv, CheckInv
<1>13. ~Sent(r)'
  BY <1>6, <1>12 DEF Sent
<1>14. ~InPayout(r)'
  BY <1>2, <1>4, <1>5, <1>11 DEF InPayout
<1>15. RequestInv(r)'
  BY <1>2, <1>4, <1>5, <1>9, <1>11, <1>12, <1>13, <1>14
     DEF RequestInv, RowInv, QueueInv, CheckInv, NonceInv, MoneyOf, Sent
<1>16. QED
  BY <1>7, <1>8, <1>15, CalmStays DEF MoneyKept

(* What lets a handler begin at r, and what it begins with. *)
MayBegin(a, op, r) ==
    /\ req[r].state # "NONE" /\ op # "none"
    /\ \A b \in Actors \ {a} : task[b].id = r => op \notin FullSaves /\ task[b].op \notin FullSaves
    /\ op = "disable_user" => req[r].state = "VERIFYING"
    /\ op \in Settles => /\ req[r].approved /\ req[r].confirmed
                         /\ op = "complete" => req[r].state = "PENDING"
                         /\ op = "fail" => \/ r \in TooSmall /\ req[r].state = "CREATED"
                                           \/ r \in FailedIn(mined) /\ req[r].state = "PENDING"
    /\ op \notin Settles => ~InPayout(r)
    /\ \A w \in Workers : worker[w].id = r => worker[w].step # "save"

LEMMA BeginsKeep ==
    ASSUME MoneyInv, PayoutInv', NEW a \in Actors, NEW op, NEW r \in Requests,
           Idle(a), Loads(a, op, r, req[r]), MayBegin(a, op, r),
           UNCHANGED <<req, transaction, worker, pool, mined>>,
           \A q \in Requests : payouts'[q] <= payouts[q], payouts'[r] = 0, checks' \subseteq checks
    PROVE  MoneyKept
<1> DEFINE y == [op |-> op, id |-> r, obj |-> req[r], checked |-> FALSE]
<1>1. task'[a] = y /\ \A b \in Actors \ {a} : task'[b] = task[b]
  BY TasksTyped DEF Loads, MoneyInv
<1>2. y.op = op /\ y.id = r /\ y.obj = req[r]
  OBVIOUS
<1> HIDE DEF y
<1>3. task[a].id = "none"
  BY DEF Idle, NoTask
<1>4. Known' = Known
  BY DEF Known, Used
<1>5. IdleInv'
  BY <1>1, <1>2 DEF MoneyInv, IdleInv, MayBegin
<1>6. ASSUME NEW q \in Requests \ {r} PROVE Calm(q)
  BY <1>1, <1>2, <1>4 DEF Calm
<1>7. RequestInv(r)
  BY DEF MoneyInv
<1>8. (InPayout(r)' => InPayout(r)) /\ (Sent(r)' <=> Sent(r))
  BY <1>4 DEF InPayout, Sent
<1>9. RowInv(r)' /\ QueueInv(r)' /\ CheckInv(r)' /\ NonceInv(r)'
  BY <1>4, <1>7, <1>8 DEF RequestInv, RowInv, QueueInv, CheckInv, NonceInv
<1>10. ASSUME NEW b \in Actors, task'[b].id = r PROVE HandlerInv(b, r)'
  <2>1. CASE b = a
    <3>1. task'[a].op = op /\ task'[a].obj = req[r] /\ req'[r] = req[r]
      BY <1>1, <1>2
    <3>2. op \in FullSaves => \A c \in Actors \ {a} : task'[c].id # r
      BY <1>1 DEF MayBegin
    <3>3. op \in Settles => SettleInv(task[a], r, req[r])'
      BY <3>1 DEF MayBegin, SettleInv
    <3>4. QED
      BY <1>8, <2>1, <3>1, <3>2, <3>3 DEF HandlerInv, MayBegin
  <2>2. CASE b # a
    <3>1. task'[b] = task[b] /\ task[b].id = r /\ HandlerInv(b, r)
      BY <1>1, <1>7, <1>10, <2>2 DEF RequestInv
    <3>2. task[b].op \notin FullSaves
      BY <2>2, <3>1 DEF MayBegin
    <3>3. task[b].op \in Settles => SettleInv(task[b], r, req[r])'
      BY <3>1 DEF HandlerInv, SettleInv
    <3>4. QED
      BY <1>8, <3>1, <3>2, <3>3 DEF HandlerInv
  <2>3. QED
    BY <2>1, <2>2
<1>11. ASSUME NEW w \in Workers, worker'[w].id = r PROVE WorkerInv(w, r)'
  <2>1. worker'[w] = worker[w] /\ WorkerInv(w, r) /\ worker[w].step # "save"
    BY <1>7, <1>11 DEF RequestInv, MayBegin
  <2>2. AttemptInv(worker[w], r, req[r])'
    BY <1>4, <1>8, <2>1 DEF WorkerInv, AttemptInv
  <2>3. QED
    BY <2>1, <2>2 DEF WorkerInv
<1>12. QED
  BY <1>5, <1>6, <1>9, <1>10, <1>11, CalmStays DEF MoneyKept, RequestInv

LEMMA MoneyBegins ==
    ASSUME Races \subseteq {"scan"}, MoneyInv, PayoutInv', BeginHandler PROVE MoneyKept
<1>1. PICK a \in Web, op \in Handlers, r \in Requests :
        /\ "cancel" \in Races \/ ~InPayout(r)
        /\ "save" \in Races \/ ~Busy(r, IF op \in FullSaves THEN Ops ELSE FullSaves)
        /\ Begin(a, op, r)
        /\ UNCHANGED <<chainVars, payoutVars>>
  BY DEF BeginHandler
<1>2. a \in Actors /\ op \notin Settles /\ op # "none"
  BY PayoutAssumption DEF Web
<1>3. ~InPayout(r) /\ ~Busy(r, IF op \in FullSaves THEN Ops ELSE FullSaves)
  BY <1>1
<1>4. /\ Idle(a) /\ Exists(r) /\ Finds(op, r) /\ Loads(a, op, r, req[r])
      /\ UNCHANGED <<req, transaction, worker, pool, mined, payouts, checks>>
  BY <1>1 DEF Begin, chainVars, payoutVars
<1>5. payouts[r] = 0 /\ \A w \in Workers : worker[w].id # r
  BY <1>3, AtRequest DEF InPayout
<1>6. \A b \in Actors \ {a} : task[b].id = r => op \notin FullSaves /\ task[b].op \notin FullSaves
  <2>1. SUFFICES ASSUME NEW b \in Actors, task[b].id = r
                 PROVE  op \notin FullSaves /\ task[b].op \notin FullSaves
    OBVIOUS
  <2>2. task[b].op \in Ops
    BY <2>1, AtRequest DEF Task
  <2>3. QED
    BY <1>3, <2>1, <2>2 DEF Busy, FullSaves
<1>7. MayBegin(a, op, r)
  BY <1>2, <1>3, <1>4, <1>5, <1>6 DEF MayBegin, Exists, Finds
<1>8. \A q \in Requests : payouts'[q] <= payouts[q]
  BY <1>4, AtRequest
<1>9. QED
  BY <1>2, <1>4, <1>5, <1>7, <1>8, BeginsKeep

(* check_tx_withdrawal starts what settles a pending request. *)
LEMMA MoneyChecks ==
    ASSUME MoneyInv, PayoutInv', NEW a \in Checkers, CheckTx(a) PROVE MoneyKept
<1>1. PICK k \in checks :
        /\ Idle(a) /\ checks' = checks \ {k}
        /\ IF req[k.id].state = "PENDING"
           THEN Loads(a, IF k.ok THEN "complete" ELSE "fail", k.id, req[k.id])
           ELSE UNCHANGED task
  BY DEF CheckTx
<1>2. UNCHANGED <<req, transaction, worker, pool, mined, payouts>>
  BY DEF CheckTx, chainVars
<1>3. \A q \in Requests : payouts'[q] <= payouts[q]
  BY <1>2, AtRequest
<1> DEFINE r == k.id
           op == IF k.ok THEN "complete" ELSE "fail"
<1>4. a \in Actors /\ r \in Requests /\ k.ok \in BOOLEAN
  BY PayoutAssumption DEF MoneyInv, PayoutInv, TypeOK
<1>5. CASE req[r].state = "PENDING"
  <2>1. op \in Settles /\ op # "none" /\ op \notin FullSaves /\ op # "disable_user"
        /\ (op = "fail" => ~k.ok)
    BY DEF Settles, FullSaves, AdminSaves
  <2>2. Loads(a, op, r, req[r])
    BY <1>1, <1>5
  <2> HIDE DEF op
  <2>3. InPayout(r) /\ RequestInv(r)
    BY <1>4, <1>5 DEF InPayout, MoneyInv
  <2>4. req[r].approved /\ req[r].confirmed /\ payouts[r] = 0
    BY <1>4, <1>5, <2>3, AtRequest DEF RequestInv, RowInv, QueueInv
  <2>5. op = "fail" => r \in FailedIn(mined)
    BY <2>1, <2>3 DEF RequestInv, CheckInv
  <2>6. \A b \in Actors : task[b].id = r => task[b].op \notin FullSaves
    BY <2>3 DEF RequestInv, HandlerInv, FullSaves, AdminSaves, Settles
  <2>7. \A w \in Workers : worker[w].id = r => worker[w].step # "save"
    BY <2>3 DEF RequestInv, WorkerInv
  <2>8. MayBegin(a, op, r)
    BY <1>5, <2>1, <2>3, <2>4, <2>5, <2>6, <2>7 DEF MayBegin
  <2>9. QED
    BY <1>1, <1>2, <1>3, <1>4, <2>2, <2>4, <2>8, BeginsKeep
<1>6. CASE req[r].state # "PENDING"
  <2>1. UNCHANGED task
    BY <1>1, <1>6
  <2>2. IdleInv'
    BY <1>2, <2>1 DEF MoneyInv, IdleInv
  <2>3. ASSUME NEW q \in Requests PROVE Calm(q)
    BY <1>1, <1>2, <1>3, <2>1 DEF Calm, Known, Used
  <2>4. QED
    BY <2>2, <2>3, CalmStays DEF MoneyKept
<1>7. QED
  BY <1>5, <1>6

-----------------------------------------------------------------------------
(* The payout tasks.                                                       *)

LEMMA MoneyProcesses ==
    ASSUME Races \subseteq {"scan"}, MoneyInv, PayoutInv', ProcessPayouts PROVE MoneyKept
<1>1. UNCHANGED <<req, transaction, task, worker, pool, mined, checks>>
  BY DEF ProcessPayouts, requestVars, chainVars
<1>2. IdleInv'
  BY <1>1 DEF MoneyInv, IdleInv
<1>3. ASSUME NEW r \in Requests \ ToProcess PROVE RequestInv(r)'
  <2>1. payouts'[r] = payouts[r] + 0
    BY DEF ProcessPayouts
  <2>2. payouts'[r] <= payouts[r]
    BY <2>1, AtRequest
  <2>3. Calm(r)
    BY <1>1, <2>2 DEF Calm, Known, Used
  <2>4. QED
    BY <2>3, CalmStays
<1>4. ASSUME NEW r \in ToProcess PROVE RequestInv(r)'
  <2>1. r \in Requests /\ req[r].state = "CREATED" /\ req[r].approved /\ req[r].confirmed
    BY DEF ToProcess
  <2>2. ~InPayout(r) /\ ~Busy(r, Ops)
    BY <1>4 DEF ProcessPayouts
  <2>3. RequestInv(r)
    BY <2>1 DEF MoneyInv
  <2>4. payouts[r] = 0 /\ \A w \in Workers : worker[w].id # r
    BY <2>1, <2>2, AtRequest DEF InPayout
  <2>5. payouts'[r] = 1
    BY <1>4, <2>1, <2>4 DEF ProcessPayouts
  <2>6. \A a \in Actors : task[a].id # r
    BY <2>1, <2>2, AtRequest DEF Busy, Task
  <2>7. ~Sent(r)
    BY <2>1, <2>3, <2>4 DEF RequestInv, RowInv, SentStates
  <2>8. Known' = Known /\ ~Sent(r)'
    BY <1>1, <2>7 DEF Known, Used, Sent
  <2>9. RowInv(r)'
    BY <1>1, <2>1, <2>3, <2>8 DEF RequestInv, RowInv
  <2>10. QueueInv(r)'
    BY <1>1, <2>1, <2>4, <2>5, <2>6, <2>8 DEF QueueInv
  <2>11. CheckInv(r)' /\ NonceInv(r)'
    BY <1>1, <2>3, <2>8 DEF RequestInv, CheckInv, NonceInv
  <2>12. QED
    BY <1>1, <2>4, <2>6, <2>9, <2>10, <2>11 DEF RequestInv
<1>5. QED
  BY <1>2, <1>3, <1>4 DEF MoneyKept, ToProcess

(* A payout worker w goes on to x with r, which nobody saves. *)
LEMMA WorkerGoesOn ==
    ASSUME MoneyInv, PayoutInv', NEW w \in Workers, NEW r \in Requests, NEW x,
           WithdrawSteps(w, x), x.id = r, x.step \notin {"idle", "save"}, AttemptInv(x, r, req[r]),
           InPayout(r), worker[w].id \in {r, "none"}, worker[w].step # "save",
           \A v \in Workers \ {w} : worker[v].id # r,
           UNCHANGED <<req, transaction, task, pool, mined, checks>>,
           \A q \in Requests : payouts'[q] <= payouts[q], payouts'[r] = 0
    PROVE  MoneyKept
<1>1. worker'[w] = x /\ \A v \in Workers \ {w} : worker'[v] = worker[v]
  BY OthersStay DEF MoneyInv
<1>2. Known' = Known /\ (Sent(r)' <=> Sent(r))
  BY DEF Known, Used, Sent
<1>3. IdleInv'
  BY <1>1 DEF MoneyInv, IdleInv
<1>4. ASSUME NEW q \in Requests \ {r} PROVE Calm(q)
  BY <1>1, <1>2, WithdrawalAssumption DEF Calm
<1>5. RequestInv(r)
  BY DEF MoneyInv
<1>6. RowInv(r)'
  BY <1>1, <1>2, <1>5 DEF RequestInv, RowInv
<1>7. QueueInv(r)' /\ CheckInv(r)' /\ NonceInv(r)'
  BY <1>2, <1>5 DEF QueueInv, CheckInv, NonceInv, RequestInv
<1>8. ASSUME NEW a \in Actors, task'[a].id = r PROVE HandlerInv(a, r)'
  <2>1. HandlerInv(a, r) /\ task[a].op \in Settles
    BY <1>5, <1>8 DEF RequestInv, HandlerInv
  <2>2. QED
    BY <2>1 DEF HandlerInv, SettleInv
<1>9. ASSUME NEW v \in Workers, worker'[v].id = r PROVE WorkerInv(v, r)'
  <2>1. v = w
    BY <1>1, <1>9
  <2>2. AttemptInv(x, r, req[r])'
    BY <1>2 DEF AttemptInv
  <2>3. QED
    BY <1>1, <2>1, <2>2 DEF WorkerInv
<1>10. QED
  BY <1>3, <1>4, <1>6, <1>7, <1>8, <1>9, CalmStays DEF MoneyKept, RequestInv

(* A worker that has a request. *)
LEMMA AtAttempt ==
    ASSUME MoneyInv, NEW w \in Workers, worker[w].step # "idle"
    PROVE  /\ worker[w] \in Withdraw /\ WithdrawOK(worker[w]) /\ worker[w].id \in Requests
           /\ RequestInv(worker[w].id) /\ WorkerInv(w, worker[w].id) /\ InPayout(worker[w].id)
           /\ payouts[worker[w].id] = 0
<1>1. worker[w] \in Withdraw /\ WithdrawOK(worker[w]) /\ worker[w].id \in Requests
  BY RunningWorker DEF MoneyInv, WithdrawOK
<1>2. RequestInv(worker[w].id)
  BY <1>1 DEF MoneyInv
<1>3. QED
  BY <1>1, <1>2, AtRequest DEF RequestInv, InPayout, QueueInv

(* It goes on with it. *)
LEMMA AttemptGoesOn ==
    ASSUME MoneyInv, PayoutInv', NEW w \in Workers, NEW x,
           worker[w].step \notin {"idle", "save"}, WithdrawSteps(w, x), x.id = worker[w].id,
           x.step \notin {"idle", "save"}, AttemptInv(x, worker[w].id, req[worker[w].id]),
           UNCHANGED <<req, transaction, task, pool, mined, checks, payouts>>
    PROVE  MoneyKept
<1> DEFINE r == worker[w].id
<1>1. r \in Requests /\ WorkerInv(w, r) /\ InPayout(r) /\ payouts'[r] = 0
  BY AtAttempt
<1>2. \A v \in Workers \ {w} : worker[v].id # r
  BY <1>1 DEF WorkerInv
<1>3. \A q \in Requests : payouts'[q] <= payouts[q]
  BY AtRequest
<1>4. QED
  BY <1>1, <1>2, <1>3, WorkerGoesOn

LEMMA MoneySees ==
    ASSUME MoneyInv, PayoutInv', NEW w \in Workers, SeesFreeNonce(w) PROVE MoneyKept
<1> DEFINE x == [worker[w] EXCEPT !.step = "free"]
           r == worker[w].id
<1>1. /\ worker[w].step = "nonce" /\ WithdrawSteps(w, x)
      /\ UNCHANGED <<req, transaction, task, pool, mined, checks, payouts>>
  BY DEF SeesFreeNonce, requestVars, chainVars
<1>2. worker[w] \in Withdraw /\ AttemptInv(worker[w], r, req[r])
  BY <1>1, AtAttempt DEF WorkerInv
<1>3. x.step = "free" /\ x.id = r /\ x.obj = worker[w].obj
  BY <1>2 DEF Withdraw
<1> HIDE DEF x
<1>4. AttemptInv(x, r, req[r])
  BY <1>1, <1>2, <1>3 DEF AttemptInv, HasNonce
<1>5. QED
  BY <1>1, <1>3, <1>4, AttemptGoesOn

LEMMA MoneyTakes ==
    ASSUME MoneyInv, PayoutInv', NEW w \in Workers, TakeNonce(w) PROVE MoneyKept
<1>1. PICK p \in 1 .. MaxPrice :
        WithdrawSteps(w, [worker[w] EXCEPT !.step = "send",
                             !.tx = [id |-> worker[w].id, nonce |-> Len(mined), price |-> p]])
  BY DEF TakeNonce
<1> DEFINE r == worker[w].id
           u == [id |-> r, nonce |-> Len(mined), price |-> p]
           x == [worker[w] EXCEPT !.step = "send", !.tx = u]
<1>2. /\ worker[w].step = "free"
      /\ UNCHANGED <<req, transaction, task, pool, mined, checks, payouts>>
  BY DEF TakeNonce, requestVars
<1>3. worker[w] \in Withdraw /\ r \in Requests /\ RowInv(r) /\ AttemptInv(worker[w], r, req[r])
  BY <1>2, AtAttempt DEF WorkerInv, RequestInv
<1> HIDE DEF u
<1>4. x.step = "send" /\ x.id = r /\ x.obj = worker[w].obj /\ x.tx = u
  BY <1>3 DEF Withdraw
<1>5. WithdrawSteps(w, x)
  BY <1>1 DEF u
<1> HIDE DEF x
<1>6. req[r].state = "CREATED" /\ ~Sent(r) /\ req[r].attempts = {}
  BY <1>2, <1>3 DEF AttemptInv, RowInv
<1>7. AttemptInv(x, r, req[r])
  BY <1>3, <1>4, <1>6 DEF AttemptInv, Sent
<1>8. QED
  BY <1>2, <1>4, <1>5, <1>7, AttemptGoesOn

LEMMA MoneyResends ==
    ASSUME MoneyInv, PayoutInv', NEW w \in Workers, Resend(w) PROVE MoneyKept
<1> DEFINE v == worker[w]
           r == v.id
           u == [v.tx EXCEPT !.price = @ + 1]
           x == [v EXCEPT !.step = "send", !.obj = req[v.tx.id], !.tx = u]
<1>1. v.step = "receipt" /\ UNCHANGED <<req, transaction, task, pool, mined, checks, payouts>>
  BY DEF Resend, requestVars, chainVars
<1>2. /\ v \in Withdraw /\ r \in Requests /\ v.tx \in Tx /\ v.tx.id = r
      /\ RowInv(r) /\ InPayout(r) /\ AttemptInv(v, r, req[r])
  BY <1>1, AtAttempt DEF WorkerInv, RequestInv, WithdrawOK
<1>3. u.nonce = v.tx.nonce /\ u.price = v.tx.price + 1 /\ v.tx.price \in Nat
  BY <1>2 DEF Tx
<1>4. [v EXCEPT !.step = "send", !.obj = req[v.tx.id], !.tx.price = @ + 1] = x
  BY <1>2 DEF Withdraw
<1>5. WithdrawSteps(w, x)
  BY <1>4 DEF Resend
<1> HIDE DEF u
<1>6. x.step = "send" /\ x.id = r /\ x.obj = req[r] /\ x.tx = u
  BY <1>2 DEF Withdraw
<1> HIDE DEF x
<1>7. req[r].approved /\ req[r].confirmed
  BY <1>2 DEF RowInv
<1>8. /\ req[r].state \in SentStates /\ r \notin TooSmall
      /\ \A t \in Known : t.id = r => t.nonce = v.tx.nonce
      /\ \A t \in req[r].attempts : t.price <= v.tx.price
  BY <1>1, <1>2 DEF AttemptInv, HasNonce
<1>9. \A t \in req[r].attempts : t.price < u.price
  <2>1. \A t \in req[r].attempts : t.price \in Nat
    BY <1>2, AtRequest, PayoutAssumption DEF Row, Tx
  <2>2. QED
    BY <1>3, <1>8, <2>1
<1>10. AttemptInv(x, r, req[r])
  BY <1>3, <1>6, <1>7, <1>8, <1>9 DEF AttemptInv
<1>11. QED
  BY <1>1, <1>5, <1>6, <1>10, AttemptGoesOn

LEMMA MoneyStarts ==
    ASSUME MoneyInv, PayoutInv', NEW w \in Workers, StartWithdraw(w) PROVE MoneyKept
<1>1. PICK r \in Requests :
        /\ worker[w].step = "idle" /\ Idle(w) /\ payouts[r] > 0
        /\ payouts' = [payouts EXCEPT ![r] = @ - 1]
        /\ IF r \in TooSmall
           THEN Loads(w, "fail", r, req[r]) /\ UNCHANGED worker
           ELSE /\ \/ WithdrawSteps(w, [step |-> "nonce", id |-> r, obj |-> req[r], tx |-> NoTx])
                   \/ UNCHANGED worker
                /\ UNCHANGED task
  BY DEF StartWithdraw
<1>2. UNCHANGED <<req, transaction, pool, mined, checks>>
  BY DEF StartWithdraw, chainVars
<1>3. RequestInv(r) /\ InPayout(r) /\ w \in Actors
  BY <1>1, PayoutAssumption DEF MoneyInv, InPayout
<1>4. /\ payouts[r] = 1 /\ req[r].state = "CREATED" /\ ~Sent(r)
      /\ \A a \in Actors : task[a].id # r
      /\ \A v \in Workers : worker[v].id # r
      /\ req[r].approved /\ req[r].confirmed
  BY <1>1, <1>3 DEF RequestInv, RowInv, QueueInv
<1>5. payouts'[r] = 0 /\ \A q \in Requests : payouts'[q] <= payouts[q]
  BY <1>1, <1>4, AtRequest, Others DEF MoneyInv
<1>6. CASE r \in TooSmall
  <2>1. MayBegin(w, "fail", r)
    BY <1>4, <1>6 DEF MayBegin, Settles, FullSaves, AdminSaves
  <2>2. QED
    BY <1>1, <1>2, <1>3, <1>5, <1>6, <2>1, BeginsKeep
<1>7. CASE r \notin TooSmall /\ UNCHANGED <<worker, task>>
  <2>1. IdleInv'
    BY <1>7 DEF MoneyInv, IdleInv
  <2>2. ASSUME NEW q \in Requests PROVE Calm(q)
    BY <1>2, <1>5, <1>7 DEF Calm, Known, Used
  <2>3. QED
    BY <2>1, <2>2, CalmStays DEF MoneyKept
<1>8. CASE /\ r \notin TooSmall /\ UNCHANGED task
           /\ WithdrawSteps(w, [step |-> "nonce", id |-> r, obj |-> req[r], tx |-> NoTx])
  <2> DEFINE x == [step |-> "nonce", id |-> r, obj |-> req[r], tx |-> NoTx]
  <2>1. x.step = "nonce" /\ x.id = r /\ x.obj = req[r]
    OBVIOUS
  <2>2. WithdrawSteps(w, x)
    BY <1>8
  <2> HIDE DEF x
  <2>3. AttemptInv(x, r, req[r])
    BY <1>4, <1>8, <2>1 DEF AttemptInv, HasNonce
  <2>4. worker[w].id = "none"
    BY <1>1 DEF MoneyInv, IdleInv, NoWithdraw
  <2>5. QED
    BY <1>1, <1>2, <1>3, <1>4, <1>5, <1>8, <2>1, <2>2, <2>3, <2>4, WorkerGoesOn
<1>9. QED
  BY <1>1, <1>6, <1>7, <1>8

(* When the node takes a transaction, no other of its request is mined or  *)
(* pending, and nobody else is at the request.                             *)
LEMMA OnlyOneSent ==
    ASSUME MoneyInv, NEW w \in Workers, Sends(w)
    PROVE  /\ \A t \in Known' : t.id = worker[w].id => t = worker[w].tx
           /\ req[worker[w].id].state \in {"CREATED", "PENDING"}
           /\ \A c \in checks : c.id # worker[w].id
           /\ \A a \in Actors : task[a].id # worker[w].id
<1> DEFINE r == worker[w].id
           u == worker[w].tx
<1>1. worker[w].step = "send" /\ Accepts(u) /\ pool' = (pool \ SameNonce(u)) \cup {u} /\ mined' = mined
  BY DEF Sends
<1>2. /\ u \in Tx /\ u.id = r /\ r \in Requests /\ RequestInv(r) /\ InPayout(r)
      /\ AttemptInv(worker[w], r, req[r])
  BY <1>1, AtAttempt DEF WorkerInv, WithdrawOK
<1>3. \A t \in Known : t.id = r => t.nonce = u.nonce
  BY <1>1, <1>2 DEF AttemptInv, HasNonce
<1>4. \A i \in 1 .. Len(mined) : mined[i].tx.id # r
  <2> SUFFICES ASSUME NEW i \in 1 .. Len(mined), mined[i].tx.id = r PROVE FALSE
    OBVIOUS
  <2>1. mined[i].tx.nonce = u.nonce /\ mined[i].tx.nonce = i - 1
    BY <1>3 DEF Known, Used, MoneyInv, ChainInv
  <2>2. Len(mined) \in Nat /\ u.nonce >= Len(mined)
    BY <1>1, Others DEF Accepts, MoneyInv
  <2>3. QED
    BY <2>1, <2>2
<1>5. \A t \in Known' : t.id = r => t = u
  BY <1>1, <1>3, <1>4 DEF Known, Used, SameNonce
<1>6. r \notin PaidIn(mined) /\ r \notin FailedIn(mined)
  BY <1>4 DEF PaidIn, FailedIn
<1>7. \A c \in checks : c.id # r
  BY <1>2, <1>6 DEF RequestInv, CheckInv, MoneyInv, PayoutInv, ChecksOK
<1>8. \A a \in Actors : task[a].id # r
  <2> SUFFICES ASSUME NEW a \in Actors, task[a].id = r PROVE FALSE
    OBVIOUS
  <2>1. task[a].op \in Settles /\ SettleInv(task[a], r, req[r])
    BY <1>2 DEF RequestInv, HandlerInv
  <2>2. task[a].op = "complete" => r \in PaidIn(mined)
    BY AtWork, <2>1 DEF Settles
  <2>3. QED
    BY <1>2, <1>6, <2>1, <2>2 DEF Settles, SettleInv, AttemptInv
<1>9. req[r].state \in {"CREATED", "PENDING"}
  <2>1. req[r].state \in SentStates \cup {"CREATED"}
    BY <1>1, <1>2 DEF AttemptInv
  <2>2. req[r].state = "COMPLETED" => r \in PaidIn(mined)
    BY <1>1, <1>2 DEF MoneyInv, HereInv, HereAt, PayoutInv, RowsOK, ObjectOK
  <2>3. req[r].state = "FAILED" => r \in TooSmall \cup FailedIn(mined)
    BY <1>2 DEF RequestInv, RowInv
  <2>4. QED
    BY <1>2, <1>6, <2>1, <2>2, <2>3 DEF SentStates, AttemptInv
<1>10. QED
  BY <1>5, <1>7, <1>8, <1>9

LEMMA MoneySent ==
    ASSUME MoneyInv, PayoutInv', NEW w \in Workers, Sends(w) PROVE MoneyKept
<1>0. PICK r \in Requests : worker[w].id = r
  BY AtAttempt DEF Sends
<1> DEFINE u == worker[w].tx
           x == [worker[w] EXCEPT !.step = "save"]
<1>1. /\ worker[w].step = "send" /\ pool' = (pool \ SameNonce(u)) \cup {u} /\ WithdrawSteps(w, x)
      /\ UNCHANGED <<req, transaction, task, mined, payouts, checks>>
  BY DEF Sends, requestVars
<1>2. /\ worker[w] \in Withdraw /\ u \in Tx /\ u.id = r /\ r \in Requests /\ RequestInv(r)
      /\ WorkerInv(w, r) /\ InPayout(r) /\ payouts[r] = 0
  BY <1>0, <1>1, AtAttempt DEF WithdrawOK
<1>3. x.step = "save" /\ x.id = r /\ x.obj = worker[w].obj /\ x.tx = u
  BY <1>0, <1>2 DEF Withdraw
<1>4. worker'[w] = x /\ \A v \in Workers \ {w} : worker'[v] = worker[v]
  BY <1>1, OthersStay DEF MoneyInv
<1> HIDE DEF x
<1>5. /\ \A t \in Known' : t.id = r => t = u
      /\ req[r].state \in {"CREATED", "PENDING"}
      /\ \A c \in checks : c.id # r
      /\ \A a \in Actors : task[a].id # r
  BY <1>0, OnlyOneSent
<1>6. IdleInv'
  BY <1>1, <1>3, <1>4 DEF MoneyInv, IdleInv
<1>7. ASSUME NEW q \in Requests \ {r} PROVE Calm(q)
  <2>1. payouts'[q] <= payouts[q]
    BY <1>1, AtRequest
  <2>2. /\ \A t \in pool' : t.id = q => t \in pool
        /\ \A t \in Known' : t.id = q => t \in Known
    BY <1>1, <1>2 DEF Known, Used
  <2>3. QED
    BY <1>1, <1>3, <1>4, <2>1, <2>2 DEF Calm
<1> HIDE DEF u
<1>8. AttemptInv(worker[w], r, req[r])
  BY <1>2 DEF WorkerInv
<1>9. RowInv(r)'
  BY <1>1, <1>2, <1>3, <1>4, <1>8 DEF RequestInv, RowInv, AttemptInv
<1>10. QueueInv(r)' /\ CheckInv(r)' /\ NonceInv(r)'
  BY <1>1, <1>2, <1>5 DEF QueueInv, CheckInv, NonceInv
<1>11. AttemptInv(worker[w], r, req[r])'
  <2>1. \A t \in req[r].attempts : t.price < u.price
    BY <1>1, <1>8 DEF AttemptInv, u
  <2>2. QED
    BY <1>1, <1>3, <1>4, <1>5, <1>8, <2>1 DEF AttemptInv
<1>12. ASSUME NEW v \in Workers, worker'[v].id = r PROVE WorkerInv(v, r)'
  <2>1. v = w /\ \A y \in Workers \ {w} : worker'[y].id # r
    BY <1>2, <1>4, <1>12 DEF WorkerInv
  <2>2. QED
    BY <1>1, <1>3, <1>4, <1>5, <1>11, <2>1 DEF WorkerInv
<1>13. QED
  BY <1>1, <1>5, <1>6, <1>7, <1>9, <1>10, <1>12, CalmStays DEF MoneyKept, RequestInv

LEMMA MoneySends ==
    ASSUME MoneyInv, PayoutInv', NEW w \in Workers, Send(w) PROVE MoneyKept
<1>1. CASE Sends(w)
  BY <1>1, MoneySent
<1>2. CASE WithdrawSteps(w, NoWithdraw) /\ UNCHANGED pool
  BY <1>2, WorkerLeaves DEF Send, requestVars
<1>3. QED
  BY <1>1, <1>2 DEF Send, Sends

(* An attempt is recorded while nobody else is at the request. *)
LEMMA MoneyRecords ==
    ASSUME MoneyInv, PayoutInv', NEW w \in Workers, SaveAttempt(w) PROVE MoneyKept
<1>0. PICK r \in Requests : worker[w].id = r
  BY AtAttempt DEF SaveAttempt
<1> DEFINE u == worker[w].tx
           sent == worker[w].obj.attempts \cup {u}
           x == [worker[w] EXCEPT !.step = "receipt"]
           z == [req[r] EXCEPT !.state = "PENDING", !.attempts = sent]
<1>1. /\ worker[w].step = "save"
      /\ UNCHANGED <<transaction, task, pool, mined, payouts, checks>>
  BY DEF SaveAttempt, chainVars
<1>2. /\ worker[w] \in Withdraw /\ u \in Tx /\ u.id = r /\ r \in Requests /\ RequestInv(r)
      /\ WorkerInv(w, r) /\ InPayout(r) /\ payouts[r] = 0
  BY <1>0, <1>1, AtAttempt DEF WithdrawOK
<1>3. AttemptInv(worker[w], r, req[r]) /\ req[r] \in Row
  BY <1>2, AtRequest DEF WorkerInv
<1>4. /\ req' = [req EXCEPT ![r].state = "PENDING", ![r].attempts = sent]
      /\ WithdrawSteps(w, x)
  BY <1>0, <1>3 DEF SaveAttempt, AttemptInv
<1>5. x.step = "receipt" /\ x.id = r /\ x.obj = worker[w].obj /\ x.tx = u
  BY <1>0, <1>2 DEF Withdraw
<1>6. worker'[w] = x /\ \A v \in Workers \ {w} : worker'[v] = worker[v]
  BY <1>4, OthersStay DEF MoneyInv
<1> HIDE DEF x
<1>7. \A t \in sent : t.price <= u.price
  <2>1. \A t \in req[r].attempts : t.price \in Nat /\ t.price < u.price
    BY <1>1, <1>3, PayoutAssumption DEF AttemptInv, Row, Tx
  <2>2. u.price \in Nat
    BY <1>2 DEF Tx
  <2>3. QED
    BY <1>3, <2>1, <2>2 DEF AttemptInv
<1>8. worker[w].obj.attempts \subseteq sent
  OBVIOUS
<1> HIDE DEF sent
<1>9. req' = [req EXCEPT ![r] = z]
  BY <1>2, <1>4 DEF MoneyInv, PayoutInv, TypeOK, RequestTypeOK
<1>10. /\ z.state = "PENDING" /\ z.attempts = sent
       /\ z.approved = req[r].approved /\ z.confirmed = req[r].confirmed
  BY <1>3 DEF Row
<1> HIDE DEF z
<1>11. req'[r] = z /\ \A q \in Requests \ {r} : req'[q] = req[q]
  BY <1>2, <1>9 DEF MoneyInv, PayoutInv, TypeOK, RequestTypeOK
<1>12. Known' = Known
  BY <1>1 DEF Known, Used
<1>13. IdleInv'
  BY <1>1, <1>5, <1>6 DEF MoneyInv, IdleInv
<1>14. ASSUME NEW q \in Requests \ {r} PROVE Calm(q)
  BY <1>0, <1>1, <1>5, <1>6, <1>11, <1>12, AtRequest DEF Calm
<1>15. RowInv(r)'
  <2>1. transaction[r] = "PENDING"
    BY <1>1, <1>2, <1>3 DEF RequestInv, RowInv, AttemptInv, MoneyOf
  <2>2. transaction'[r] = MoneyOf(req'[r].state)
    BY <1>1, <1>10, <1>11, <2>1 DEF MoneyOf
  <2>3. z.approved /\ z.confirmed
    BY <1>2, <1>10 DEF RequestInv, RowInv
  <2>4. QED
    BY <1>3, <1>10, <1>11, <2>2, <2>3 DEF RowInv, AttemptInv, SentStates
<1>16. QueueInv(r)' /\ CheckInv(r)' /\ NonceInv(r)'
  BY <1>1, <1>2, <1>12 DEF QueueInv, CheckInv, NonceInv, WorkerInv, RequestInv
<1>17. \A a \in Actors : task'[a].id # r
  BY <1>1, <1>2 DEF WorkerInv
<1>18. ASSUME NEW v \in Workers, worker'[v].id = r PROVE WorkerInv(v, r)'
  <2>1. v = w /\ \A y \in Workers \ {w} : worker'[y].id # r
    BY <1>2, <1>6, <1>18 DEF WorkerInv
  <2>2. AttemptInv(worker[w], r, req[r])'
    <3>1. \A t \in Known' : t.id = r => t.nonce = u.nonce
      BY <1>1, <1>3, <1>12 DEF AttemptInv, HasNonce
    <3>2. QED
      BY <1>3, <1>5, <1>6, <1>7, <1>8, <1>10, <1>11, <3>1 DEF AttemptInv, SentStates
  <2>3. QED
    BY <1>5, <1>6, <2>1, <2>2 DEF WorkerInv
<1>19. QED
  BY <1>13, <1>14, <1>15, <1>16, <1>17, <1>18, CalmStays DEF MoneyKept, RequestInv

(* A check is started when nobody is about to record another attempt. *)
LEMMA MoneyScans ==
    ASSUME MoneyInv, PayoutInv', Scan PROVE MoneyKept
<1>1. PICK i \in {scanned, scanned + 1} \cap (1 .. Len(mined)) :
        checks' = checks \cup {[id |-> r, ok |-> mined[i].ok] : r \in Awaiting(mined[i].tx)}
  BY DEF Scan
<1>2. UNCHANGED <<req, transaction, task, pool, mined, payouts, worker>>
  BY DEF Scan, requestVars
<1>3. IdleInv'
  BY <1>2 DEF MoneyInv, IdleInv
<1>4. Known' = Known
  BY <1>2 DEF Known, Used
<1>5. ASSUME NEW r \in Requests, r \notin Awaiting(mined[i].tx) PROVE RequestInv(r)'
  <2>1. \A c \in checks' : c.id = r => c \in checks
    BY <1>1, <1>5
  <2>2. payouts'[r] <= payouts[r]
    BY <1>2, AtRequest
  <2>3. Calm(r)
    BY <1>2, <1>4, <2>1, <2>2 DEF Calm
  <2>4. QED
    BY <2>3, CalmStays
<1>6. ASSUME NEW r \in Requests, r \in Awaiting(mined[i].tx) PROVE RequestInv(r)'
  <2> DEFINE t == mined[i].tx
  <2>1. req[r].state = "PENDING" /\ t \in req[r].attempts /\ RequestInv(r)
    BY <1>6 DEF Awaiting, MoneyInv
  <2>2. t.id = r /\ t \in Known
    BY <1>1, <2>1 DEF MoneyInv, PayoutInv, RowsOK, ObjectOK, Known, Used
  <2>3. ~mined[i].ok => r \in FailedIn(mined)
    BY <1>1, <2>2 DEF FailedIn
  <2>4. (InPayout(r)' <=> InPayout(r)) /\ (Sent(r)' <=> Sent(r))
    BY <1>2, <1>4 DEF InPayout, Sent
  <2>5. RowInv(r)' /\ QueueInv(r)' /\ NonceInv(r)'
    BY <1>2, <1>4, <2>1, <2>4 DEF RequestInv, RowInv, QueueInv, NonceInv
  <2>6. CheckInv(r)'
    BY <1>1, <1>2, <2>1, <2>3 DEF RequestInv, CheckInv, SentStates
  <2>7. ASSUME NEW a \in Actors, task'[a].id = r PROVE HandlerInv(a, r)'
    <3>1. HandlerInv(a, r)
      BY <1>2, <2>1, <2>7 DEF RequestInv
    <3>2. QED
      BY <1>2, <2>4, <3>1 DEF HandlerInv, SettleInv
  <2>8. ASSUME NEW w \in Workers, worker'[w].id = r PROVE WorkerInv(w, r)'
    <3>1. WorkerInv(w, r)
      BY <1>2, <2>1, <2>8 DEF RequestInv
    <3>2. worker[w].step # "save"
      <4> SUFFICES ASSUME worker[w].step = "save" PROVE FALSE
        OBVIOUS
      <4>1. t = worker[w].tx /\ t.price < worker[w].tx.price
        BY <2>1, <2>2, <3>1 DEF WorkerInv, AttemptInv
      <4>2. t.price \in Nat
        BY <1>1, MinedIsTyped DEF MoneyInv, Tx
      <4>3. QED
        BY <4>1, <4>2
    <3>3. AttemptInv(worker[w], r, req[r])'
      BY <1>2, <1>4, <2>4, <3>1 DEF WorkerInv, AttemptInv
    <3>4. QED
      BY <1>2, <3>1, <3>2, <3>3 DEF WorkerInv
  <2>9. QED
    BY <2>5, <2>6, <2>7, <2>8 DEF RequestInv
<1>7. QED
  BY <1>3, <1>5, <1>6 DEF MoneyKept

(* Whoever loses a check or dies leaves its request alone.                 *)
LEMMA MoneyLoses ==
    ASSUME MoneyInv, PayoutInv', CheckLost \/ \E a \in Actors : SettleDies(a) PROVE MoneyKept
<1>1. /\ UNCHANGED <<req, transaction, payouts, worker, pool, mined>> /\ checks' \subseteq checks
      /\ \A b \in Actors : task'[b] = task[b] \/ task'[b] = NoTask
  <2>1. CASE CheckLost
    BY <2>1 DEF CheckLost, requestVars, chainVars
  <2>2. CASE \E a \in Actors : SettleDies(a)
    BY <2>2, TasksTyped DEF SettleDies, Ends, chainVars, MoneyInv
  <2>3. QED
    BY <2>1, <2>2
<1>2. Known' = Known /\ IdleInv'
  BY <1>1 DEF Known, Used, MoneyInv, IdleInv
<1>3. ASSUME NEW r \in Requests PROVE RequestInv(r)'
  <2>1. NoTask.id # r
    BY WithdrawalAssumption DEF NoTask
  <2>2. Calm(r)
    BY <1>1, <1>2, <2>1, AtRequest DEF Calm, FailedIn
  <2>3. QED
    BY <2>2, CalmStays
<1>4. QED
  BY <1>2, <1>3 DEF MoneyKept

LEMMA MoneyStart == Init => MoneyInv
<1> SUFFICES ASSUME Init PROVE MoneyInv
  OBVIOUS
<1>1. PayoutInv /\ HereInv /\ ChainInv
  BY PayoutInit, HereStart, ChainStart
<1>2. /\ req = [r \in Requests |-> NoRow] /\ transaction = [r \in Requests |-> "NONE"]
      /\ task = [a \in Actors |-> NoTask] /\ payouts = [r \in Requests |-> 0]
      /\ worker = [w \in Workers |-> NoWithdraw] /\ pool = {} /\ mined = <<>> /\ checks = {}
  BY DEF Init, RequestInit
<1>3. Known = {}
  BY <1>2 DEF Known, Used
<1>4. IdleInv
  BY <1>2 DEF IdleInv
<1>5. ASSUME NEW r \in Requests PROVE RequestInv(r)
  <2>1. (\A a \in Actors : task[a].id # r) /\ \A w \in Workers : worker[w].id # r
    BY <1>2, WithdrawalAssumption DEF NoTask, NoWithdraw
  <2>2. req[r].state = "NONE" /\ req[r].attempts = {} /\ transaction[r] = "NONE" /\ payouts[r] = 0
    BY <1>2 DEF NoRow
  <2>3. ~InPayout(r) /\ ~Sent(r)
    BY <1>2, <1>3, <2>1, <2>2 DEF InPayout, Sent
  <2>4. QED
    BY <1>2, <1>3, <2>1, <2>2, <2>3 DEF RequestInv, RowInv, QueueInv, CheckInv, NonceInv, MoneyOf
<1>6. QED
  BY <1>1, <1>4, <1>5 DEF MoneyInv

LEMMA MoneyNext ==
    ASSUME Races \subseteq {"scan"}, MoneyInv, [Next]_vars PROVE MoneyInv'
<1>1. PayoutInv' /\ HereInv' /\ ChainInv'
  BY PayoutNext, HereNext, ChainNext DEF MoneyInv
<1>2. CASE \E w \in Workers : PayoutWorker(w) \/ Crash(w)
  <2>1. PICK w \in Workers : PayoutWorker(w) \/ Crash(w)
    BY <1>2
  <2>2. CASE Receipt(w) \/ GiveUp(w) \/ Crash(w)
    <3>1. "crash" \notin Races
      OBVIOUS
    <3>2. worker[w].step # "save" /\ WithdrawSteps(w, NoWithdraw)
          /\ UNCHANGED <<req, transaction, task, payouts, pool, mined, checks>>
      BY <2>2, <3>1 DEF Receipt, GiveUp, Crash, requestVars, chainVars
    <3>3. MoneyKept
      BY <1>1, <3>2, WorkerLeaves
    <3>4. QED
      BY <1>1, <3>3 DEF MoneyKept, MoneyInv
  <2>3. CASE \/ StartWithdraw(w) \/ SeesFreeNonce(w) \/ TakeNonce(w) \/ Send(w) \/ SaveAttempt(w)
             \/ Resend(w)
    <3>1. MoneyKept
      BY <1>1, <2>3, MoneyStarts, MoneySees, MoneyTakes, MoneySends, MoneyRecords, MoneyResends
    <3>2. QED
      BY <1>1, <3>1 DEF MoneyKept, MoneyInv
  <2>4. QED
    BY <2>1, <2>2, <2>3 DEF PayoutWorker
<1>3. CASE LockExpires \/ ExpireRequest \/ UNCHANGED vars
  <2>1. UNCHANGED <<req, transaction, task, payouts, worker, pool, mined, checks>>
    BY <1>3 DEF LockExpires, ExpireRequest, Expires, vars, requestVars, chainVars, payoutVars
  <2>2. MoneyKept
    BY <1>1, <2>1, MoneyUnchanged
  <2>3. QED
    BY <1>1, <2>2 DEF MoneyKept, MoneyInv
<1>4. CASE \/ CreateRequest \/ BeginHandler \/ \E a \in Actors : RunHandler(a)
           \/ ProcessPayouts \/ \E a \in Checkers : CheckTx(a)
           \/ Mine \/ Scan \/ CheckLost \/ \E a \in Actors : SettleDies(a)
  <2>1. MoneyKept
    BY <1>1, <1>4, MoneyCreates, MoneyBegins, MoneyHandles, MoneyProcesses, MoneyChecks, MoneyMines,
       MoneyScans, MoneyLoses
  <2>2. QED
    BY <1>1, <2>1 DEF MoneyKept, MoneyInv
<1>5. QED
  BY <1>2, <1>3, <1>4 DEF Next, Quiescent

LEMMA MoneySound ==
    ASSUME Races \subseteq {"scan"} PROVE Spec => []MoneyInv
<1>1. MoneyInv /\ [Next]_vars => MoneyInv'
  BY MoneyNext
<1>2. QED
  BY <1>1, MoneyStart, PTL DEF Spec

-----------------------------------------------------------------------------
(* The theorems about money.                                               *)

(* When handlers keep away from requests that are paid out and from rows   *)
(* saved whole, process_payouts waits for its tasks and no worker dies     *)
(* between sending and saving: the transaction of a request always agrees  *)
(* with its state (complete, fail, cancel and save write the two).         *)
THEOREM StateMatchesMoneyAlways ==
    ASSUME Races \subseteq {"scan"} PROVE Spec => []StateMatchesMoney
<1>1. MoneyInv => StateMatchesMoney
  BY DEF MoneyInv, RequestInv, RowInv, MoneyOf, StateMatchesMoney
<1>2. QED
  BY <1>1, MoneySound, PTL

-----------------------------------------------------------------------------
(* The refinement of Payout.                                               *)

Paid == [r \in Requests |-> PaidTimes(r)]

(* The mined payments of r. *)
PaymentsOf(m, r) == {i \in 1 .. Len(m) : m[i].tx.id = r /\ m[i].ok}

LEMMA PaidOnce ==
    ASSUME MoneyInv, NEW r \in Requests
    PROVE  PaidTimes(r) = IF r \in PaidIn(mined) THEN 1 ELSE 0
<1> DEFINE S == PaymentsOf(mined, r)
<1>1. PaidTimes(r) = Cardinality(S)
  BY DEF PaidTimes, PaymentsOf
<1>2. CASE r \in PaidIn(mined)
  <2>1. PICK i \in 1 .. Len(mined) : mined[i].tx.id = r /\ mined[i].ok
    BY <1>2 DEF PaidIn
  <2>2. S = {i}
    BY <2>1, MinedOnce DEF PaymentsOf
  <2>3. QED
    BY <1>1, <1>2, <2>2, FS_Singleton
<1>3. CASE r \notin PaidIn(mined)
  <2>1. S = {}
    BY <1>3 DEF PaidIn, PaymentsOf
  <2>2. QED
    BY <1>1, <1>3, <2>1, FS_EmptySet
<1>4. QED
  BY <1>2, <1>3

LEMMA NothingPaid == ASSUME UNCHANGED mined PROVE Paid' = Paid
  BY DEF Paid, PaidTimes

(* A request whose transaction is mined next is not settled, and no        *)
(* transaction of it is mined.                                             *)
LEMMA UnsettledIsMined ==
    ASSUME MoneyInv, NEW u \in pool, u.nonce = Len(mined)
    PROVE  /\ u.id \in Requests /\ u.id \notin PaidIn(mined) /\ transaction[u.id] = "PENDING"
<1> DEFINE r == u.id
<1>1. r \in Requests /\ u \in Known /\ Sent(r) /\ Len(mined) \in Nat
  BY Others DEF MoneyInv, Tx, Known, Sent
<1>2. RequestInv(r)
  BY <1>1 DEF MoneyInv
<1>3. \A i \in 1 .. Len(mined) : mined[i].tx.id # r
  <2> SUFFICES ASSUME NEW i \in 1 .. Len(mined), mined[i].tx.id = r PROVE FALSE
    OBVIOUS
  <2>1. mined[i].tx.nonce = u.nonce
    BY <1>1, <1>2 DEF RequestInv, NonceInv, Known, Used
  <2>2. mined[i].tx.nonce = i - 1
    BY DEF MoneyInv, ChainInv
  <2>3. QED
    BY <1>1, <2>1, <2>2
<1>4. r \notin PaidIn(mined) /\ r \notin FailedIn(mined)
  BY <1>3 DEF PaidIn, FailedIn
<1>5. req[r].state \in SentStates \cup {"CREATED"} /\ r \notin TooSmall
  BY <1>1, <1>2 DEF RequestInv, RowInv, WorkerInv, AttemptInv, SentStates
<1>6. req[r].state # "COMPLETED" /\ req[r].state # "FAILED"
  BY <1>1, <1>2, <1>4, <1>5 DEF RequestInv, RowInv, MoneyInv, HereInv, HereAt, PayoutInv, RowsOK, ObjectOK
<1>7. transaction[r] = "PENDING"
  BY <1>2, <1>5, <1>6 DEF RequestInv, RowInv, MoneyOf, SentStates
<1>8. QED
  BY <1>1, <1>4, <1>7

LEMMA PromiseMines ==
    ASSUME MoneyInv, Mine PROVE [Promise!Next]_(Promise!vars)
<1>1. PICK u \in pool, ok \in BOOLEAN :
        /\ u \in Tx /\ u.nonce = Len(mined)
        /\ pool' = pool \ SameNonce(u)
        /\ Len(mined) \in Nat /\ Len(mined') = Len(mined) + 1
        /\ mined'[Len(mined) + 1] = [tx |-> u, ok |-> ok]
        /\ \A i \in 1 .. Len(mined) : mined'[i] = mined[i]
  BY MinesOne DEF MoneyInv
<1>2. u.id \in Requests /\ u.id \notin PaidIn(mined) /\ transaction[u.id] = "PENDING"
  BY <1>1, UnsettledIsMined
<1>3. UNCHANGED <<account, transaction>>
  BY DEF Mine, requestVars
<1>4. ASSUME NEW q \in Requests, ~(q = u.id /\ ok) PROVE PaidTimes(q)' = PaidTimes(q)
  <2>1. PaymentsOf(mined', q) = PaymentsOf(mined, q)
    BY <1>1, <1>4 DEF PaymentsOf
  <2>2. QED
    BY <2>1 DEF PaidTimes, PaymentsOf
<1>5. CASE ok
  <2>1. PaymentsOf(mined', u.id) = {Len(mined) + 1}
    <3>1. \A i \in 1 .. Len(mined) : ~(mined[i].tx.id = u.id /\ mined[i].ok)
      BY <1>2 DEF PaidIn
    <3>2. QED
      BY <1>1, <1>5, <3>1 DEF PaymentsOf
  <2>2. Cardinality(PaymentsOf(mined', u.id)) = 1
    BY <2>1, FS_Singleton
  <2>3. PaidTimes(u.id)' = 1
    BY <2>2 DEF PaidTimes, PaymentsOf
  <2>4. PaidTimes(u.id) = 0
    BY <1>2, PaidOnce
  <2>5. Paid' = [q \in Requests |-> IF q \in {u.id} THEN 1 ELSE Paid[q]]
    BY <1>4, <2>3 DEF Paid
  <2>6. Promise!Pay({u.id})
    BY <1>2, <1>3, <2>4, <2>5 DEF Promise!Pay, Paid
  <2>7. QED
    BY <1>2, <2>6 DEF Promise!Next
<1>6. CASE ~ok
  <2>1. Paid' = Paid
    BY <1>4, <1>6 DEF Paid
  <2>2. QED
    BY <1>3, <2>1 DEF Promise!vars, Paid
<1>7. QED
  BY <1>5, <1>6

LEMMA PromiseCreates ==
    ASSUME MoneyInv, CreateRequest PROVE Promise!Next
<1>1. PICK r \in Requests : Create(r) /\ UNCHANGED mined
  BY DEF CreateRequest, chainVars
<1>2. transaction[r] = "NONE"
  BY <1>1 DEF Create, Exists, MoneyInv, RequestInv, RowInv, MoneyOf
<1>3. Paid' = Paid
  BY <1>1, NothingPaid
<1>4. Promise!Ask(r)
  BY <1>1, <1>2, <1>3 DEF Create, Promise!Ask, Promise!Settle, Paid
<1>5. QED
  BY <1>4 DEF Promise!Next

LEMMA PromiseReturns ==
    ASSUME MoneyInv, NEW a \in Actors, GiveBack(a), UNCHANGED mined
    PROVE  [Promise!Next]_(Promise!vars)
<1> DEFINE t == task[a]
           r == t.id
<1>1. t.op \in Cancels \cup {"fail"} /\ t.op # "none"
  BY DEF GiveBack, Cancels
<1>2. r \in Requests /\ HandlerInv(a, r) /\ RowInv(r)
  BY <1>1, AtWork
<1>3. Paid' = Paid
  BY NothingPaid
<1>4. CASE ChangesState(t)
  <2>1. /\ transaction' = [transaction EXCEPT ![r] = "CANCELED"]
        /\ account' = [account EXCEPT ![Owner[r]] = @ + Amount[r]]
    BY <1>4 DEF GiveBack
  <2>2. req[r].state \in {"CREATED", "PENDING"} /\ r \notin PaidIn(mined)
    <3>1. CASE t.op \in Cancels
      <4>1. req[r].state = "CREATED" /\ ~InPayout(r)
        BY <1>2, <1>4, <3>1 DEF ChangesState, HandlerInv, Cancels, Settles
      <4>2. ~Sent(r)
        BY <1>2, <4>1 DEF RowInv, SentStates, InPayout
      <4>3. QED
        BY <4>1, <4>2, MinedWasSent
    <3>2. CASE t.op = "fail"
      <4>1. SettleInv(t, r, req[r]) /\ req[r].state = t.obj.state
        BY <1>2, <1>4, <3>2 DEF HandlerInv, Settles, ChangesState, Cancels
      <4>2. req[r].state \in {"CREATED", "PENDING"} /\ r \in TooSmall \cup FailedIn(mined)
        BY <3>2, <4>1 DEF SettleInv
      <4>3. r \in TooSmall => ~Sent(r)
        BY <1>2 DEF RowInv
      <4>4. QED
        BY <1>2, <4>2, <4>3, MinedWasSent, PaidOrFailed
    <3>3. QED
      BY <1>1, <3>1, <3>2
  <2>3. transaction[r] = "PENDING"
    BY <1>2, <2>2 DEF RowInv, MoneyOf
  <2>4. PaidTimes(r) = 0
    BY <1>2, <2>2, PaidOnce
  <2>5. Promise!GiveBack(r)
    BY <1>2, <1>3, <2>1, <2>3, <2>4 DEF Promise!GiveBack, Promise!Settle, Paid
  <2>6. QED
    BY <1>2, <2>5 DEF Promise!Next
<1>5. CASE ~ChangesState(t)
  BY <1>3, <1>5 DEF GiveBack, Promise!vars, Paid
<1>6. QED
  BY <1>4, <1>5

LEMMA PromiseCompletes ==
    ASSUME MoneyInv, NEW a \in Actors, Complete(a), UNCHANGED mined
    PROVE  [Promise!Next]_(Promise!vars)
<1> DEFINE r == task[a].id
<1>1. task[a].op = "complete" /\ account' = account
      /\ transaction' = [transaction EXCEPT ![r] = "COMPLETED"]
  BY DEF Complete
<1>2. r \in Requests /\ r \in PaidIn(mined) /\ HandlerInv(a, r) /\ RowInv(r)
  BY <1>1, AtWork
<1>3. req[r].state \in {"PENDING", "COMPLETED"}
  BY <1>1, <1>2 DEF HandlerInv, Settles, SettleInv
<1>4. Paid' = Paid
  BY NothingPaid
<1>5. CASE req[r].state = "PENDING"
  <2>1. transaction[r] = "PENDING"
    BY <1>2, <1>5 DEF RowInv, MoneyOf
  <2>2. PaidTimes(r) = 1
    BY <1>2, PaidOnce
  <2>3. Promise!Complete(r)
    BY <1>1, <1>2, <1>4, <2>1, <2>2 DEF Promise!Complete, Promise!Settle, Paid
  <2>4. QED
    BY <1>2, <2>3 DEF Promise!Next
<1>6. CASE req[r].state = "COMPLETED"
  <2>1. transaction[r] = "COMPLETED"
    BY <1>2, <1>6 DEF RowInv, MoneyOf
  <2>2. transaction = [q \in Requests |-> transaction[q]]
    BY DEF MoneyInv, PayoutInv, TypeOK, RequestTypeOK
  <2>3. transaction' = transaction
    BY <1>1, <2>1, <2>2
  <2>4. QED
    BY <1>1, <1>4, <2>3 DEF Promise!vars, Paid
<1>7. QED
  BY <1>3, <1>5, <1>6

LEMMA PromiseNext ==
    ASSUME MoneyInv, [Next]_vars PROVE [Promise!Next]_(Promise!vars)
<1>1. CASE Mine
  BY <1>1, PromiseMines
<1>2. CASE CreateRequest
  BY <1>2, PromiseCreates
<1>3. CASE \E a \in Actors : RunHandler(a)
  <2>1. PICK a \in Actors : Handle(a) /\ UNCHANGED mined
    BY <1>3 DEF RunHandler, chainVars
  <2>2. CASE Confirm(a) \/ AdminSave(a) \/ AssertState(a)
    <3>1. UNCHANGED <<account, transaction>>
      BY <2>2 DEF Confirm, AdminSave, AssertState
    <3>2. QED
      BY <2>1, <3>1, NothingPaid DEF Promise!vars, Paid
  <2>3. QED
    BY <2>1, <2>2, PromiseReturns, PromiseCompletes DEF Handle
<1>4. CASE \/ ExpireRequest \/ BeginHandler \/ ProcessPayouts
           \/ \E w \in Workers : PayoutWorker(w) \/ Crash(w)
           \/ LockExpires \/ Scan \/ (\E a \in Checkers : CheckTx(a)) \/ UNCHANGED vars
           \/ CheckLost \/ \E a \in Actors : SettleDies(a)
  <2>1. UNCHANGED <<account, transaction, mined>>
    BY <1>4 DEF ExpireRequest, Expires, BeginHandler, Begin, ProcessPayouts, PayoutWorker, StartWithdraw,
         SeesFreeNonce, TakeNonce, Send, SaveAttempt, Receipt, Resend, GiveUp, Crash, LockExpires, Scan,
         CheckTx, CheckLost, SettleDies, vars, requestVars, chainVars
  <2>2. QED
    BY <2>1, NothingPaid DEF Promise!vars, Paid
<1>5. QED
  BY <1>1, <1>2, <1>3, <1>4 DEF Next, Quiescent

LEMMA PromiseStart == Init => Promise!Init
<1> SUFFICES ASSUME Init PROVE Promise!Init
  OBVIOUS
<1>1. /\ account \in Funds /\ transaction = [r \in Requests |-> "NONE"] /\ mined = <<>>
  BY DEF Init, RequestInit
<1>2. ASSUME NEW r \in Requests PROVE PaidTimes(r) = 0
  <2>1. PaymentsOf(mined, r) = {}
    BY <1>1 DEF PaymentsOf
  <2>2. QED
    BY <2>1, FS_EmptySet DEF PaidTimes, PaymentsOf
<1>3. QED
  BY <1>1, <1>2 DEF Promise!Init

(* Under the same timing, the payouts implement Payout: what a request     *)
(* holds is paid out once or given back once, never both, whatever the     *)
(* order of cancels, resends, failed sends, replaced and failed            *)
(* transactions, repeated scans and lost checks, and whenever the nonce    *)
(* key expires or is set by two workers.                                   *)
THEOREM PayoutsKeepPromise ==
    ASSUME Races \subseteq {"scan"} PROVE Spec => PayoutPromise
<1>1. MoneyInv /\ [Next]_vars => [Promise!Next]_(Promise!vars)
  BY PromiseNext
<1>2. QED
  BY <1>1, PromiseStart, MoneySound, PTL DEF Spec, PayoutPromise, Promise!Spec

-----------------------------------------------------------------------------
(* No payout is forgotten.                                                 *)

(* A step that leaves the chain alone and after which whoever followed a   *)
(* pending request still does.                                             *)
KeepsFollowing ==
    /\ \A r \in Requests : req'[r].state = "PENDING" => req'[r] = req[r]
    /\ UNCHANGED <<pool, mined, scanned>> /\ forgotten \subseteq forgotten'
    /\ \A k \in checks : \/ k \in checks' \/ req[k.id].state # "PENDING" \/ k.id \in forgotten'
                         \/ \E a \in Actors : task'[a].id = k.id /\ task'[a].op \in Settles
    /\ \A a \in Actors : task[a].op \in Settles /\ req'[task[a].id].state = "PENDING" =>
           \/ task[a].id \in forgotten'
           \/ task'[a].id = task[a].id /\ task'[a].op = task[a].op
    /\ \A w \in Workers : worker[w].step = "save" \/ worker'[w].step = "save" => worker'[w] = worker[w]

LEMMA FollowsOn ==
    ASSUME MoneyInv, FollowInv, KeepsFollowing PROVE FollowInv'
<1>1. Known' = Known
  BY DEF KeepsFollowing, Known, Used
<1>2. ASSUME NEW r \in Requests \ forgotten', req'[r].state = "PENDING"
      PROVE  \/ \E t \in req'[r].attempts : t \in pool'
             \/ \E i \in (scanned' + 1) .. Len(mined') : mined'[i].tx \in req'[r].attempts
             \/ \E k \in checks' : k.id = r
             \/ \E a \in Actors : task'[a].id = r /\ task'[a].op \in Settles
             \/ \E w \in Workers : worker'[w].step = "save" /\ worker'[w].id = r
  <2>1. /\ req'[r] = req[r] /\ pool' = pool /\ mined' = mined /\ scanned' = scanned
        /\ r \in Requests \ forgotten
    BY <1>2 DEF KeepsFollowing
  <2>2. \/ \E t \in req[r].attempts : t \in pool
        \/ \E i \in (scanned + 1) .. Len(mined) : mined[i].tx \in req[r].attempts
        \/ \E k \in checks : k.id = r
        \/ \E a \in Actors : task[a].id = r /\ task[a].op \in Settles
        \/ \E w \in Workers : worker[w].step = "save" /\ worker[w].id = r
    BY <1>2, <2>1 DEF FollowInv, PendingIsFollowed, Busy
  <2>3. CASE \E k \in checks : k.id = r
    BY <1>2, <2>1, <2>3 DEF KeepsFollowing
  <2>4. CASE \E a \in Actors : task[a].id = r /\ task[a].op \in Settles
    BY <1>2, <2>4 DEF KeepsFollowing
  <2>5. CASE \E w \in Workers : worker[w].step = "save" /\ worker[w].id = r
    BY <2>5 DEF KeepsFollowing
  <2>6. QED
    BY <2>1, <2>2, <2>3, <2>4, <2>5
<1>3. PendingIsFollowed'
  BY <1>2 DEF PendingIsFollowed, Busy
<1>4. \A r \in Requests : req'[r].state = "PENDING" => r \notin TooSmall
  BY DEF FollowInv, KeepsFollowing
<1>5. ASSUME NEW v \in Workers, worker'[v].step = "save", worker'[v].id \notin forgotten'
      PROVE  worker'[v].tx \in Known' /\ \A i \in 1 .. scanned' : mined'[i].tx # worker'[v].tx
  BY <1>1, <1>5 DEF FollowInv, KeepsFollowing
<1>6. QED
  BY <1>3, <1>4, <1>5 DEF FollowInv

(* Handlers other than those that settle are not at pending requests. *)
LEMMA NotAtPending ==
    ASSUME MoneyInv, NEW a \in Actors, task[a].op \notin Settles \cup {"none"}
    PROVE  req[task[a].id].state # "PENDING"
  BY AtWork DEF HandlerInv, InPayout

(* A handler that settles a pending request passes its assertion and does  *)
(* not miss the row. *)
LEMMA SettlesPending ==
    ASSUME MoneyInv, FollowInv, NEW a \in Actors, task[a].op \in Settles,
           req[task[a].id].state = "PENDING"
    PROVE  Asserted(task[a]) /\ ChangesState(task[a])
<1> DEFINE t == task[a]
           r == t.id
<1>1. t.op # "none" /\ t.op \in {"complete", "fail"}
  BY DEF Settles
<1>2. r \in Requests /\ HandlerInv(a, r) /\ RowInv(r)
  BY <1>1, AtWork
<1>3. r \notin TooSmall
  BY <1>2 DEF FollowInv
<1>4. t.obj.state = "PENDING"
  BY <1>1, <1>2, <1>3 DEF HandlerInv, SettleInv, Settles
<1>5. transaction[r] = "PENDING"
  BY <1>2 DEF RowInv, MoneyOf
<1>6. Asserted(t)
  BY <1>1, <1>4, <1>5 DEF Asserted
<1>7. ChangesState(t)
  BY <1>1, <1>4 DEF ChangesState, Cancels
<1>8. QED
  BY <1>6, <1>7

(* The row a handler writes is not pending afterwards. *)
LEMMA HandlerFollows ==
    ASSUME MoneyInv, FollowInv, NEW a \in Actors, task[a].op # "none", NEW x, NEW y,
           req' = req \/ (req' = [req EXCEPT ![task[a].id] = x] /\ x.state # "PENDING"),
           task' = [task EXCEPT ![a] = y],
           task[a].op \in Settles /\ req' = req =>
               \/ req[task[a].id].state # "PENDING"
               \/ y.id = task[a].id /\ y.op = task[a].op,
           UNCHANGED <<chainVars, payoutVars>>
    PROVE  KeepsFollowing
<1>1. task \in [Actors -> Task] /\ req \in [Requests -> Row] /\ task[a].id \in Requests
  BY AtWork DEF MoneyInv, PayoutInv, TypeOK, RequestTypeOK
<1>2. UNCHANGED <<pool, mined, scanned, checks, worker, forgotten>>
  BY DEF chainVars, payoutVars
<1>3. \A r \in Requests : req'[r].state = "PENDING" => req'[r] = req[r]
  BY <1>1
<1>4. ASSUME NEW b \in Actors, task[b].op \in Settles, req'[task[b].id].state = "PENDING"
      PROVE  task'[b].id = task[b].id /\ task'[b].op = task[b].op
  <2>1. CASE b = a
    BY <1>1, <1>4, <2>1
  <2>2. CASE b # a
    BY <1>1, <2>2
  <2>3. QED
    BY <2>1, <2>2
<1>5. QED
  BY <1>2, <1>3, <1>4 DEF KeepsFollowing

LEMMA FollowHandles ==
    ASSUME MoneyInv, FollowInv, NEW a \in Actors, RunHandler(a) PROVE KeepsFollowing
<1>1. UNCHANGED <<chainVars, payoutVars>>
  BY DEF RunHandler
<1> DEFINE t == task[a]
           r == t.id
<1>2. CASE Confirm(a)
  <2> DEFINE x == [req[r] EXCEPT !.confirmed = TRUE]
  <2>1. t.op # "none" /\ t.op \notin Settles /\ t.op \notin Settles \cup {"none"}
    BY <1>2 DEF Confirm, Settles
  <2>2. x.state = req[r].state
    BY <2>1, AtWork DEF Row
  <2>3. x.state # "PENDING"
    BY <2>1, <2>2, NotAtPending
  <2>4. req' = [req EXCEPT ![r] = x] /\ task' = [task EXCEPT ![a] = NoTask]
    BY <1>2 DEF Confirm, Ends
  <2> HIDE DEF x
  <2>5. QED
    BY <1>1, <2>1, <2>3, <2>4, HandlerFollows
<1>3. CASE AdminSave(a)
  <2> DEFINE x == Changed(t.op, t.obj)
  <2>1. /\ t.op # "none" /\ t.op \notin Settles /\ t.op \notin Settles \cup {"none"}
        /\ t.op \in AdminSaves /\ t.op \in FullSaves
    BY <1>3 DEF AdminSave, AdminSaves, Settles, FullSaves
  <2>2. r \in Requests /\ req[r] \in Row /\ HandlerInv(a, r)
    BY <2>1, AtWork
  <2>3. t.obj = req[r] /\ (t.op = "disable_user" => req[r].state = "VERIFYING")
    BY <2>1, <2>2 DEF HandlerInv
  <2>4. Allowed(t.op, t.obj) => x.state # "PENDING"
    BY <2>1, <2>2, <2>3, ChangedKeeps, NotAtPending
  <2>5. \/ Allowed(t.op, t.obj) /\ req' = [req EXCEPT ![r] = x]
        \/ UNCHANGED req
    BY <1>3 DEF AdminSave
  <2>6. \E y : task' = [task EXCEPT ![a] = y]
    BY <1>3 DEF AdminSave, Ends, Loads
  <2> HIDE DEF x
  <2>7. QED
    BY <1>1, <2>1, <2>4, <2>5, <2>6, HandlerFollows
<1>4. CASE AssertState(a)
  <2>1. t.op # "none"
    BY <1>4 DEF AssertState, Cancels, Settles
  <2>2. task \in [Actors -> Task]
    BY TasksTyped DEF MoneyInv
  <2>3. CASE Asserted(t)
    <3> DEFINE y == [t EXCEPT !.checked = TRUE]
    <3>1. task' = [task EXCEPT ![a] = y] /\ UNCHANGED req
      BY <1>4, <2>3 DEF AssertState
    <3>2. y.id = t.id /\ y.op = t.op
      BY <2>2 DEF Task
    <3> HIDE DEF y
    <3>3. QED
      BY <1>1, <2>1, <3>1, <3>2, HandlerFollows
  <2>4. CASE ~Asserted(t)
    <3>1. task' = [task EXCEPT ![a] = NoTask] /\ UNCHANGED req
      BY <1>4, <2>4 DEF AssertState, Ends
    <3>2. QED
      BY <1>1, <2>1, <2>4, <3>1, SettlesPending, HandlerFollows
  <2>5. QED
    BY <2>3, <2>4
<1>5. CASE GiveBack(a)
  <2> DEFINE x == Returned(t)
  <2>1. t.op # "none" /\ t.op \in Cancels \cup {"fail"} /\ task' = [task EXCEPT ![a] = NoTask]
    BY <1>5 DEF GiveBack, Cancels, Ends
  <2>2. CASE ChangesState(t)
    <3>1. MoneyOf(x.state) = "CANCELED"
      BY <2>1, <2>2, MayReturn
    <3>2. x.state # "PENDING"
      BY <3>1 DEF MoneyOf
    <3>3. req' = [req EXCEPT ![r] = x]
      BY <1>5, <2>2 DEF GiveBack
    <3>4. t.op \in Settles /\ req' = req => req[r].state # "PENDING"
      <4>1. r \in Requests
        BY <2>1, AtWork
      <4>2. req'[r] = x
        BY <3>3, <4>1 DEF MoneyInv, PayoutInv, TypeOK, RequestTypeOK
      <4>3. QED
        BY <3>2, <4>2
    <3> HIDE DEF x
    <3>5. QED
      BY <1>1, <2>1, <3>2, <3>3, <3>4, HandlerFollows
  <2>3. CASE ~ChangesState(t)
    <3>1. UNCHANGED req
      BY <1>5, <2>3 DEF GiveBack
    <3>2. t.op \in Settles => req[r].state # "PENDING"
      BY <2>3, SettlesPending
    <3>3. QED
      BY <1>1, <2>1, <3>1, <3>2, HandlerFollows
  <2>4. QED
    BY <2>2, <2>3
<1>6. CASE Complete(a)
  <2> DEFINE x == [t.obj EXCEPT !.state = "COMPLETED"]
  <2>1. t.op # "none" /\ req' = [req EXCEPT ![r] = x] /\ task' = [task EXCEPT ![a] = NoTask]
    BY <1>6 DEF Complete, Ends
  <2>2. r \in Requests /\ t.obj \in Row
    BY <2>1, AtWork
  <2>3. x.state = "COMPLETED"
    BY <2>2 DEF Row
  <2> HIDE DEF x
  <2>4. req'[r] = x
    BY <2>1, <2>2 DEF MoneyInv, PayoutInv, TypeOK, RequestTypeOK
  <2>5. QED
    BY <1>1, <2>1, <2>3, <2>4, HandlerFollows
<1>7. QED
  BY <1>2, <1>3, <1>4, <1>5, <1>6 DEF RunHandler, Handle

(* A process that was idle begins a handler, or none does. *)
LEMMA BeginsFollowing ==
    ASSUME MoneyInv, UNCHANGED <<req, pool, mined, scanned, checks, forgotten>>,
           task' = task \/ \E a \in Actors : \E y : Idle(a) /\ task' = [task EXCEPT ![a] = y],
           \A w \in Workers : worker[w].step = "save" \/ worker'[w].step = "save" => worker'[w] = worker[w]
    PROVE  KeepsFollowing
<1>1. task \in [Actors -> Task]
  BY TasksTyped DEF MoneyInv
<1>2. ASSUME NEW b \in Actors, task[b].op \in Settles PROVE task'[b] = task[b]
  BY <1>1, <1>2 DEF Idle, NoTask, Settles
<1>3. QED
  BY <1>2 DEF KeepsFollowing

LEMMA FollowBegins ==
    ASSUME MoneyInv, ExpireRequest \/ BeginHandler \/ ProcessPayouts \/ LockExpires \/ UNCHANGED vars
    PROVE  KeepsFollowing
<1>1. CASE ExpireRequest \/ ProcessPayouts \/ LockExpires \/ UNCHANGED vars
  <2>1. UNCHANGED <<req, task, pool, mined, scanned, checks, worker, forgotten>>
    BY <1>1 DEF ExpireRequest, Expires, ProcessPayouts, LockExpires, vars, requestVars, chainVars,
                payoutVars
  <2>2. QED
    BY <2>1, BeginsFollowing
<1>2. CASE BeginHandler
  <2>1. PICK a \in Web, op \in Handlers, r \in Requests :
          Begin(a, op, r) /\ UNCHANGED <<chainVars, payoutVars>>
    BY <1>2 DEF BeginHandler
  <2> DEFINE y == [op |-> op, id |-> r, obj |-> req[r], checked |-> FALSE]
  <2>2. a \in Actors /\ Idle(a) /\ task' = [task EXCEPT ![a] = y]
    BY <2>1 DEF Begin, Loads, Web
  <2> HIDE DEF y
  <2>3. UNCHANGED <<req, pool, mined, scanned, checks, worker, forgotten>>
    BY <2>1 DEF Begin, chainVars, payoutVars
  <2>4. QED
    BY <2>2, <2>3, BeginsFollowing
<1>3. QED
  BY <1>1, <1>2

LEMMA FollowCreates ==
    ASSUME MoneyInv, CreateRequest PROVE KeepsFollowing
<1>1. PICK r \in Requests : Create(r) /\ UNCHANGED <<chainVars, payoutVars>>
  BY DEF CreateRequest
<1> DEFINE x == [NoRow EXCEPT !.state = "CREATED"]
<1>2. x.state = "CREATED"
  BY DEF NoRow
<1>3. req' = [req EXCEPT ![r] = x] /\ UNCHANGED task
  BY <1>1 DEF Create
<1> HIDE DEF x
<1>4. \A q \in Requests : req'[q].state = "PENDING" => req'[q] = req[q]
  BY <1>2, <1>3 DEF MoneyInv, PayoutInv, TypeOK, RequestTypeOK
<1>5. UNCHANGED <<pool, mined, scanned, checks, worker, forgotten>>
  BY <1>1 DEF chainVars, payoutVars
<1>6. QED
  BY <1>3, <1>4, <1>5 DEF KeepsFollowing

(* A worker's step before it sends or after it has recorded. *)
LEMMA FollowWorks ==
    ASSUME "crash" \notin Races, MoneyInv, NEW w \in Workers,
           \/ StartWithdraw(w) \/ SeesFreeNonce(w) \/ TakeNonce(w) \/ Receipt(w) \/ Resend(w)
           \/ GiveUp(w) \/ Crash(w) \/ (Send(w) /\ ~Sends(w))
    PROVE  KeepsFollowing
<1>1. worker[w] \in Withdraw /\ NoWithdraw.step = "idle" /\ w \in Actors
  BY RunningWorker, PayoutAssumption DEF MoneyInv, NoWithdraw
<1>2. UNCHANGED <<req, pool, mined, scanned, checks, forgotten>>
  BY DEF StartWithdraw, SeesFreeNonce, TakeNonce, Receipt, Resend, GiveUp, Crash, Send, Sends,
         requestVars, chainVars
<1>3. worker' = worker \/ \E x : /\ WithdrawSteps(w, x)
                                 /\ x.step # "save" /\ worker[w].step # "save"
  <2>1. CASE StartWithdraw(w)
    <3>1. PICK r \in Requests :
            /\ worker[w].step = "idle"
            /\ \/ UNCHANGED worker
               \/ WithdrawSteps(w, [step |-> "nonce", id |-> r, obj |-> req[r], tx |-> NoTx])
      BY <2>1 DEF StartWithdraw
    <3>2. QED
      BY <3>1
  <2>2. CASE SeesFreeNonce(w)
    <3> DEFINE x == [worker[w] EXCEPT !.step = "free"]
    <3>1. WithdrawSteps(w, x) /\ worker[w].step = "nonce"
      BY <2>2 DEF SeesFreeNonce
    <3>2. x.step = "free"
      BY <1>1 DEF Withdraw
    <3> HIDE DEF x
    <3>3. QED
      BY <3>1, <3>2
  <2>3. CASE TakeNonce(w)
    <3>1. PICK p \in 1 .. MaxPrice :
            WithdrawSteps(w, [worker[w] EXCEPT !.step = "send",
                                 !.tx = [id |-> worker[w].id, nonce |-> Len(mined), price |-> p]])
      BY <2>3 DEF TakeNonce
    <3> DEFINE u == [id |-> worker[w].id, nonce |-> Len(mined), price |-> p]
               x == [worker[w] EXCEPT !.step = "send", !.tx = u]
    <3>2. WithdrawSteps(w, x) /\ worker[w].step = "free"
      BY <2>3, <3>1 DEF TakeNonce
    <3> HIDE DEF u
    <3>3. x.step = "send"
      BY <1>1 DEF Withdraw
    <3> HIDE DEF x
    <3>4. QED
      BY <3>2, <3>3
  <2>4. CASE Resend(w)
    <3> DEFINE u == [worker[w].tx EXCEPT !.price = @ + 1]
               x == [worker[w] EXCEPT !.step = "send", !.obj = req[worker[w].tx.id], !.tx = u]
    <3>1. worker[w].step = "receipt"
      BY <2>4 DEF Resend
    <3>2. [worker[w] EXCEPT !.step = "send", !.obj = req[worker[w].tx.id], !.tx.price = @ + 1] = x
      BY <1>1 DEF Withdraw
    <3>3. WithdrawSteps(w, x)
      BY <2>4, <3>2 DEF Resend
    <3> HIDE DEF u
    <3>4. x.step = "send"
      BY <1>1 DEF Withdraw
    <3> HIDE DEF x
    <3>5. QED
      BY <3>1, <3>3, <3>4
  <2>5. CASE Receipt(w) \/ GiveUp(w) \/ Crash(w) \/ (Send(w) /\ ~Sends(w))
    <3>1. WithdrawSteps(w, NoWithdraw) /\ worker[w].step # "save"
      BY <2>5 DEF Receipt, GiveUp, Crash, Send, Sends
    <3>2. QED
      BY <1>1, <3>1
  <2>6. QED
    BY <2>1, <2>2, <2>3, <2>4, <2>5
<1>4. \A v \in Workers : worker[v].step = "save" \/ worker'[v].step = "save" => worker'[v] = worker[v]
  <2>1. CASE worker' = worker
    BY <2>1
  <2>2. CASE \E x : WithdrawSteps(w, x) /\ x.step # "save" /\ worker[w].step # "save"
    <3>1. PICK x : WithdrawSteps(w, x) /\ x.step # "save" /\ worker[w].step # "save"
      BY <2>2
    <3>2. worker'[w] = x /\ \A v \in Workers \ {w} : worker'[v] = worker[v]
      BY <3>1, OthersStay DEF MoneyInv
    <3>3. QED
      BY <3>1, <3>2
  <2>3. QED
    BY <1>3, <2>1, <2>2
<1>5. task' = task \/ \E y : Idle(w) /\ task' = [task EXCEPT ![w] = y]
  <2>1. CASE StartWithdraw(w)
    BY <2>1 DEF StartWithdraw, Loads
  <2>2. CASE ~StartWithdraw(w)
    BY <2>2 DEF SeesFreeNonce, TakeNonce, Receipt, Resend, GiveUp, Crash, Send, requestVars
  <2>3. QED
    BY <2>1, <2>2
<1>6. QED
  BY <1>1, <1>2, <1>4, <1>5, BeginsFollowing

(* check_tx_withdrawal takes over from the scanner. *)
LEMMA FollowChecks ==
    ASSUME MoneyInv, NEW a \in Checkers, CheckTx(a) PROVE KeepsFollowing
<1>1. PICK k \in checks :
        /\ Idle(a) /\ checks' = checks \ {k}
        /\ IF req[k.id].state = "PENDING"
           THEN Loads(a, IF k.ok THEN "complete" ELSE "fail", k.id, req[k.id])
           ELSE UNCHANGED task
  BY DEF CheckTx
<1>2. UNCHANGED <<req, pool, mined, scanned, worker, forgotten>> /\ a \in Actors
  BY PayoutAssumption DEF CheckTx, chainVars
<1>3. task \in [Actors -> Task]
  BY TasksTyped DEF MoneyInv
<1>4. \A b \in Actors : task[b].op \in Settles => task'[b] = task[b]
  BY <1>1, <1>3 DEF Loads, Idle, NoTask, Settles
<1>5. req[k.id].state = "PENDING" =>
        \E b \in Actors : task'[b].id = k.id /\ task'[b].op \in Settles
  <2> SUFFICES ASSUME req[k.id].state = "PENDING"
               PROVE  \E b \in Actors : task'[b].id = k.id /\ task'[b].op \in Settles
    OBVIOUS
  <2> DEFINE op == IF k.ok THEN "complete" ELSE "fail"
             y == [op |-> op, id |-> k.id, obj |-> req[k.id], checked |-> FALSE]
  <2>1. op \in Settles
    BY DEF Settles
  <2>2. task' = [task EXCEPT ![a] = y]
    BY <1>1 DEF Loads
  <2> HIDE DEF op
  <2>3. y.id = k.id /\ y.op \in Settles
    BY <2>1
  <2> HIDE DEF y
  <2>4. task'[a] = y
    BY <1>2, <1>3, <2>2
  <2>5. QED
    BY <1>2, <2>3, <2>4
<1>6. QED
  BY <1>1, <1>2, <1>4, <1>5 DEF KeepsFollowing

(* What a worker sends takes the place of its own, earlier attempt or of   *)
(* one that is forgotten, and it is itself about to record it.             *)
LEMMA FollowSends ==
    ASSUME MoneyInv, FollowInv, NEW w \in Workers, Sends(w) PROVE FollowInv'
<1> DEFINE u == worker[w].tx
           x == [worker[w] EXCEPT !.step = "save"]
<1>1. /\ worker[w].step = "send" /\ Accepts(u) /\ pool' = (pool \ SameNonce(u)) \cup {u}
      /\ forgotten' = forgotten \cup Replaces(u)
      /\ WithdrawSteps(w, x) /\ UNCHANGED <<req, task, mined, scanned, checks>>
  BY DEF Sends, requestVars
<1>2. worker[w] \in Withdraw
  BY RunningWorker DEF MoneyInv
<1>3. x.step = "save" /\ x.id = worker[w].id /\ x.tx = u
  BY <1>2 DEF Withdraw
<1> HIDE DEF x
<1>4. worker'[w] = x /\ \A v \in Workers \ {w} : worker'[v] = worker[v]
  BY <1>1, OthersStay DEF MoneyInv
<1>5. u \in Tx /\ u.id = worker[w].id /\ u.id \in Requests /\ WorkerInv(w, u.id)
  <2>1. u \in Tx /\ u.id = worker[w].id
    BY <1>1, RunningWorker DEF MoneyInv, WithdrawOK
  <2>2. QED
    BY <2>1 DEF Tx, MoneyInv, RequestInv
<1>6. PendingIsFollowed'
  <2>1. SUFFICES ASSUME NEW r \in Requests \ forgotten', req'[r].state = "PENDING"
                 PROVE  \/ \E t \in req'[r].attempts : t \in pool'
                        \/ \E i \in (scanned' + 1) .. Len(mined') : mined'[i].tx \in req'[r].attempts
                        \/ \E k \in checks' : k.id = r
                        \/ \E a \in Actors : task'[a].id = r /\ task'[a].op \in Settles
                        \/ \E v \in Workers : worker'[v].step = "save" /\ worker'[v].id = r
    BY DEF PendingIsFollowed, Busy
  <2>2. CASE worker[w].id = r
    BY <1>3, <1>4, <2>2
  <2>3. CASE worker[w].id # r
    <3>1. \A t \in req[r].attempts : t.id = r
      BY DEF MoneyInv, PayoutInv, RowsOK, ObjectOK
    <3>2. \A t \in req[r].attempts : t \in pool => t \in pool'
      BY <1>1, <1>5, <2>1, <2>3, <3>1 DEF Replaces
    <3>3. \/ \E t \in req[r].attempts : t \in pool
          \/ \E i \in (scanned + 1) .. Len(mined) : mined[i].tx \in req[r].attempts
          \/ \E k \in checks : k.id = r
          \/ \E a \in Actors : task[a].id = r /\ task[a].op \in Settles
          \/ \E v \in Workers : worker[v].step = "save" /\ worker[v].id = r
      BY <1>1, <2>1 DEF FollowInv, PendingIsFollowed, Busy
    <3>4. QED
      BY <1>1, <1>4, <2>3, <3>2, <3>3
  <2>4. QED
    BY <2>2, <2>3
<1>7. ASSUME NEW v \in Workers, worker'[v].step = "save", worker'[v].id \notin forgotten'
      PROVE  worker'[v].tx \in Known' /\ \A i \in 1 .. scanned' : mined'[i].tx # worker'[v].tx
  <2>1. CASE v = w
    <3>1. u \in Known'
      BY <1>1 DEF Known
    <3>2. \A i \in 1 .. scanned : mined[i].tx # u
      <4> SUFFICES ASSUME NEW i \in 1 .. scanned, mined[i].tx = u PROVE FALSE
        OBVIOUS
      <4>1. scanned \in 0 .. Len(mined) /\ Len(mined) \in Nat
        BY Others DEF MoneyInv
      <4>2. i \in 1 .. Len(mined)
        BY <4>1
      <4>3. u.nonce = i - 1 /\ u.nonce >= Len(mined)
        BY <1>1, <4>2 DEF Accepts, MoneyInv, ChainInv
      <4>4. QED
        BY <4>1, <4>2, <4>3
    <3>3. QED
      BY <1>1, <1>3, <1>4, <2>1, <3>1, <3>2
  <2>2. CASE v # w
    <3> DEFINE t == worker[v].tx
    <3>1. worker'[v] = worker[v] /\ worker[v].step = "save" /\ worker[v].id \notin forgotten
      BY <1>1, <1>4, <1>7, <2>2
    <3>2. t \in Known /\ \A i \in 1 .. scanned : mined[i].tx # t
      BY <3>1 DEF FollowInv
    <3>3. t.id = worker[v].id /\ worker[v].id # u.id
      BY <1>5, <2>2, <3>1, RunningWorker DEF MoneyInv, WithdrawOK, WorkerInv
    <3>4. t \in pool => t \in pool'
      BY <1>1, <1>7, <3>1, <3>3 DEF Replaces
    <3>5. t \in Known'
      BY <1>1, <3>2, <3>4 DEF Known, Used
    <3>6. QED
      BY <1>1, <3>1, <3>2, <3>5
  <2>3. QED
    BY <2>1, <2>2
<1>8. QED
  BY <1>1, <1>6, <1>7 DEF FollowInv

(* A recorded attempt is pending, or in a block to come. *)
LEMMA FollowRecords ==
    ASSUME MoneyInv, FollowInv, NEW w \in Workers, SaveAttempt(w) PROVE FollowInv'
<1>0. PICK r \in Requests : worker[w].id = r
  BY AtAttempt DEF SaveAttempt
<1> DEFINE u == worker[w].tx
           sent == worker[w].obj.attempts \cup {u}
           x == [worker[w] EXCEPT !.step = "receipt"]
           z == [req[r] EXCEPT !.state = "PENDING", !.attempts = sent]
<1>1. worker[w].step = "save" /\ UNCHANGED <<task, pool, mined, scanned, checks, forgotten>>
  BY DEF SaveAttempt, chainVars
<1>2. worker[w] \in Withdraw /\ AttemptInv(worker[w], r, req[r]) /\ req[r] \in Row
  BY <1>0, <1>1, AtAttempt, AtRequest DEF WorkerInv
<1>3. /\ req' = [req EXCEPT ![r].state = "PENDING", ![r].attempts = sent]
      /\ WithdrawSteps(w, x)
  BY <1>0, <1>2 DEF SaveAttempt, AttemptInv
<1>4. x.step = "receipt"
  BY <1>2 DEF Withdraw
<1>5. worker'[w] = x /\ \A v \in Workers \ {w} : worker'[v] = worker[v]
  BY <1>3, OthersStay DEF MoneyInv
<1> HIDE DEF x
<1>6. u \in sent
  OBVIOUS
<1> HIDE DEF sent
<1>7. req' = [req EXCEPT ![r] = z]
  BY <1>3 DEF MoneyInv, PayoutInv, TypeOK, RequestTypeOK
<1>8. z.attempts = sent
  BY <1>2 DEF Row
<1> HIDE DEF z
<1>9. req'[r] = z /\ \A q \in Requests \ {r} : req'[q] = req[q]
  BY <1>7 DEF MoneyInv, PayoutInv, TypeOK, RequestTypeOK
<1>10. Known' = Known
  BY <1>1 DEF Known, Used
<1>11. r \notin forgotten => u \in pool \/ \E i \in (scanned + 1) .. Len(mined) : mined[i].tx = u
  <2> SUFFICES ASSUME r \notin forgotten
               PROVE  u \in pool \/ \E i \in (scanned + 1) .. Len(mined) : mined[i].tx = u
    OBVIOUS
  <2>1. u \in Known /\ \A i \in 1 .. scanned : mined[i].tx # u
    BY <1>0, <1>1 DEF FollowInv
  <2>2. scanned \in Nat /\ Len(mined) \in Nat
    BY Others DEF MoneyInv
  <2>3. CASE u \in pool
    BY <2>3
  <2>4. CASE u \in Used
    <3>1. PICK i \in 1 .. Len(mined) : mined[i].tx = u
      BY <2>4 DEF Used
    <3>2. i \in (scanned + 1) .. Len(mined)
      BY <2>1, <2>2, <3>1
    <3>3. QED
      BY <3>1, <3>2
  <2>5. QED
    BY <2>1, <2>3, <2>4 DEF Known
<1>12. PendingIsFollowed'
  <2>1. SUFFICES ASSUME NEW q \in Requests \ forgotten', req'[q].state = "PENDING"
                 PROVE  \/ \E t \in req'[q].attempts : t \in pool'
                        \/ \E i \in (scanned' + 1) .. Len(mined') : mined'[i].tx \in req'[q].attempts
                        \/ \E k \in checks' : k.id = q
                        \/ \E a \in Actors : task'[a].id = q /\ task'[a].op \in Settles
                        \/ \E v \in Workers : worker'[v].step = "save" /\ worker'[v].id = q
    BY DEF PendingIsFollowed, Busy
  <2>2. CASE q = r
    BY <1>1, <1>6, <1>8, <1>9, <1>11, <2>1, <2>2
  <2>3. CASE q # r
    <3>1. \/ \E t \in req[q].attempts : t \in pool
          \/ \E i \in (scanned + 1) .. Len(mined) : mined[i].tx \in req[q].attempts
          \/ \E k \in checks : k.id = q
          \/ \E a \in Actors : task[a].id = q /\ task[a].op \in Settles
          \/ \E v \in Workers : worker[v].step = "save" /\ worker[v].id = q
      BY <1>1, <1>9, <2>1, <2>3 DEF FollowInv, PendingIsFollowed, Busy
    <3>2. QED
      BY <1>0, <1>1, <1>5, <1>9, <2>3, <3>1
  <2>4. QED
    BY <2>2, <2>3
<1>13. \A q \in Requests : req'[q].state = "PENDING" => q \notin TooSmall
  BY <1>2, <1>9 DEF FollowInv, AttemptInv
<1>14. ASSUME NEW v \in Workers, worker'[v].step = "save", worker'[v].id \notin forgotten'
       PROVE  worker'[v].tx \in Known' /\ \A i \in 1 .. scanned' : mined'[i].tx # worker'[v].tx
  BY <1>1, <1>4, <1>5, <1>10, <1>14 DEF FollowInv
<1>15. QED
  BY <1>12, <1>13, <1>14 DEF FollowInv

LEMMA FollowMines ==
    ASSUME MoneyInv, FollowInv, Mine PROVE FollowInv'
<1>1. PICK u \in pool, ok \in BOOLEAN :
        /\ u \in Tx /\ u.nonce = Len(mined)
        /\ pool' = pool \ SameNonce(u)
        /\ Len(mined) \in Nat /\ Len(mined') = Len(mined) + 1
        /\ mined'[Len(mined) + 1] = [tx |-> u, ok |-> ok]
        /\ \A i \in 1 .. Len(mined) : mined'[i] = mined[i]
  BY MinesOne DEF MoneyInv
<1>2. UNCHANGED <<req, task, scanned, worker, checks, forgotten>>
  BY DEF Mine, requestVars, payoutVars
<1>3. scanned \in 0 .. Len(mined) /\ scanned \in Nat
  BY Others DEF MoneyInv
<1>4. \A t \in pool : t = u \/ t \in pool'
  BY <1>1 DEF MoneyInv, ChainInv, SameNonce
<1>5. mined'[Len(mined')].tx = u /\ Len(mined') \in (scanned + 1) .. Len(mined')
  BY <1>1, <1>3
<1>6. \A i \in (scanned + 1) .. Len(mined) : i \in (scanned + 1) .. Len(mined') /\ mined'[i] = mined[i]
  BY <1>1, <1>3
<1>7. PendingIsFollowed'
  <2>1. SUFFICES ASSUME NEW r \in Requests \ forgotten', req'[r].state = "PENDING"
                 PROVE  \/ \E t \in req'[r].attempts : t \in pool'
                        \/ \E i \in (scanned' + 1) .. Len(mined') : mined'[i].tx \in req'[r].attempts
                        \/ \E k \in checks' : k.id = r
                        \/ \E a \in Actors : task'[a].id = r /\ task'[a].op \in Settles
                        \/ \E v \in Workers : worker'[v].step = "save" /\ worker'[v].id = r
    BY DEF PendingIsFollowed, Busy
  <2>2. \/ \E t \in req[r].attempts : t \in pool
        \/ \E i \in (scanned + 1) .. Len(mined) : mined[i].tx \in req[r].attempts
        \/ \E k \in checks : k.id = r
        \/ \E a \in Actors : task[a].id = r /\ task[a].op \in Settles
        \/ \E v \in Workers : worker[v].step = "save" /\ worker[v].id = r
    BY <1>2, <2>1 DEF FollowInv, PendingIsFollowed, Busy
  <2>3. CASE \E t \in req[r].attempts : t \in pool
    <3>1. u \in req[r].attempts \/ \E t \in req[r].attempts : t \in pool'
      BY <1>4, <2>3
    <3>2. QED
      BY <1>2, <1>5, <3>1
  <2>4. CASE \E i \in (scanned + 1) .. Len(mined) : mined[i].tx \in req[r].attempts
    BY <1>2, <1>6, <2>4
  <2>5. QED
    BY <1>2, <2>2, <2>3, <2>4
<1>8. ASSUME NEW v \in Workers, worker'[v].step = "save", worker'[v].id \notin forgotten'
      PROVE  worker'[v].tx \in Known' /\ \A i \in 1 .. scanned' : mined'[i].tx # worker'[v].tx
  <2>1. /\ worker[v].tx \in Known /\ worker'[v] = worker[v]
        /\ \A i \in 1 .. scanned : mined[i].tx # worker[v].tx
    BY <1>2, <1>8 DEF FollowInv
  <2>2. worker[v].tx \in Known'
    <3>1. CASE worker[v].tx \in pool
      <4>1. (worker[v].tx = u \/ worker[v].tx \in pool') /\ Len(mined') \in 1 .. Len(mined')
        BY <1>1, <1>4, <3>1
      <4>2. QED
        BY <1>5, <4>1 DEF Known, Used
    <3>2. CASE worker[v].tx \in Used
      <4>1. PICK i \in 1 .. Len(mined) : mined[i].tx = worker[v].tx
        BY <3>2 DEF Used
      <4>2. i \in 1 .. Len(mined') /\ mined'[i] = mined[i]
        BY <1>1, <4>1
      <4>3. QED
        BY <4>1, <4>2 DEF Known, Used
    <3>3. QED
      BY <2>1, <3>1, <3>2 DEF Known
  <2>3. \A i \in 1 .. scanned : mined'[i] = mined[i]
    BY <1>1, <1>3
  <2>4. QED
    BY <1>2, <2>1, <2>2, <2>3
<1>9. QED
  BY <1>2, <1>7, <1>8 DEF FollowInv

(* The scanner turns a block into a check. *)
LEMMA FollowScans ==
    ASSUME "scan" \notin Races, MoneyInv, FollowInv, Scan PROVE FollowInv'
<1>1. PICK i \in {scanned, scanned + 1} \cap (1 .. Len(mined)) :
        /\ \A w \in Workers : worker[w].step = "save" => worker[w].tx # mined[i].tx
        /\ checks' = checks \cup {[id |-> r, ok |-> mined[i].ok] : r \in Awaiting(mined[i].tx)}
        /\ scanned' = i
  BY DEF Scan
<1>2. UNCHANGED <<req, task, pool, mined, worker, forgotten>>
  BY DEF Scan, requestVars
<1>3. scanned \in Nat /\ Len(mined) \in Nat
  BY Others DEF MoneyInv
<1>4. PendingIsFollowed'
  <2>1. SUFFICES ASSUME NEW r \in Requests \ forgotten', req'[r].state = "PENDING"
                 PROVE  \/ \E t \in req'[r].attempts : t \in pool'
                        \/ \E j \in (scanned' + 1) .. Len(mined') : mined'[j].tx \in req'[r].attempts
                        \/ \E k \in checks' : k.id = r
                        \/ \E a \in Actors : task'[a].id = r /\ task'[a].op \in Settles
                        \/ \E v \in Workers : worker'[v].step = "save" /\ worker'[v].id = r
    BY DEF PendingIsFollowed, Busy
  <2>2. \/ \E t \in req[r].attempts : t \in pool
        \/ \E j \in (scanned + 1) .. Len(mined) : mined[j].tx \in req[r].attempts
        \/ \E k \in checks : k.id = r
        \/ \E a \in Actors : task[a].id = r /\ task[a].op \in Settles
        \/ \E v \in Workers : worker[v].step = "save" /\ worker[v].id = r
    BY <1>2, <2>1 DEF FollowInv, PendingIsFollowed, Busy
  <2>3. CASE \E j \in (scanned + 1) .. Len(mined) : mined[j].tx \in req[r].attempts
    <3>1. PICK j \in (scanned + 1) .. Len(mined) : mined[j].tx \in req[r].attempts
      BY <2>3
    <3>2. CASE j = i
      <4>1. req[r].state = "PENDING" /\ InPayout(r)
        BY <1>2, <2>1 DEF InPayout
      <4>2. r \in Awaiting(mined[i].tx)
        BY <3>1, <3>2, <4>1 DEF Awaiting, MoneyInv, RequestInv, RowInv
      <4>3. [id |-> r, ok |-> mined[i].ok] \in checks'
        BY <1>1, <4>2
      <4>4. QED
        BY <4>3
    <3>3. CASE j # i
      <4>1. j \in (i + 1) .. Len(mined)
        BY <1>1, <1>3, <3>1, <3>3
      <4>2. QED
        BY <1>1, <1>2, <3>1, <4>1
    <3>4. QED
      BY <3>2, <3>3
  <2>4. QED
    BY <1>1, <1>2, <2>2, <2>3
<1>5. ASSUME NEW v \in Workers, worker'[v].step = "save", worker'[v].id \notin forgotten'
      PROVE  worker'[v].tx \in Known' /\ \A j \in 1 .. scanned' : mined'[j].tx # worker'[v].tx
  <2>1. Known' = Known
    BY <1>2 DEF Known, Used
  <2>2. \A j \in 1 .. i : j \in 1 .. scanned \/ j = i
    BY <1>1, <1>3
  <2>3. QED
    BY <1>1, <1>2, <1>5, <2>1, <2>2 DEF FollowInv
<1>6. QED
  BY <1>2, <1>4, <1>5 DEF FollowInv

(* A check or a settlement that is lost is noted as forgotten.             *)
LEMMA FollowLoses ==
    ASSUME MoneyInv, CheckLost \/ \E a \in Actors : SettleDies(a) PROVE KeepsFollowing
<1>1. CASE CheckLost
  BY <1>1 DEF CheckLost, KeepsFollowing, requestVars, chainVars
<1>2. CASE \E a \in Actors : SettleDies(a)
  <2>1. PICK a \in Actors : SettleDies(a)
    BY <1>2
  <2>2. /\ UNCHANGED <<req, pool, mined, scanned, checks, worker>>
        /\ task' = [task EXCEPT ![a] = NoTask] /\ forgotten' = forgotten \cup {task[a].id}
    BY <2>1 DEF SettleDies, Ends, chainVars
  <2>3. \A b \in Actors : b = a \/ task'[b] = task[b]
    BY <2>2, TasksTyped DEF MoneyInv
  <2>4. QED
    BY <2>2, <2>3 DEF KeepsFollowing
<1>3. QED
  BY <1>1, <1>2

LEMMA FollowStart == Init => FollowInv
<1> SUFFICES ASSUME Init PROVE FollowInv
  OBVIOUS
<1>1. \A r \in Requests : req[r].state = "NONE"
  BY DEF Init, RequestInit, NoRow
<1>2. \A w \in Workers : worker[w].step = "idle"
  BY DEF Init, NoWithdraw
<1>3. QED
  BY <1>1, <1>2 DEF FollowInv, PendingIsFollowed

LEMMA FollowNext ==
    ASSUME Races = {}, MoneyInv, FollowInv, [Next]_vars PROVE FollowInv'
<1>1. CASE \E w \in Workers : PayoutWorker(w) \/ Crash(w)
  <2>1. PICK w \in Workers : PayoutWorker(w) \/ Crash(w)
    BY <1>1
  <2>2. CASE Sends(w)
    BY <2>2, FollowSends
  <2>3. CASE SaveAttempt(w)
    BY <2>3, FollowRecords
  <2>4. CASE ~Sends(w) /\ ~SaveAttempt(w)
    BY <2>1, <2>4, FollowWorks, FollowsOn DEF PayoutWorker
  <2>5. QED
    BY <2>2, <2>3, <2>4
<1>2. CASE Mine \/ Scan
  BY <1>2, FollowMines, FollowScans
<1>3. CASE \/ CreateRequest \/ ExpireRequest \/ BeginHandler \/ \E a \in Actors : RunHandler(a)
           \/ ProcessPayouts \/ LockExpires \/ (\E a \in Checkers : CheckTx(a)) \/ UNCHANGED vars
           \/ CheckLost \/ \E a \in Actors : SettleDies(a)
  <2>1. KeepsFollowing
    BY <1>3, FollowCreates, FollowBegins, FollowHandles, FollowChecks, FollowLoses
  <2>2. QED
    BY <2>1, FollowsOn
<1>4. QED
  BY <1>1, <1>2, <1>3 DEF Next, Quiescent

(* With none of these races, a request that was sent is followed until its *)
(* check is lost, or the process that checks or settles it dies, or        *)
(* another withdrawal's transaction takes the place of its own: a recorded *)
(* transaction of it may still be mined or scanned, or its check or its    *)
(* settlement is on its way (check_tx_withdrawal, fail, complete), or a    *)
(* worker is about to record one.                                          *)
THEOREM PendingIsFollowedAlways ==
    ASSUME Races = {} PROVE Spec => []PendingIsFollowed
<1> DEFINE I == MoneyInv /\ FollowInv
<1>1. Init => I
  BY MoneyStart, FollowStart
<1>2. I /\ [Next]_vars => I'
  BY MoneyNext, FollowNext
<1>3. I => PendingIsFollowed
  BY DEF FollowInv
<1>4. QED
  BY <1>1, <1>2, <1>3, PTL DEF Spec

-----------------------------------------------------------------------------
(***************************************************************************)
(* Theorems of BtcPayouts: payouts on two chains keep the one promise.     *)
(***************************************************************************)

-----------------------------------------------------------------------------
(* Only a run that has outputs in hand pays requests.                      *)

LEMMA TotalIsSum == ASSUME NEW S PROVE Total(S) = SumFunctionOnSet(Amount, S)
  BY DEF Total, MapThenSumSet, MapThenFoldSet, SumFunctionOnSet, FoldFunctionOnSet

(* No outputs are worth nothing. *)
LEMMA NothingInHand == ValueOf({}) = 0
<1> DEFINE v(s) == (CHOOSE x \in s : TRUE).value
           step(g) == [s \in SUBSET {} |-> IF s = {} THEN 0 ELSE v(s) + g[s \ {CHOOSE x \in s : TRUE}]]
           h == CHOOSE g : g = step(g)
           z == [s \in SUBSET {} |-> 0]
<1>1. ValueOf({}) = h[{}]
  BY DEF ValueOf, MapThenSumSet, MapThenFoldSet
<1>2. z = step(z)
  OBVIOUS
<1>3. h = step(h)
  BY <1>2
<1>4. h[{}] = step(h)[{}]
  BY <1>3
<1>5. QED
  BY <1>1, <1>4

LEMMA AmountsAdd ==
    ASSUME NEW S \in SUBSET Elsewhere, S # {} PROVE Total(S) > 0
<1>1. IsFiniteSet(S) /\ \A r \in S : Amount[r] \in Nat /\ Amount[r] > 0
  <2>1. \A r \in Elsewhere : Amount[r] \in Nat /\ Amount[r] > WithdrawalFee /\ WithdrawalFee \in Nat
    BY WithdrawalAssumption, PayoutAssumption, BtcAssumption
  <2>2. IsFiniteSet(S)
    BY BtcAssumption, FS_Subset
  <2>3. QED
    BY <2>1, <2>2
<1> DEFINE c == Chosen(S)
           U == S \ {c}
<1>2. c \in S /\ IsFiniteSet(U) /\ \A r \in U : Amount[r] \in Nat
  BY <1>1, ChosenIn, FS_Subset
<1>3. SumFunctionOnSet(Amount, S) = Amount[c] + SumFunctionOnSet(Amount, U)
  BY <1>1, SumOfChosen
<1> HIDE DEF c, U
<1>4. SumFunctionOnSet(Amount, U) \in Nat
  BY <1>2, SumIsNat
<1>5. QED
  BY <1>1, <1>2, <1>3, <1>4, TotalIsSum

(* The requests a run selects are not taken by a handler, and none is      *)
(* selected without an output.                                             *)
LEMMA Selected ==
    ASSUME NEW c \in Clerks, NEW S \in Sufficient(ValueOf(clerk[c].inputs)), S # {}
    PROVE  /\ clerk[c].inputs # {} /\ S \subseteq Elsewhere
           /\ \A r \in S : req[r].state = "CREATED" /\ req[r].approved /\ req[r].confirmed
<1>1. S \subseteq BtcToProcess /\ Total(S) <= ValueOf(clerk[c].inputs)
  BY DEF Sufficient
<1>2. S \in SUBSET Elsewhere /\ \A r \in S : req[r].state = "CREATED" /\ req[r].approved /\ req[r].confirmed
  BY <1>1 DEF BtcToProcess
<1>3. ASSUME clerk[c].inputs = {} PROVE FALSE
  <2>1. Total(S) <= 0
    BY <1>1, <1>3, NothingInHand
  <2>2. Total(S) > 0 /\ Total(S) \in Int
    <3>1. \A r \in S : Amount[r] \in Int
      BY <1>2, WithdrawalAssumption, PayoutAssumption
    <3>2. IsFiniteSet(S)
      BY <1>2, BtcAssumption, FS_Subset
    <3>3. QED
      BY <1>2, <3>1, <3>2, AmountsAdd, TotalIsSum, SumIsInt
  <2>3. QED
    BY <2>1, <2>2
<1>4. QED
  BY <1>2, <1>3

-----------------------------------------------------------------------------
(* The steps of the EVM part beside the runs.                              *)

LEMMA EvmIsNext == ASSUME EvmNext PROVE [Next]_vars
  BY DEF EvmNext, BeginAnyHandler, Next

LEMMA NobodyComes ==
    ASSUME "cancel" \notin Races, MoneyInv, EvmNext, NEW r \in Elsewhere, InBatch(r),
           \A a \in Actors : task[a].id # r
    PROVE  \A a \in Actors : task'[a].id # r
<1> SUFFICES ASSUME NEW a \in Actors, task'[a].id = r PROVE FALSE
  OBVIOUS
<1>1. HereAt(r) /\ r # "none"
  BY PayoutAssumption, WithdrawalAssumption DEF MoneyInv, HereInv
<1>2. CASE BeginAnyHandler
  BY <1>2 DEF BeginAnyHandler
<1>3. CASE NextButBegin
  <2>1. CASE task'[a] = task[a] \/ task'[a] = NoTask \/ Continues(a)
    BY <1>1, <2>1 DEF NoTask, Continues
  <2>2. CASE \E q \in Requests : Starts(a, "fail", q) /\ payouts[q] > 0
    BY <1>1, <2>2 DEF Starts, HereAt
  <2>3. CASE \E c \in checks, op \in Settles : Starts(a, op, c.id)
    BY <1>1, <2>3 DEF Starts, HereAt
  <2>4. QED
    BY <1>3, <2>1, <2>2, <2>3, OtherTasksMove DEF MoneyInv
<1>4. QED
  BY <1>2, <1>3 DEF EvmNext, Quiescent, NextButBegin

(* What a run has in hand stays as it is. *)
LEMMA TakenStays ==
    ASSUME "cancel" \notin Races, MoneyInv, EvmNext, NEW c \in Clerks, UNCHANGED clerk,
           NEW r \in Elsewhere, r \in clerk[c].left, Taken(clerk[c], r)
    PROVE  Taken(clerk[c], r)' /\ transaction'[r] = transaction[r]
<1>1. r \in Requests /\ HereAt(r) /\ InBatch(r)
  BY PayoutAssumption DEF MoneyInv, HereInv, InBatch
<1>2. \A a \in Actors : task'[a].id # r
  BY <1>1, NobodyComes DEF Taken
<1>3. req'[r] = req[r] /\ transaction'[r] = transaction[r]
  BY <1>1, EvmIsNext, RowMoves DEF Taken, Rewrites, MoneyInv
<1>4. QED
  BY <1>2, <1>3 DEF Taken

(* No handler takes a completed row back. *)
LEMMA CompletedStays ==
    ASSUME MoneyInv, [Next]_vars, NEW r \in Elsewhere, req[r].state = "COMPLETED"
    PROVE  req'[r].state = "COMPLETED"
<1>1. r \in Requests /\ HereAt(r) /\ req \in [Requests -> Row] /\ req[r] \in Row
  BY PayoutAssumption DEF MoneyInv, HereInv, PayoutInv, TypeOK, RequestTypeOK
<1>2. ASSUME NEW a \in Actors, Rewrites(a, r) PROVE req'[r].state = "COMPLETED"
  <2> DEFINE t == task[a]
  <2>1. t.id = r /\ t.op \notin Settles /\ HandlerInv(a, r)
    BY <1>1, <1>2 DEF Rewrites, HereAt, MoneyInv, RequestInv
  <2>2. CASE Confirm(a)
    BY <1>1, <2>1, <2>2 DEF Confirm, Row
  <2>3. CASE AdminSave(a)
    <3> DEFINE x == Changed(t.op, t.obj)
    <3>1. /\ t.op \in AdminSaves /\ t.obj = req[r] /\ t.op # "disable_user"
          /\ \/ UNCHANGED req
             \/ Allowed(t.op, t.obj) /\ req' = [req EXCEPT ![r] = x]
      BY <2>1, <2>3 DEF AdminSave, HandlerInv, FullSaves
    <3>2. Allowed(t.op, t.obj) => x.state = "COMPLETED"
      BY <1>1, <3>1 DEF Allowed, Changed, AdminSaves, Row
    <3> HIDE DEF x
    <3>3. QED
      BY <1>1, <3>1, <3>2
  <2>4. CASE GiveBack(a)
    <3>1. t.op \in Cancels /\ ~ChangesState(t)
      BY <2>1, <2>4 DEF GiveBack, Settles, ChangesState
    <3>2. QED
      BY <2>4, <3>1 DEF GiveBack
  <2>5. QED
    BY <1>2, <2>2, <2>3, <2>4 DEF Rewrites
<1>3. QED
  BY <1>1, <1>2, RowMoves DEF MoneyInv

LEMMA EvmKeeps ==
    ASSUME Races \subseteq {"scan"}, BtcInv, EvmNext, UNCHANGED btcVars PROVE BtcInv'
<1>1. MoneyInv /\ [Next]_vars /\ MoneyInv'
  BY EvmIsNext, MoneyNext DEF BtcInv
<1>2. UNCHANGED <<unspent, paidBatches, clerk>>
  BY DEF btcVars
<1>3. RunTypeOK'
  BY <1>2 DEF BtcInv, RunTypeOK
<1>4. \A r : PaidAt(r)' = PaidAt(r)
  BY <1>2 DEF PaidAt
<1>5. ASSUME NEW c \in Clerks PROVE ClerkInv(c)'
  <2>1. ClerkInv(c)
    BY DEF BtcInv
  <2>2. ASSUME NEW r \in Elsewhere, r \in clerk[c].left, Taken(clerk[c], r) PROVE Taken(clerk[c], r)'
    BY <1>1, <1>2, <2>2, TakenStays
  <2>3. clerk[c].step = "send" \/ Settling(c) => clerk[c].left \subseteq Elsewhere
    BY <2>1 DEF ClerkInv, Settling, Started
  <2>4. (\A d \in Clerks : Settling(d)' <=> Settling(d)) /\ clerk'[c] = clerk[c]
    BY <1>2 DEF Settling
  <2>5. clerk[c].step = "send" /\ unspent # {} =>
            \A r \in clerk[c].left : Taken(clerk[c], r)' /\ PaidAt(r)' = {}
    BY <1>4, <2>1, <2>2, <2>3 DEF ClerkInv
  <2>6. Settling(c) => \A r \in clerk[c].left : Taken(clerk[c], r)' /\ PaidAt(r)' # {}
    BY <1>4, <2>1, <2>2, <2>3 DEF ClerkInv
  <2>7. QED
    BY <1>2, <2>1, <2>4, <2>5, <2>6 DEF ClerkInv
<1>6. ASSUME NEW r \in Requests PROVE PaidOnceInv(r)'
  <2>1. PaidOnceInv(r)
    BY DEF BtcInv
  <2>2. r \in Elsewhere /\ req[r].state = "COMPLETED" => req'[r].state = "COMPLETED"
    BY <1>1, CompletedStays
  <2>3. QED
    BY <1>2, <1>4, <2>1, <2>2 DEF PaidOnceInv, Settling
<1>7. QED
  BY <1>1, <1>3, <1>5, <1>6 DEF BtcInv

-----------------------------------------------------------------------------
(* The steps of the runs.                                                  *)

(* The fields of a run. *)
Fields(x, s, i, l, a, o) ==
    IsRun(x) /\ x.step = s /\ x.inputs = i /\ x.left = l /\ x.at = a /\ x.obj = o

LEMMA SetsStep ==
    ASSUME NEW x, IsRun(x), NEW s
    PROVE  Fields([x EXCEPT !.step = s], s, x.inputs, x.left, x.at, x.obj)
  BY DEF Fields, IsRun

LEMMA SetsInputs ==
    ASSUME NEW x, IsRun(x), NEW s, NEW i
    PROVE  Fields([x EXCEPT !.step = s, !.inputs = i], s, i, x.left, x.at, x.obj)
<1> DEFINE S == {s, i, x.step, x.inputs, x.left, x.at, x.obj}
           R == [step : S, inputs : S, left : S, at : S, obj : S]
<1>1. PICK y : y = [x EXCEPT !.step = s, !.inputs = i]
  OBVIOUS
<1>2. x \in R
  BY DEF IsRun
<1>3. y \in R /\ y.step = s /\ y.inputs = i /\ y.left = x.left /\ y.at = x.at /\ y.obj = x.obj
  BY <1>1, <1>2
<1>4. IsRun(y)
  BY <1>3 DEF IsRun
<1>5. QED
  BY <1>1, <1>3, <1>4 DEF Fields

LEMMA SetsAt ==
    ASSUME NEW x, IsRun(x), NEW s, NEW a
    PROVE  Fields([x EXCEPT !.step = s, !.at = a], s, x.inputs, x.left, a, x.obj)
<1> DEFINE S == {s, a, x.step, x.inputs, x.left, x.at, x.obj}
           R == [step : S, inputs : S, left : S, at : S, obj : S]
<1>1. PICK y : y = [x EXCEPT !.step = s, !.at = a]
  OBVIOUS
<1>2. x \in R
  BY DEF IsRun
<1>3. y \in R /\ y.step = s /\ y.inputs = x.inputs /\ y.left = x.left /\ y.at = a /\ y.obj = x.obj
  BY <1>1, <1>2
<1>4. IsRun(y)
  BY <1>3 DEF IsRun
<1>5. QED
  BY <1>1, <1>3, <1>4 DEF Fields

LEMMA SetsLeft ==
    ASSUME NEW x, IsRun(x), NEW s, NEW l, NEW o
    PROVE  Fields([x EXCEPT !.step = s, !.left = l, !.obj = o], s, x.inputs, l, x.at, o)
<1> DEFINE S == {s, l, o, x.step, x.inputs, x.left, x.at, x.obj}
           R == [step : S, inputs : S, left : S, at : S, obj : S]
<1>1. PICK y : y = [x EXCEPT !.step = s, !.left = l, !.obj = o]
  OBVIOUS
<1>2. x \in R
  BY DEF IsRun
<1>3. y \in R /\ y.step = s /\ y.inputs = x.inputs /\ y.left = l /\ y.at = x.at /\ y.obj = o
  BY <1>1, <1>2
<1>4. IsRun(y)
  BY <1>3 DEF IsRun
<1>5. QED
  BY <1>1, <1>3, <1>4 DEF Fields

LEMMA SetsNext ==
    ASSUME NEW x, IsRun(x), NEW s, NEW l, NEW a, NEW r, NEW n
    PROVE  Fields([x EXCEPT !.step = s, !.left = l, !.at = a, !.obj[r] = n],
                  s, x.inputs, l, a, [x.obj EXCEPT ![r] = n])
<1> DEFINE o == [x.obj EXCEPT ![r] = n]
           S == {s, l, a, o, x.step, x.inputs, x.left, x.at, x.obj}
           R == [step : S, inputs : S, left : S, at : S, obj : S]
<1>1. PICK y : y = [x EXCEPT !.step = s, !.left = l, !.at = a, !.obj[r] = n]
  OBVIOUS
<1>2. y = [x EXCEPT !.step = s, !.left = l, !.at = a, !.obj = o]
  BY <1>1
<1> HIDE DEF o
<1>3. x \in R
  BY DEF IsRun
<1>4. y \in R /\ y.step = s /\ y.inputs = x.inputs /\ y.left = l /\ y.at = a /\ y.obj = o
  BY <1>2, <1>3
<1>5. IsRun(y)
  BY <1>4 DEF IsRun
<1>6. QED
  BY <1>1, <1>4, <1>5 DEF Fields, o

LEMMA StutterKeepsMoney ==
    ASSUME Races \subseteq {"scan"}, MoneyInv, UNCHANGED vars PROVE MoneyInv'
  BY MoneyNext

(* A run takes the step to x. *)
LEMMA RunSteps ==
    ASSUME RunTypeOK, NEW c \in Clerks, NEW x, Runs(c, x), IsRun(x), x.obj \in [Elsewhere -> Row],
           x.step \in {"idle", "select"} \cup Started, paidBatches' \in Seq(SUBSET Elsewhere)
    PROVE  /\ RunTypeOK' /\ clerk'[c] = x
           /\ \A d \in Clerks \ {c} : clerk'[d] = clerk[d]
<1>1. DOMAIN clerk = Clerks /\ clerk' = [clerk EXCEPT ![c] = x]
  BY DEF RunTypeOK, Runs
<1>2. clerk'[c] = x /\ \A d \in Clerks \ {c} : clerk'[d] = clerk[d]
  BY <1>1
<1>3. DOMAIN clerk' = Clerks /\ clerk' = [d \in Clerks |-> clerk'[d]]
  BY <1>1
<1>4. ASSUME NEW d \in Clerks
      PROVE  /\ IsRun(clerk'[d]) /\ clerk'[d].obj \in [Elsewhere -> Row]
             /\ clerk'[d].step \in {"idle", "select"} \cup Started
  <2>1. CASE d = c
    BY <1>2, <2>1
  <2>2. CASE d # c
    <3>1. IsRun(clerk[d]) /\ clerk[d].obj \in [Elsewhere -> Row]
          /\ clerk[d].step \in {"idle", "select"} \cup Started
      BY DEF RunTypeOK
    <3>2. QED
      BY <1>2, <2>2, <3>1
  <2>3. QED
    BY <2>1, <2>2
<1>5. RunTypeOK'
  BY <1>3, <1>4 DEF RunTypeOK, IsRun
<1>6. QED
  BY <1>2, <1>5

(* A run takes a step by which no request is sent or completed. *)
LEMMA RunGoesOn ==
    ASSUME BtcInv, MoneyInv', RunTypeOK', NEW c \in Clerks,
           \A d \in Clerks \ {c} : clerk'[d] = clerk[d],
           UNCHANGED <<req, task, unspent, paidBatches>>,
           Settling(c)' <=> Settling(c), Settling(c) => clerk'[c].left = clerk[c].left,
           ClerkInv(c)'
    PROVE  BtcInv'
<1>1. \A r : PaidAt(r)' = PaidAt(r)
  BY DEF PaidAt
<1>2. \A d \in Clerks : Settling(d)' <=> Settling(d)
  BY DEF Settling
<1>3. ASSUME NEW d \in Clerks \ {c} PROVE ClerkInv(d)'
  <2>1. ClerkInv(d) /\ clerk'[d] = clerk[d]
    BY DEF BtcInv
  <2>2. \A r : Taken(clerk[d], r)' <=> Taken(clerk[d], r)
    BY <2>1 DEF Taken
  <2>3. QED
    BY <1>1, <1>2, <2>1, <2>2 DEF ClerkInv
<1>4. ASSUME NEW r \in Requests PROVE PaidOnceInv(r)'
  <2>1. PaidOnceInv(r)
    BY DEF BtcInv
  <2>2. ASSUME NEW d \in Clerks, Settling(d), r \in clerk[d].left
        PROVE  Settling(d)' /\ r \in clerk'[d].left
    BY <1>2, <2>2
  <2>3. QED
    BY <1>1, <2>1, <2>2 DEF PaidOnceInv
<1>5. QED
  BY <1>3, <1>4 DEF BtcInv

LEMMA RunEnds ==
    ASSUME BtcInv, MoneyInv', NEW c \in Clerks, ~Settling(c), Runs(c, NoRun),
           UNCHANGED <<req, task, unspent, paidBatches>>
    PROVE  BtcInv'
<1>1. IsRun(NoRun) /\ NoRun.obj \in [Elsewhere -> Row]
  BY EmptyIsTyped DEF IsRun, NoRun
<1>2. RunTypeOK' /\ clerk'[c] = NoRun /\ \A d \in Clerks \ {c} : clerk'[d] = clerk[d]
  BY <1>1, RunSteps DEF BtcInv, RunTypeOK, NoRun
<1>3. ~Settling(c)' /\ ClerkInv(c)'
  BY <1>2 DEF Settling, ClerkInv, NoRun, Started
<1>4. QED
  BY <1>2, <1>3, RunGoesOn

LEMMA ReadsKeeper ==
    ASSUME Races \subseteq {"scan"}, BtcInv, NEW c \in Clerks, ReadKeeper(c) PROVE BtcInv'
<1> DEFINE x == [NoRun EXCEPT !.step = "select", !.inputs = unspent]
<1>1. IsRun(NoRun) /\ NoRun.obj \in [Elsewhere -> Row]
  BY EmptyIsTyped DEF IsRun, NoRun
<1>2. Runs(c, x) /\ clerk[c].step = "idle" /\ UNCHANGED <<vars, unspent, paidBatches>>
  BY DEF ReadKeeper
<1>3. MoneyInv' /\ UNCHANGED <<req, task>>
  BY <1>2, StutterKeepsMoney DEF BtcInv, vars, requestVars
<1>4. Fields(x, "select", unspent, NoRun.left, NoRun.at, NoRun.obj)
  BY <1>1, SetsInputs
<1> HIDE DEF x
<1>5. RunTypeOK' /\ clerk'[c] = x /\ \A d \in Clerks \ {c} : clerk'[d] = clerk[d]
  BY <1>1, <1>2, <1>4, RunSteps DEF BtcInv, RunTypeOK, Fields
<1>6. ~Settling(c) /\ ~Settling(c)'
  BY <1>2, <1>4, <1>5 DEF Settling, Fields
<1>7. ClerkInv(c)'
  BY <1>2, <1>4, <1>5, <1>6 DEF ClerkInv, Started, Fields
<1>8. QED
  BY <1>2, <1>3, <1>5, <1>6, <1>7, RunGoesOn

(* No open request is paid while there are outputs to pay it with. *)
LEMMA OpenAreUnpaid ==
    ASSUME BtcInv, unspent # {}, NEW r \in Requests, req[r].state = "CREATED" PROVE PaidAt(r) = {}
<1>1. PaidOnceInv(r) /\ \A c \in Clerks : ~Settling(c)
  BY DEF BtcInv, ClerkInv
<1>2. QED
  BY <1>1 DEF PaidOnceInv

LEMMA NobodyAt ==
    ASSUME MoneyInv, NEW r \in Requests, ~Busy(r, Ops) PROVE \A a \in Actors : task[a].id # r
  BY AtRequest DEF Busy, Task

LEMMA Selects ==
    ASSUME Races \subseteq {"scan"}, BtcInv, NEW c \in Clerks, SelectRequests(c) PROVE BtcInv'
<1>1. PICK S \in Sufficient(ValueOf(clerk[c].inputs)) :
        /\ clerk[c].step = "select"
        /\ "cancel" \in Races \/ \A r \in S : ~Busy(r, Ops)
        /\ Runs(c, IF S = {} THEN NoRun
                   ELSE [clerk[c] EXCEPT !.step = "send", !.left = S,
                             !.obj = [r \in Elsewhere |-> IF r \in S THEN req[r] ELSE NoRow]])
        /\ UNCHANGED <<vars, unspent, coins, batches, paidBatches>>
  BY DEF SelectRequests
<1>2. MoneyInv' /\ UNCHANGED <<req, task>> /\ ~Settling(c)
  BY <1>1, StutterKeepsMoney DEF BtcInv, vars, requestVars, Settling
<1>3. CASE S = {}
  BY <1>1, <1>2, <1>3, RunEnds
<1>4. CASE S # {}
  <2> DEFINE o == [r \in Elsewhere |-> IF r \in S THEN req[r] ELSE NoRow]
             x == [clerk[c] EXCEPT !.step = "send", !.left = S, !.obj = o]
  <2>1. IsRun(clerk[c]) /\ clerk[c].obj \in [Elsewhere -> Row] /\ req \in [Requests -> Row]
    BY DEF BtcInv, RunTypeOK, MoneyInv, PayoutInv, TypeOK, RequestTypeOK
  <2>2. Fields(x, "send", clerk[c].inputs, S, clerk[c].at, o)
    BY <2>1, SetsLeft
  <2>3. o \in [Elsewhere -> Row]
    BY <2>1, EmptyIsTyped, PayoutAssumption
  <2>4. \A r \in Elsewhere : r \in S => o[r] = req[r]
    OBVIOUS
  <2>5. Runs(c, x)
    BY <1>1, <1>4
  <2> HIDE DEF o, x
  <2>6. IsRun(x) /\ x.step = "send" /\ x.left = S /\ x.obj = o /\ x.inputs = clerk[c].inputs
    BY <2>2 DEF Fields
  <2>7. RunTypeOK' /\ clerk'[c] = x /\ \A d \in Clerks \ {c} : clerk'[d] = clerk[d]
    BY <1>1, <2>3, <2>5, <2>6, RunSteps DEF BtcInv, RunTypeOK, Started
  <2>8. /\ clerk[c].inputs # {} /\ S \subseteq Elsewhere
        /\ \A r \in S : req[r].state = "CREATED" /\ req[r].approved /\ req[r].confirmed
    BY <1>4, Selected
  <2>9. ~Settling(c)' /\ ClerkInv(c)
    BY <2>6, <2>7 DEF Settling, BtcInv
  <2>10. ASSUME NEW r \in S, unspent # {} PROVE Taken(x, r) /\ PaidAt(r) = {}
    <3>1. r \in Requests /\ r \in Elsewhere
      BY <2>8, PayoutAssumption
    <3>2. \A a \in Actors : task[a].id # r
      BY <1>1, <3>1, NobodyAt DEF BtcInv
    <3>3. PaidAt(r) = {}
      BY <2>8, <2>10, <3>1, OpenAreUnpaid
    <3>4. QED
      BY <2>4, <2>6, <2>8, <3>1, <3>2, <3>3 DEF Taken
  <2>11. ASSUME NEW r \in S
         PROVE  (Taken(clerk[c], r)' <=> Taken(x, r)) /\ PaidAt(r)' = PaidAt(r)
    BY <1>1, <1>2, <2>7 DEF Taken, PaidAt
  <2>12. unspent' # {} => \A r \in S : Taken(clerk[c], r)' /\ PaidAt(r)' = {}
    BY <1>1, <2>10, <2>11
  <2>13. clerk'[c].step = "send" /\ clerk'[c].left = S /\ clerk'[c].inputs = clerk[c].inputs
    BY <2>6, <2>7
  <2>14. ClerkInv(c)'
    <3>1. unspent' \in {clerk'[c].inputs, {}} /\ clerk'[c].inputs # {}
      BY <1>1, <2>8, <2>9, <2>13 DEF ClerkInv
    <3>2. clerk'[c].left # {} /\ clerk'[c].left \subseteq Elsewhere
      BY <1>4, <2>8, <2>13
    <3>3. \A r \in clerk'[c].left : unspent' # {} => Taken(clerk[c], r)' /\ PaidAt(r)' = {}
      BY <2>12, <2>13
    <3>4. QED
      BY <2>9, <2>13, <3>1, <3>2, <3>3 DEF ClerkInv
  <2>15. QED
    BY <1>1, <1>2, <2>7, <2>9, <2>14, RunGoesOn
<1>5. QED
  BY <1>3, <1>4

(* What a run that settles knows of its requests. *)
LEMMA AtSettling ==
    ASSUME BtcInv, NEW c \in Clerks, Settling(c)
    PROVE  /\ clerk[c].inputs # {} /\ clerk[c].left # {} /\ clerk[c].left \subseteq Elsewhere
           /\ unspent = {} /\ \A d \in Clerks \ {c} : ~Settling(d)
           /\ \A r \in clerk[c].left : Taken(clerk[c], r) /\ PaidAt(r) # {}
           /\ clerk[c].step \in {"assert", "complete"} => clerk[c].at \in clerk[c].left
           /\ clerk[c].step \in Started
  BY DEF BtcInv, ClerkInv, Settling, Started

(* A run that settles goes on with the same requests in hand. *)
LEMMA SettlingGoesOn ==
    ASSUME Races \subseteq {"scan"}, BtcInv, UNCHANGED <<vars, unspent, paidBatches>>,
           NEW c \in Clerks, Settling(c), NEW x, Runs(c, x), IsRun(x), x.obj = clerk[c].obj,
           x.left = clerk[c].left, x.inputs = clerk[c].inputs,
           x.step \in {"save", "assert", "complete"},
           x.step \in {"assert", "complete"} => x.at \in x.left
    PROVE  BtcInv'
<1>1. MoneyInv' /\ UNCHANGED <<req, task>>
  BY StutterKeepsMoney DEF BtcInv, vars, requestVars
<1>2. RunTypeOK' /\ clerk'[c] = x /\ \A d \in Clerks \ {c} : clerk'[d] = clerk[d]
  BY RunSteps DEF BtcInv, RunTypeOK, Started
<1>3. Settling(c)' /\ \A d \in Clerks \ {c} : ~Settling(d)'
  BY <1>2, AtSettling DEF Settling
<1>4. ASSUME NEW r \in x.left PROVE Taken(clerk[c], r)' /\ PaidAt(r)' # {}
  <2>1. Taken(clerk[c], r) /\ PaidAt(r) # {}
    BY AtSettling
  <2>2. QED
    BY <1>1, <1>2, <2>1 DEF Taken, PaidAt
<1>5. ClerkInv(c)'
  <2>1. clerk'[c].inputs # {} /\ clerk'[c].left # {} /\ clerk'[c].left \subseteq Elsewhere
        /\ unspent' = {} /\ clerk'[c].step \in {"save", "assert", "complete"}
    BY <1>2, AtSettling
  <2>2. \A r \in clerk'[c].left : Taken(clerk[c], r)' /\ PaidAt(r)' # {}
    BY <1>2, <1>4
  <2>3. clerk'[c].step \in {"assert", "complete"} => clerk'[c].at \in clerk'[c].left
    BY <1>2
  <2>4. QED
    BY <1>3, <2>1, <2>2, <2>3 DEF ClerkInv
<1>6. QED
  BY <1>1, <1>2, <1>3, <1>5, RunGoesOn

LEMMA Saves ==
    ASSUME Races \subseteq {"scan"}, BtcInv, NEW c \in Clerks, SaveItem(c) 
    PROVE  BtcInv' /\ UNCHANGED vars
<1>1. PICK r \in clerk[c].left :
        /\ clerk[c].step = "save"
        /\ req' = [req EXCEPT ![r] = clerk[c].obj[r]]
        /\ Runs(c, [clerk[c] EXCEPT !.step = "assert", !.at = r])
        /\ UNCHANGED <<transaction, account, expired, task, chainVars, payoutVars,
                       unspent, coins, batches, paidBatches>>
  <2>1. "crash" \notin Races
    OBVIOUS
  <2>2. QED
    BY <2>1 DEF SaveItem
<1> DEFINE x == [clerk[c] EXCEPT !.step = "assert", !.at = r]
<1>2. Settling(c) /\ IsRun(clerk[c])
  BY <1>1 DEF Settling, BtcInv, RunTypeOK
<1>3. Fields(x, "assert", clerk[c].inputs, clerk[c].left, r, clerk[c].obj)
  BY <1>2, SetsAt
<1> HIDE DEF x
<1>4. Runs(c, x)
  BY <1>1 DEF x
<1>5. clerk[c].obj[r] = req[r] /\ req \in [Requests -> Row]
  BY <1>1, <1>2, AtSettling DEF Taken, BtcInv, MoneyInv, PayoutInv, TypeOK, RequestTypeOK
<1>6. req' = req
  BY <1>1, <1>5
<1>7. UNCHANGED vars
  BY <1>1, <1>6 DEF vars, requestVars
<1>8. IsRun(x) /\ x.obj = clerk[c].obj /\ x.left = clerk[c].left /\ x.inputs = clerk[c].inputs
      /\ x.step = "assert" /\ x.at = r
  BY <1>3 DEF Fields
<1>9. UNCHANGED <<vars, unspent, paidBatches>>
  BY <1>1, <1>7
<1>10. BtcInv'
  BY <1>1, <1>2, <1>4, <1>8, <1>9, SettlingGoesOn
<1>11. QED
  BY <1>7, <1>10

LEMMA Asserts ==
    ASSUME Races \subseteq {"scan"}, BtcInv, NEW c \in Clerks, AssertItem(c) PROVE BtcInv'
<1> DEFINE r == clerk[c].at
           x == [clerk[c] EXCEPT !.step = "complete"]
<1>1. Settling(c) /\ IsRun(clerk[c])
  BY DEF AssertItem, Settling, BtcInv, RunTypeOK
<1>2. r \in clerk[c].left /\ clerk[c].left \subseteq Elsewhere /\ Taken(clerk[c], r)
  BY <1>1, AtSettling DEF AssertItem
<1>3. transaction[r] = "PENDING"
  <2>1. RowInv(r) /\ req[r].state = "CREATED"
    BY <1>2, PayoutAssumption DEF BtcInv, MoneyInv, RequestInv, Taken
  <2>2. QED
    BY <2>1 DEF RowInv, MoneyOf
<1>4. Runs(c, x) /\ UNCHANGED <<vars, unspent, paidBatches>>
  BY <1>3 DEF AssertItem
<1>5. Fields(x, "complete", clerk[c].inputs, clerk[c].left, r, clerk[c].obj)
  BY <1>1, SetsStep
<1> HIDE DEF x
<1>6. IsRun(x) /\ x.obj = clerk[c].obj /\ x.left = clerk[c].left /\ x.inputs = clerk[c].inputs
      /\ x.step = "complete" /\ x.at = r
  BY <1>5 DEF Fields
<1>7. QED
  BY <1>1, <1>2, <1>4, <1>6, SettlingGoesOn

LEMMA Dies ==
    ASSUME Races \subseteq {"scan"}, BtcInv, NEW c \in Clerks, ClerkDies(c) PROVE BtcInv'
<1>1. /\ ~Settling(c) /\ Runs(c, NoRun) /\ crashes' = crashes + 1
      /\ UNCHANGED <<requestVars, chainVars, payouts, worker, checks, forgotten, unspent, paidBatches>>
  <2>1. "crash" \notin Races
    OBVIOUS
  <2>2. QED
    BY <2>1 DEF ClerkDies
<1>2. UNCHANGED <<req, transaction, task, payouts, worker, pool, mined, checks>>
  BY <1>1 DEF requestVars, chainVars
<1>3. PayoutInv'
  <2>1. PayoutInv /\ crashes' \in Nat
    BY <1>1 DEF BtcInv, MoneyInv, PayoutInv, TypeOK
  <2>2. QED
    BY <1>1, <2>1 DEF PayoutInv, TypeOK, RequestTypeOK, RowsOK, TasksOK, TaskOK, ObjectOK, WithdrawsOK,
       WithdrawOK, ChecksOK, requestVars, chainVars
<1>4. HereInv' /\ ChainInv'
  BY <1>2 DEF BtcInv, MoneyInv, HereInv, HereAt, Sent, Known, Used, ChainInv
<1>5. MoneyInv'
  BY <1>2, <1>3, <1>4, MoneyUnchanged DEF BtcInv, MoneyInv, MoneyKept
<1>6. QED
  BY <1>1, <1>2, <1>5, RunEnds

(* Only the keeper's outputs change. *)
LEMMA RunsStay ==
    ASSUME Races \subseteq {"scan"}, BtcInv, UNCHANGED <<vars, paidBatches, clerk>>,
           \A c \in Clerks : ClerkInv(c)'
    PROVE  BtcInv'
<1>1. MoneyInv' /\ UNCHANGED req
  BY StutterKeepsMoney DEF BtcInv, vars, requestVars
<1>2. RunTypeOK'
  BY DEF BtcInv, RunTypeOK
<1>3. ASSUME NEW r \in Requests PROVE PaidOnceInv(r)'
  <2>1. PaidOnceInv(r) /\ PaidAt(r)' = PaidAt(r)
    BY DEF BtcInv, PaidAt
  <2>2. \A c \in Clerks : Settling(c)' <=> Settling(c)
    BY DEF Settling
  <2>3. QED
    BY <1>1, <2>1, <2>2 DEF PaidOnceInv
<1>4. QED
  BY <1>1, <1>2, <1>3 DEF BtcInv

(* The keeper gets an output only while no run has any in hand. *)
LEMMA KeeperGets ==
    ASSUME Races \subseteq {"scan"}, BtcInv, MineBatch \/ KeeperReceives PROVE BtcInv'
<1>1. UNCHANGED <<vars, paidBatches, clerk>> /\ \A c \in Clerks : clerk[c].inputs = {}
  <2>1. "twice" \notin Races
    OBVIOUS
  <2>2. QED
    BY <2>1 DEF MineBatch, KeeperReceives, Confirms
<1>2. ASSUME NEW c \in Clerks PROVE clerk[c].step \notin Started
  BY <1>1 DEF BtcInv, ClerkInv
<1>3. ASSUME NEW c \in Clerks PROVE ClerkInv(c)'
  <2>1. clerk'[c].inputs = {} /\ clerk'[c].step \notin Started
    BY <1>1, <1>2
  <2>2. QED
    BY <2>1 DEF ClerkInv, Settling, Started
<1>4. QED
  BY <1>1, <1>3, RunsStay

LEMMA NothingMoves ==
    ASSUME Races \subseteq {"scan"}, BtcInv, UNCHANGED allVars PROVE BtcInv'
<1>1. UNCHANGED <<vars, unspent, paidBatches, clerk, req, task>>
  BY DEF allVars, btcVars, vars, requestVars
<1>2. ASSUME NEW c \in Clerks PROVE ClerkInv(c)'
  <2>1. ClerkInv(c)
    BY DEF BtcInv
  <2>2. \A r : (Taken(clerk[c], r)' <=> Taken(clerk[c], r)) /\ PaidAt(r)' = PaidAt(r)
    BY <1>1 DEF Taken, PaidAt
  <2>3. \A d \in Clerks : Settling(d)' <=> Settling(d)
    BY <1>1 DEF Settling
  <2>4. QED
    BY <1>1, <2>1, <2>2, <2>3 DEF ClerkInv
<1>3. QED
  BY <1>1, <1>2, RunsStay

(* A run's transaction that the node takes: it spends all the keeper has,  *)
(* so that no other run can send, and none is at requests that were sent.  *)
SendsBatch(c) ==
    /\ clerk[c].step = "send" /\ clerk[c].inputs \subseteq unspent
    /\ unspent' = unspent \ clerk[c].inputs
    /\ paidBatches' = Append(paidBatches, clerk[c].left)
    /\ Runs(c, [clerk[c] EXCEPT !.step = "save"])
    /\ UNCHANGED vars

LEMMA MaySend ==
    ASSUME BtcInv, NEW c \in Clerks, SendsBatch(c)
    PROVE  /\ unspent # {} /\ unspent' = {} /\ clerk[c].inputs # {}
           /\ clerk[c].left # {} /\ clerk[c].left \subseteq Elsewhere
           /\ \A d \in Clerks : ~Settling(d)
           /\ \A r \in clerk[c].left : Taken(clerk[c], r) /\ PaidAt(r) = {}
<1>1. ClerkInv(c) /\ clerk[c].step = "send" /\ clerk[c].step \in Started
  BY DEF SendsBatch, BtcInv, Started
<1>2. clerk[c].inputs # {} /\ clerk[c].left # {} /\ clerk[c].left \subseteq Elsewhere
  BY <1>1 DEF ClerkInv
<1>3. unspent = clerk[c].inputs
  BY <1>1, <1>2 DEF ClerkInv, SendsBatch
<1>4. unspent # {} /\ unspent' = {}
  BY <1>2, <1>3 DEF SendsBatch
<1>5. \A d \in Clerks : ~Settling(d)
  BY <1>4 DEF BtcInv, ClerkInv
<1>6. \A r \in clerk[c].left : Taken(clerk[c], r) /\ PaidAt(r) = {}
  BY <1>1, <1>4 DEF ClerkInv
<1>7. QED
  BY <1>2, <1>4, <1>5, <1>6

(* Whom it pays. *)
LEMMA PaysBatch ==
    ASSUME BtcInv, NEW c \in Clerks, SendsBatch(c)
    PROVE  /\ paidBatches' \in Seq(SUBSET Elsewhere)
           /\ \E n \in Nat : \A r \in clerk[c].left : PaidAt(r)' = {n}
           /\ \A r : r \notin clerk[c].left => PaidAt(r)' = PaidAt(r)
<1> DEFINE n == Len(paidBatches) + 1
           L == clerk[c].left
<1>1. paidBatches \in Seq(SUBSET Elsewhere) /\ L \in SUBSET Elsewhere /\ \A r \in L : PaidAt(r) = {}
  BY MaySend DEF BtcInv, RunTypeOK
<1> HIDE DEF L
<1>2. paidBatches' = Append(paidBatches, L)
  BY DEF SendsBatch, L
<1>3. /\ Len(paidBatches) \in Nat /\ n \in Nat /\ n # 0
      /\ paidBatches' \in Seq(SUBSET Elsewhere)
      /\ DOMAIN paidBatches = 1 .. Len(paidBatches)
      /\ DOMAIN paidBatches' = 1 .. n /\ paidBatches'[n] = L
      /\ \A i \in 1 .. Len(paidBatches) : paidBatches'[i] = paidBatches[i]
  BY <1>1, <1>2
<1>4. \A i : i \in 1 .. n <=> i \in 1 .. Len(paidBatches) \/ i = n
  BY <1>3
<1>5. n \notin 1 .. Len(paidBatches)
  BY <1>3
<1> HIDE DEF n
<1>6. ASSUME NEW r \in L PROVE PaidAt(r)' = {n}
  <2>1. \A i \in 1 .. Len(paidBatches) : r \notin paidBatches[i]
    BY <1>1, <1>3 DEF PaidAt
  <2>2. QED
    BY <1>3, <1>4, <2>1 DEF PaidAt
<1>7. ASSUME NEW r, r \notin L PROVE PaidAt(r)' = PaidAt(r)
  BY <1>3, <1>4, <1>5, <1>7 DEF PaidAt
<1>8. QED
  BY <1>3, <1>6, <1>7 DEF L

LEMMA BatchSent ==
    ASSUME Races \subseteq {"scan"}, BtcInv, NEW c \in Clerks, SendsBatch(c) PROVE BtcInv'
<1> DEFINE x == [clerk[c] EXCEPT !.step = "save"]
           L == clerk[c].left
<1>1. MoneyInv' /\ UNCHANGED <<req, task>> /\ Runs(c, x)
  BY StutterKeepsMoney DEF SendsBatch, BtcInv, vars, requestVars
<1>2. IsRun(clerk[c]) /\ clerk[c].obj \in [Elsewhere -> Row]
  BY DEF BtcInv, RunTypeOK
<1>3. Fields(x, "save", clerk[c].inputs, L, clerk[c].at, clerk[c].obj)
  BY <1>2, SetsStep
<1> HIDE DEF x
<1>4. RunTypeOK' /\ clerk'[c] = x /\ \A d \in Clerks \ {c} : clerk'[d] = clerk[d]
  BY <1>1, <1>2, <1>3, PaysBatch, RunSteps DEF BtcInv, Started, Fields
<1>5. /\ clerk'[c].step = "save" /\ clerk'[c].left = L /\ clerk'[c].inputs = clerk[c].inputs
      /\ clerk'[c].obj = clerk[c].obj
  BY <1>3, <1>4 DEF Fields
<1>6. Settling(c)' /\ \A d \in Clerks \ {c} : ~Settling(d)'
  BY <1>4, <1>5, MaySend DEF Settling
<1>7. ASSUME NEW r \in L PROVE Taken(clerk[c], r)' /\ PaidAt(r)' # {}
  <2>1. Taken(clerk[c], r)
    BY MaySend
  <2>2. QED
    BY <1>1, <1>5, <2>1, PaysBatch DEF Taken
<1>8. ClerkInv(c)'
  <2>1. \A r \in clerk'[c].left : Taken(clerk[c], r)' /\ PaidAt(r)' # {}
    BY <1>5, <1>7
  <2>2. clerk'[c].inputs # {} /\ clerk'[c].left # {} /\ clerk'[c].left \subseteq Elsewhere /\ unspent' = {}
    BY <1>5, MaySend
  <2>3. QED
    BY <1>5, <1>6, <2>1, <2>2 DEF ClerkInv
<1>9. ASSUME NEW d \in Clerks \ {c} PROVE ClerkInv(d)'
  <2>1. ClerkInv(d) /\ ~Settling(d) /\ unspent' = {} /\ clerk'[d] = clerk[d]
    BY <1>4, MaySend DEF BtcInv
  <2>2. ~Settling(d)'
    BY <1>6
  <2>3. clerk[d].step \notin {"assert", "complete"}
    BY <2>1 DEF Settling
  <2>4. QED
    BY <2>1, <2>2, <2>3 DEF ClerkInv
<1>10. ASSUME NEW r \in Requests PROVE PaidOnceInv(r)'
  <2>1. CASE r \in L
    BY <1>5, <1>6, <2>1, MaySend, PaysBatch DEF PaidOnceInv
  <2>2. CASE r \notin L
    <3>1. PaidOnceInv(r) /\ PaidAt(r)' = PaidAt(r) /\ req'[r] = req[r]
      BY <1>1, <2>2, PaysBatch DEF BtcInv
    <3>2. QED
      BY <3>1, MaySend DEF PaidOnceInv
  <2>3. QED
    BY <2>1, <2>2
<1>11. QED
  BY <1>1, <1>4, <1>8, <1>9, <1>10 DEF BtcInv

LEMMA SendMoves ==
    ASSUME NEW c \in Clerks, SendFromKeeper(c)
    PROVE  \/ SendsBatch(c)
           \/ /\ ~Settling(c) /\ Runs(c, NoRun)
              /\ UNCHANGED <<vars, unspent, paidBatches>>
<1>1. clerk[c].step = "send" /\ ~Settling(c) /\ UNCHANGED vars
  BY DEF SendFromKeeper, Settling
<1>2. CASE Change(c) < 0 \/ ~(clerk[c].inputs \subseteq unspent)
  BY <1>1, <1>2 DEF SendFromKeeper
<1>3. CASE ~(Change(c) < 0 \/ ~(clerk[c].inputs \subseteq unspent))
  BY <1>1, <1>3 DEF SendFromKeeper, SendsBatch
<1>4. QED
  BY <1>2, <1>3

LEMMA SendKeeps ==
    ASSUME Races \subseteq {"scan"}, BtcInv, NEW c \in Clerks, SendFromKeeper(c) PROVE BtcInv'
<1>1. CASE SendsBatch(c)
  BY <1>1, BatchSent
<1>2. CASE ~Settling(c) /\ Runs(c, NoRun) /\ UNCHANGED <<vars, unspent, paidBatches>>
  <2>1. MoneyInv' /\ UNCHANGED <<req, task>>
    BY <1>2, StutterKeepsMoney DEF BtcInv, vars, requestVars
  <2>2. QED
    BY <1>2, <2>1, RunEnds
<1>3. QED
  BY <1>1, <1>2, SendMoves

(* The row a run completes, and nothing of the EVM part is at it. *)
Finishes(c, r, x) ==
    /\ r \in Elsewhere /\ Taken(clerk[c], r) /\ PaidAt(r) # {}
    /\ x \in Row /\ x.state = "COMPLETED" /\ x.attempts = req[r].attempts
    /\ x.approved /\ x.confirmed
    /\ req' = [req EXCEPT ![r] = x] /\ transaction' = [transaction EXCEPT ![r] = "COMPLETED"]
    /\ UNCHANGED <<account, expired, task, chainVars, payoutVars, unspent, paidBatches>>

LEMMA MayFinish ==
    ASSUME BtcInv, NEW c \in Clerks, CompletesRow(c)
    PROVE  /\ Settling(c) /\ clerk[c].at \in clerk[c].left
           /\ \E x : Finishes(c, clerk[c].at, x)
<1> DEFINE r == clerk[c].at
           x == [clerk[c].obj[r] EXCEPT !.state = "COMPLETED"]
<1>1. Settling(c) /\ clerk[c].step = "complete"
  BY DEF CompletesRow, Settling
<1>2. r \in clerk[c].left /\ r \in Elsewhere /\ Taken(clerk[c], r) /\ PaidAt(r) # {}
  BY <1>1, AtSettling
<1>3. req[r] \in Row /\ clerk[c].obj[r] = req[r] /\ req[r].approved /\ req[r].confirmed
  BY <1>2, PayoutAssumption DEF Taken, BtcInv, MoneyInv, PayoutInv, TypeOK, RequestTypeOK
<1>4. /\ x \in Row /\ x.state = "COMPLETED" /\ x.attempts = req[r].attempts
      /\ x.approved /\ x.confirmed
  BY <1>3 DEF Row, States
<1>5. req' = [req EXCEPT ![r] = x]
  BY DEF CompletesRow
<1> HIDE DEF x
<1>6. Finishes(c, r, x)
  BY <1>2, <1>4, <1>5 DEF CompletesRow, Finishes
<1>7. QED
  BY <1>1, <1>2, <1>6

LEMMA FinishKeepsPayouts ==
    ASSUME BtcInv, NEW c \in Clerks, NEW r, NEW x, Finishes(c, r, x) PROVE PayoutInv'
<1>1. r \in Elsewhere /\ r \in Requests
  BY PayoutAssumption DEF Finishes
<1>2. PayoutInv /\ HereAt(r) /\ NonceInv(r) /\ RowInv(r) /\ RowsOK(mined, req)
  BY <1>1 DEF BtcInv, MoneyInv, HereInv, RequestInv, PayoutInv
<1>3. UNCHANGED mined
  BY DEF Finishes, chainVars
<1>4. ObjectOK(mined, r, x)
  BY <1>1, <1>2 DEF Finishes, ObjectOK, RowsOK
<1>5. req' \in [Requests -> Row] /\ RowsOK(mined', req')
  BY <1>1, <1>2, <1>3, <1>4 DEF Finishes, PayoutInv, TypeOK, RequestTypeOK, RowsOK
<1>6. RequestTypeOK'
  BY <1>1, <1>2, <1>5 DEF Finishes, PayoutInv, TypeOK, RequestTypeOK
<1>7. TasksOK(mined', task') /\ ChainOK' /\ PayoutsOK'
  BY <1>2, <1>3, InvParts, ChainUnchanged, PayoutsUnchanged DEF Finishes, RequestsOK, TasksOK, TaskOK, ObjectOK
<1>8. QED
  BY <1>5, <1>6, <1>7 DEF PayoutInv, TypeOK, ChainOK, PayoutsOK

LEMMA FinishKeepsMoney ==
    ASSUME BtcInv, NEW c \in Clerks, NEW r, NEW x, Finishes(c, r, x) PROVE MoneyInv'
<1>1. r \in Elsewhere /\ r \in Requests
  BY PayoutAssumption DEF Finishes
<1>2. MoneyInv /\ PayoutInv' /\ HereAt(r) /\ req \in [Requests -> Row]
      /\ transaction \in [Requests -> {"NONE", "PENDING", "COMPLETED", "CANCELED"}]
  BY <1>1, FinishKeepsPayouts DEF BtcInv, MoneyInv, HereInv, PayoutInv, TypeOK, RequestTypeOK
<1>3. UNCHANGED <<task, payouts, worker, pool, mined, checks>>
  BY DEF Finishes, chainVars, payoutVars
<1>4. HereInv' /\ ChainInv' /\ IdleInv'
  BY <1>2, <1>3 DEF MoneyInv, HereInv, HereAt, Sent, Known, Used, ChainInv, IdleInv
<1>5. ASSUME NEW q \in Requests \ {r} PROVE RequestInv(q)'
  <2>1. Calm(q)
    BY <1>2, <1>3, AtRequest DEF Finishes, Calm, Known, Used
  <2>2. QED
    BY <1>2, <2>1, CalmStays
<1>6. RequestInv(r)'
  <2>1. req'[r] = x /\ x.state = "COMPLETED" /\ x.approved /\ x.confirmed /\ transaction'[r] = "COMPLETED"
    BY <1>1, <1>2 DEF Finishes
  <2>2. HereAt(r)' /\ payouts'[r] = 0 /\ ~Sent(r)'
    BY <1>1, <1>4 DEF HereInv, HereAt
  <2>3. (\A w \in Workers : worker'[w].id # r) /\ \A k \in checks' : k.id # r
    BY <2>2 DEF HereAt
  <2>4. \A a \in Actors : task'[a].id # r
    BY <1>3 DEF Finishes, Taken
  <2>5. RowInv(r)'
    BY <2>1, <2>2 DEF RowInv, MoneyOf
  <2>6. QueueInv(r)' /\ CheckInv(r)'
    BY <2>2, <2>3 DEF QueueInv, CheckInv
  <2>7. NonceInv(r)'
    BY <2>2 DEF NonceInv, Sent
  <2>8. QED
    BY <2>3, <2>4, <2>5, <2>6, <2>7 DEF RequestInv
<1>7. QED
  BY <1>2, <1>4, <1>5, <1>6 DEF MoneyInv

(* After a run has completed a request it goes on with the others. *)
LEMMA LeftAfter ==
    ASSUME BtcInv, NEW c \in Clerks, CompleteItem(c)
    PROVE  /\ RunTypeOK' /\ \A d \in Clerks \ {c} : clerk'[d] = clerk[d]
           /\ \/ clerk[c].left = {clerk[c].at} /\ clerk'[c] = NoRun
              \/ /\ clerk'[c].step = "save" /\ clerk'[c].inputs = clerk[c].inputs
                 /\ clerk'[c].left = clerk[c].left \ {clerk[c].at} /\ clerk'[c].left # {}
                 /\ \A q \in clerk'[c].left : clerk'[c].obj[q] = clerk[c].obj[q]
<1> DEFINE r == clerk[c].at
           left == clerk[c].left \ {r}
           o == [clerk[c].obj EXCEPT ![r] = NoRow]
           x == [clerk[c] EXCEPT !.step = "save", !.left = left, !.at = "none", !.obj[r] = NoRow]
<1>1. Settling(c) /\ r \in clerk[c].left /\ clerk[c].left \subseteq Elsewhere
  BY MayFinish, AtSettling DEF CompleteItem
<1>2. IsRun(clerk[c]) /\ clerk[c].obj \in [Elsewhere -> Row] /\ paidBatches' \in Seq(SUBSET Elsewhere)
  BY DEF BtcInv, RunTypeOK, CompleteItem, CompletesRow
<1>3. CASE left = {}
  <2>1. IsRun(NoRun) /\ NoRun.obj \in [Elsewhere -> Row] /\ NoRun.step = "idle"
    BY EmptyIsTyped DEF IsRun, NoRun
  <2>2. Runs(c, NoRun)
    BY <1>3 DEF CompleteItem
  <2>3. RunTypeOK' /\ clerk'[c] = NoRun /\ \A d \in Clerks \ {c} : clerk'[d] = clerk[d]
    BY <1>2, <2>1, <2>2, RunSteps DEF BtcInv
  <2>4. QED
    BY <1>1, <1>3, <2>3
<1>4. CASE left # {}
  <2>1. Runs(c, x)
    BY <1>4 DEF CompleteItem
  <2>2. Fields(x, "save", clerk[c].inputs, left, "none", o)
    BY <1>2, SetsNext
  <2>3. o \in [Elsewhere -> Row] /\ \A q \in left : o[q] = clerk[c].obj[q]
    BY <1>1, <1>2, EmptyIsTyped
  <2> HIDE DEF x, o, left
  <2>4. RunTypeOK' /\ clerk'[c] = x /\ \A d \in Clerks \ {c} : clerk'[d] = clerk[d]
    BY <1>2, <2>1, <2>2, <2>3, RunSteps DEF BtcInv, Fields, Started
  <2>5. /\ clerk'[c].step = "save" /\ clerk'[c].inputs = clerk[c].inputs
        /\ clerk'[c].left = left /\ clerk'[c].obj = o
    BY <2>2, <2>4 DEF Fields
  <2>6. QED
    BY <1>4, <2>3, <2>4, <2>5 DEF left
<1>5. QED
  BY <1>3, <1>4

LEMMA Completes ==
    ASSUME BtcInv, NEW c \in Clerks, CompleteItem(c) PROVE BtcInv'
<1> DEFINE r == clerk[c].at
           L == clerk[c].left
<1>1. Settling(c) /\ r \in L /\ CompletesRow(c)
  BY MayFinish DEF CompleteItem
<1>2. PICK x : Finishes(c, r, x)
  BY <1>1, MayFinish
<1>3. MoneyInv' /\ RunTypeOK' /\ \A d \in Clerks \ {c} : clerk'[d] = clerk[d]
  BY <1>2, FinishKeepsMoney, LeftAfter
<1>4. /\ unspent = {} /\ unspent' = {} /\ UNCHANGED <<task, paidBatches>>
      /\ \A d \in Clerks \ {c} : ~Settling(d)
      /\ L \subseteq Elsewhere /\ clerk[c].inputs # {}
  BY <1>1, <1>2, AtSettling DEF Finishes
<1>5. \A q : PaidAt(q)' = PaidAt(q)
  BY <1>4 DEF PaidAt
<1>6. /\ req'[r].state = "COMPLETED"
      /\ \A q \in Requests \ {r} : req'[q] = req[q]
  BY <1>2, PayoutAssumption DEF Finishes, BtcInv, MoneyInv, PayoutInv, TypeOK, RequestTypeOK
<1>7. \A d \in Clerks \ {c} : ~Settling(d)'
  BY <1>3, <1>4 DEF Settling
<1>8. ASSUME NEW d \in Clerks \ {c} PROVE ClerkInv(d)'
  <2>1. ClerkInv(d) /\ ~Settling(d) /\ clerk'[d] = clerk[d]
    BY <1>3, <1>4 DEF BtcInv
  <2>2. clerk[d].step \notin {"assert", "complete"} /\ ~Settling(d)'
    BY <1>7, <2>1 DEF Settling
  <2>3. QED
    BY <1>4, <2>1, <2>2 DEF ClerkInv
<1>9. CASE L = {r} /\ clerk'[c] = NoRun
  <2>1. ClerkInv(c)'
    BY <1>9 DEF ClerkInv, Settling, NoRun, Started
  <2>2. ASSUME NEW q \in Requests PROVE PaidOnceInv(q)'
    <3>1. PaidOnceInv(q)
      BY DEF BtcInv
    <3>2. PaidAt(q) # {} => req'[q].state = "COMPLETED"
      BY <1>4, <1>6, <1>9, <3>1 DEF PaidOnceInv
    <3>3. QED
      BY <1>5, <3>1, <3>2 DEF PaidOnceInv
  <2>3. QED
    BY <1>3, <1>8, <2>1, <2>2 DEF BtcInv
<1>10. CASE /\ clerk'[c].step = "save" /\ clerk'[c].inputs = clerk[c].inputs
            /\ clerk'[c].left = L \ {r} /\ clerk'[c].left # {}
            /\ \A q \in clerk'[c].left : clerk'[c].obj[q] = clerk[c].obj[q]
  <2>1. Settling(c)'
    BY <1>10 DEF Settling
  <2>2. ASSUME NEW q \in clerk'[c].left PROVE Taken(clerk[c], q)' /\ PaidAt(q)' # {}
    <3>1. q \in L /\ q # r /\ q \in Requests /\ clerk'[c].obj[q] = clerk[c].obj[q]
      BY <1>4, <1>10, PayoutAssumption
    <3>2. Taken(clerk[c], q) /\ PaidAt(q) # {}
      BY <1>1, <3>1, AtSettling
    <3>3. req'[q] = req[q] /\ UNCHANGED task
      BY <1>4, <1>6, <3>1
    <3>4. QED
      BY <1>5, <3>1, <3>2, <3>3 DEF Taken
  <2>3. clerk'[c].left \subseteq Elsewhere
    BY <1>4, <1>10
  <2>4. ClerkInv(c)'
    BY <1>4, <1>7, <1>10, <2>2, <2>3 DEF ClerkInv
  <2>5. ASSUME NEW q \in Requests PROVE PaidOnceInv(q)'
    <3>1. PaidOnceInv(q)
      BY DEF BtcInv
    <3>2. PaidAt(q) # {} =>
              req'[q].state = "COMPLETED" \/ (Settling(c)' /\ q \in clerk'[c].left)
      BY <1>4, <1>6, <1>10, <2>1, <3>1 DEF PaidOnceInv
    <3>3. QED
      BY <1>5, <3>1, <3>2 DEF PaidOnceInv
  <2>6. QED
    BY <1>3, <1>8, <2>4, <2>5 DEF BtcInv
<1>11. QED
  BY <1>9, <1>10, LeftAfter

-----------------------------------------------------------------------------
LEMMA BtcStart == BtcInit => BtcInv
<1> SUFFICES ASSUME BtcInit PROVE BtcInv
  OBVIOUS
<1>1. /\ paidBatches = << >> /\ clerk = [c \in Clerks |-> NoRun]
      /\ MoneyInv
  BY MoneyStart DEF BtcInit
<1>2. IsRun(NoRun) /\ NoRun.obj \in [Elsewhere -> Row] /\ NoRun.step = "idle" /\ NoRun.inputs = {}
  BY EmptyIsTyped DEF IsRun, NoRun
<1>3. RunTypeOK
  BY <1>1, <1>2 DEF RunTypeOK
<1>4. ASSUME NEW c \in Clerks PROVE ClerkInv(c)
  BY <1>1, <1>2 DEF ClerkInv, Settling, Started
<1>5. ASSUME NEW r \in Requests PROVE PaidOnceInv(r)
  BY <1>1 DEF PaidOnceInv, PaidAt
<1>6. QED
  BY <1>1, <1>3, <1>4, <1>5 DEF BtcInv

LEMMA BtcKeeps ==
    ASSUME Races \subseteq {"scan"}, BtcInv, [BtcNext]_allVars PROVE BtcInv'
<1>1. CASE EvmNext /\ UNCHANGED btcVars
  BY <1>1, EvmKeeps
<1>2. CASE \E c \in Clerks : ReadKeeper(c) \/ ClerkRuns(c) \/ ClerkDies(c)
  BY <1>2, ReadsKeeper, Selects, SendKeeps, Saves, Asserts, Completes, Dies DEF ClerkRuns
<1>3. CASE MineBatch \/ KeeperReceives
  BY <1>3, KeeperGets
<1>4. CASE UNCHANGED allVars
  BY <1>4, NothingMoves
<1>5. QED
  BY <1>1, <1>2, <1>3, <1>4 DEF BtcNext

LEMMA BtcSound ==
    ASSUME Races \subseteq {"scan"} PROVE BtcSpec => []BtcInv
<1>1. BtcInv /\ [BtcNext]_allVars => BtcInv'
  BY BtcKeeps
<1>2. QED
  BY <1>1, BtcStart, PTL DEF BtcSpec

-----------------------------------------------------------------------------
(* The refinement of Payout.                                               *)

AllPaid == [r \in Requests |-> PaidTimes(r) + PaidByBatches(r)]

(* What neither chain pays counts for nothing, what a batch pays for one. *)
LEMMA NoneMined ==
    ASSUME NEW m, NEW r, \A i \in 1 .. Len(m) : m[i].tx.id # r
    PROVE  Cardinality({i \in 1 .. Len(m) : m[i].tx.id = r /\ m[i].ok}) = 0
<1>1. {i \in 1 .. Len(m) : m[i].tx.id = r /\ m[i].ok} = {}
  OBVIOUS
<1>2. QED
  BY <1>1, FS_EmptySet

LEMMA BatchesCount ==
    /\ \A r : PaidAt(r) = {} => PaidByBatches(r) = 0
    /\ \A r, n : PaidAt(r) = {n} => PaidByBatches(r) = 1
<1>1. \A r : PaidByBatches(r) = Cardinality(PaidAt(r))
  BY DEF PaidByBatches, PaidAt
<1>2. Cardinality({}) = 0 /\ \A n : Cardinality({n}) = 1
  BY FS_EmptySet, FS_Singleton
<1>3. QED
  BY <1>1, <1>2

LEMMA BatchesCountNext ==
    /\ \A r : PaidAt(r)' = {} => PaidByBatches(r)' = 0
    /\ \A r, n : PaidAt(r)' = {n} => PaidByBatches(r)' = 1
<1>1. \A r : PaidByBatches(r)' = Cardinality(PaidAt(r)')
  BY DEF PaidByBatches, PaidAt
<1>2. Cardinality({}) = 0 /\ \A n : Cardinality({n}) = 1
  BY FS_EmptySet, FS_Singleton
<1>3. QED
  BY <1>1, <1>2

LEMMA BatchesSame == ASSUME UNCHANGED paidBatches, NEW r PROVE PaidByBatches(r)' = PaidByBatches(r)
  BY DEF PaidByBatches

(* The EVM chain holds no payment of a request of another chain. *)
LEMMA NoneHere ==
    ASSUME HereInv, NEW r \in Elsewhere PROVE PaidTimes(r) = 0
<1>1. \A i \in 1 .. Len(mined) : mined[i].tx.id # r
  BY DEF HereInv, HereAt, Sent, Known, Used
<1>2. QED
  BY <1>1, NoneMined DEF PaidTimes

LEMMA NoneHereNext ==
    ASSUME HereInv', NEW r \in Elsewhere PROVE PaidTimes(r)' = 0
<1>1. \A i \in 1 .. Len(mined') : mined'[i].tx.id # r
  BY DEF HereInv, HereAt, Sent, Known, Used
<1>2. Cardinality({i \in 1 .. Len(mined') : mined'[i].tx.id = r /\ mined'[i].ok}) = 0
  BY <1>1, NoneMined
<1>3. QED
  BY <1>2 DEF PaidTimes

LEMMA PaidNumbers ==
    ASSUME BtcInv, NEW r \in Requests
    PROVE  /\ PaidTimes(r) \in {0, 1} /\ PaidByBatches(r) \in {0, 1}
           /\ r \notin Elsewhere => PaidByBatches(r) = 0
           /\ r \in Elsewhere => PaidTimes(r) = 0
<1>1. PaidTimes(r) \in {0, 1}
  BY PaidOnce DEF BtcInv
<1>2. PaidOnceInv(r)
  BY DEF BtcInv
<1>3. PaidByBatches(r) \in {0, 1} /\ (r \notin Elsewhere => PaidByBatches(r) = 0)
  BY <1>2, BatchesCount DEF PaidOnceInv
<1>4. r \in Elsewhere => PaidTimes(r) = 0
  BY NoneHere DEF BtcInv, MoneyInv
<1>5. QED
  BY <1>1, <1>3, <1>4

(* A request that a batch pays is not given back. *)
LEMMA PaidIsKept ==
    ASSUME Races \subseteq {"scan"}, BtcInv, EvmNext, UNCHANGED btcVars,
           NEW r \in Requests, transaction[r] = "PENDING", transaction'[r] = "CANCELED"
    PROVE  PaidByBatches(r) = 0
<1> SUFFICES ASSUME PaidAt(r) # {} PROVE FALSE
  BY BatchesCount
<1>1. r \in Elsewhere /\ (req[r].state = "COMPLETED" \/ \E c \in Clerks : Settling(c) /\ r \in clerk[c].left)
  BY DEF BtcInv, PaidOnceInv
<1>2. CASE req[r].state = "COMPLETED"
  BY <1>2 DEF BtcInv, MoneyInv, RequestInv, RowInv, MoneyOf
<1>3. CASE \E c \in Clerks : Settling(c) /\ r \in clerk[c].left
  <2>1. PICK c \in Clerks : Settling(c) /\ r \in clerk[c].left
    BY <1>3
  <2>2. Taken(clerk[c], r) /\ UNCHANGED clerk
    BY <2>1, AtSettling DEF btcVars
  <2>3. transaction'[r] = transaction[r]
    BY <1>1, <2>1, <2>2, TakenStays DEF BtcInv
  <2>4. QED
    BY <2>3
<1>4. QED
  BY <1>1, <1>2, <1>3

(* The steps of the EVM part. *)
LEMMA EvmPromises ==
    ASSUME Races \subseteq {"scan"}, BtcInv, EvmNext, UNCHANGED btcVars
    PROVE  [AllPromise!Next]_(AllPromise!vars)
<1>1. MoneyInv /\ HereInv' /\ UNCHANGED paidBatches /\ [Next]_vars
  BY EvmIsNext, MoneyNext DEF BtcInv, MoneyInv, btcVars
<1>2. [Promise!Next]_(Promise!vars)
  BY <1>1, PromiseNext
<1>3. \A r : PaidByBatches(r)' = PaidByBatches(r)
  BY <1>1, BatchesSame
<1>4. CASE Paid' = Paid
  <2>1. \A r \in Requests : Paid[r] = PaidTimes(r) /\ Paid'[r] = PaidTimes(r)'
    BY DEF Paid
  <2>2. AllPaid' = AllPaid
    BY <1>3, <1>4, <2>1 DEF AllPaid
  <2>3. CASE UNCHANGED Promise!vars
    BY <2>2, <2>3 DEF Promise!vars, AllPromise!vars, AllPaid
  <2>4. ASSUME NEW r \in Requests, Promise!Ask(r) PROVE AllPromise!Next
    <3>1. AllPromise!Ask(r)
      BY <2>2, <2>4 DEF Promise!Ask, Promise!Settle, AllPromise!Ask, AllPromise!Settle, AllPaid
    <3>2. QED
      BY <3>1 DEF AllPromise!Next
  <2>5. ASSUME NEW r \in Requests, Promise!Complete(r) PROVE AllPromise!Next
    <3>1. PaidTimes(r) = 1
      BY <2>5 DEF Promise!Complete
    <3>2. PaidTimes(r) + PaidByBatches(r) = 1
      BY <3>1, PaidNumbers
    <3>3. AllPromise!Complete(r)
      BY <2>2, <2>5, <3>2 DEF Promise!Complete, Promise!Settle, AllPromise!Complete, AllPromise!Settle, AllPaid
    <3>4. QED
      BY <3>3 DEF AllPromise!Next
  <2>6. ASSUME NEW r \in Requests, Promise!GiveBack(r) PROVE AllPromise!Next
    <3>1. PaidTimes(r) = 0 /\ transaction[r] = "PENDING" /\ transaction'[r] = "CANCELED"
      BY <1>1, <2>6 DEF Promise!GiveBack, Promise!Settle, MoneyInv, PayoutInv, TypeOK, RequestTypeOK
    <3>2. PaidTimes(r) + PaidByBatches(r) = 0
      BY <3>1, PaidIsKept
    <3>3. AllPromise!GiveBack(r)
      BY <2>2, <2>6, <3>2 DEF Promise!GiveBack, Promise!Settle, AllPromise!GiveBack, AllPromise!Settle, AllPaid
    <3>4. QED
      BY <3>3 DEF AllPromise!Next
  <2>7. CASE \E S \in SUBSET Requests : Promise!Pay(S)
    BY <1>4, <2>2, <2>7 DEF Promise!Pay, AllPromise!vars, AllPaid
  <2>8. QED
    BY <1>2, <2>3, <2>4, <2>5, <2>6, <2>7 DEF Promise!Next
<1>5. CASE \E S \in SUBSET Requests : Promise!Pay(S)
  <2>1. PICK S \in SUBSET Requests : Promise!Pay(S)
    BY <1>5
  <2>2. \A r \in Requests : PaidTimes(r)' = IF r \in S THEN 1 ELSE PaidTimes(r)
    <3>1. Paid' = [r \in Requests |-> IF r \in S THEN 1 ELSE Paid[r]]
      BY <2>1 DEF Promise!Pay, Paid
    <3>2. QED
      BY <3>1 DEF Paid
  <2>3. \A r \in S : transaction[r] = "PENDING" /\ PaidTimes(r) = 0
    BY <2>1 DEF Promise!Pay
  <2>4. \A r \in S : r \notin Elsewhere
    BY <1>1, <2>2, NoneHereNext
  <2>5. \A r \in S : PaidByBatches(r) = 0
    BY <2>4, PaidNumbers
  <2>6. AllPaid' = [r \in Requests |-> IF r \in S THEN 1 ELSE AllPaid[r]]
    BY <1>3, <2>2, <2>5 DEF AllPaid
  <2>7. AllPromise!Pay(S)
    BY <2>1, <2>3, <2>5, <2>6 DEF Promise!Pay, AllPromise!Pay, AllPaid
  <2>8. QED
    BY <2>7 DEF AllPromise!Next
<1>6. QED
  BY <1>2, <1>4, <1>5 DEF Promise!Next, Promise!Ask, Promise!Complete, Promise!GiveBack, Promise!vars, Paid

(* What a run has in hand is pending, and not paid by the EVM chain. *)
LEMMA TakenIsPending ==
    ASSUME BtcInv, NEW c, NEW r \in Elsewhere, Taken(clerk[c], r)
    PROVE  transaction[r] = "PENDING" /\ PaidTimes(r) = 0 /\ r \in Requests
<1>1. r \in Requests
  BY PayoutAssumption
<1>2. transaction[r] = "PENDING"
  BY <1>1 DEF BtcInv, MoneyInv, RequestInv, RowInv, MoneyOf, Taken
<1>3. QED
  BY <1>1, <1>2, NoneHere DEF BtcInv, MoneyInv

LEMMA NothingPaidOut ==
    ASSUME UNCHANGED <<account, transaction, mined, paidBatches>>
    PROVE  [AllPromise!Next]_(AllPromise!vars)
<1>1. \A r : PaidTimes(r)' = PaidTimes(r) /\ PaidByBatches(r)' = PaidByBatches(r)
  BY BatchesSame DEF PaidTimes
<1>2. QED
  BY <1>1 DEF AllPromise!vars

LEMMA BatchPromises ==
    ASSUME BtcInv, NEW c \in Clerks, SendsBatch(c) PROVE AllPromise!Next
<1> DEFINE S == clerk[c].left
<1>1. S \in SUBSET Requests /\ S \subseteq Elsewhere
  BY MaySend, PayoutAssumption
<1>2. UNCHANGED <<account, transaction, mined>>
  BY DEF SendsBatch, vars, requestVars, chainVars
<1>3. \A r : PaidTimes(r)' = PaidTimes(r)
  BY <1>2 DEF PaidTimes
<1>4. \A r \in S : transaction[r] = "PENDING" /\ PaidTimes(r) = 0 /\ PaidByBatches(r) = 0
  BY <1>1, MaySend, TakenIsPending, BatchesCount
<1>5. \A r \in S : PaidByBatches(r)' = 1
  BY PaysBatch, BatchesCountNext
<1>6. ASSUME NEW r, r \notin S PROVE PaidByBatches(r)' = PaidByBatches(r)
  <2>1. PaidAt(r)' = PaidAt(r)
    BY <1>6, PaysBatch
  <2>2. QED
    BY <2>1 DEF PaidByBatches, PaidAt
<1>7. AllPaid' = [r \in Requests |-> IF r \in S THEN 1 ELSE AllPaid[r]]
  BY <1>3, <1>4, <1>5, <1>6 DEF AllPaid
<1>8. AllPromise!Pay(S)
  BY <1>1, <1>2, <1>4, <1>7 DEF AllPromise!Pay, AllPaid
<1>9. QED
  BY <1>1, <1>8 DEF AllPromise!Next

LEMMA ItemPromises ==
    ASSUME BtcInv, NEW c \in Clerks, CompletesRow(c) PROVE AllPromise!Next
<1> DEFINE r == clerk[c].at
<1>1. PICK x : Finishes(c, r, x)
  BY MayFinish
<1>2. r \in Elsewhere /\ Taken(clerk[c], r) /\ PaidAt(r) # {} /\ UNCHANGED <<account, mined, paidBatches>>
      /\ transaction' = [transaction EXCEPT ![r] = "COMPLETED"]
  BY <1>1 DEF Finishes, chainVars
<1>3. r \in Requests /\ transaction[r] = "PENDING" /\ PaidTimes(r) = 0
  BY <1>2, TakenIsPending
<1>4. PaidByBatches(r) = 1
  <2>1. PaidOnceInv(r)
    BY <1>3 DEF BtcInv
  <2>2. QED
    BY <1>2, <2>1, BatchesCount DEF PaidOnceInv
<1>5. PaidTimes(r) + PaidByBatches(r) = 1
  BY <1>3, <1>4
<1>6. \A q : PaidTimes(q)' = PaidTimes(q) /\ PaidByBatches(q)' = PaidByBatches(q)
  BY <1>2, BatchesSame DEF PaidTimes
<1>7. AllPromise!Complete(r)
  BY <1>2, <1>3, <1>5, <1>6 DEF AllPromise!Complete, AllPromise!Settle
<1>8. QED
  BY <1>3, <1>7 DEF AllPromise!Next

LEMMA RunPromises ==
    ASSUME Races \subseteq {"scan"}, BtcInv, NEW c \in Clerks,
           ReadKeeper(c) \/ ClerkRuns(c) \/ ClerkDies(c)
    PROVE  [AllPromise!Next]_(AllPromise!vars)
<1>1. CASE ReadKeeper(c) \/ SelectRequests(c) \/ AssertItem(c) \/ ClerkDies(c)
  <2>1. UNCHANGED <<account, transaction, mined, paidBatches>>
    BY <1>1 DEF ReadKeeper, SelectRequests, AssertItem, ClerkDies, vars, requestVars, chainVars
  <2>2. QED
    BY <2>1, NothingPaidOut
<1>2. CASE SaveItem(c)
  <2>1. UNCHANGED <<account, transaction, mined, paidBatches>>
    BY <1>2 DEF SaveItem, chainVars
  <2>2. QED
    BY <2>1, NothingPaidOut
<1>3. CASE CompleteItem(c)
  BY <1>3, ItemPromises DEF CompleteItem
<1>4. CASE SendFromKeeper(c)
  <2>1. CASE SendsBatch(c)
    BY <2>1, BatchPromises
  <2>2. CASE UNCHANGED <<vars, paidBatches>>
    <3>1. UNCHANGED <<account, transaction, mined, paidBatches>>
      BY <2>2 DEF vars, requestVars, chainVars
    <3>2. QED
      BY <3>1, NothingPaidOut
  <2>3. QED
    BY <1>4, <2>1, <2>2, SendMoves
<1>5. QED
  BY <1>1, <1>2, <1>3, <1>4 DEF ClerkRuns

LEMMA AllPromiseNext ==
    ASSUME Races \subseteq {"scan"}, BtcInv, [BtcNext]_allVars
    PROVE  [AllPromise!Next]_(AllPromise!vars)
<1>1. CASE EvmNext /\ UNCHANGED btcVars
  BY <1>1, EvmPromises
<1>2. CASE \E c \in Clerks : ReadKeeper(c) \/ ClerkRuns(c) \/ ClerkDies(c)
  BY <1>2, RunPromises
<1>3. CASE MineBatch \/ KeeperReceives \/ UNCHANGED allVars
  <2>1. UNCHANGED <<account, transaction, mined, paidBatches>>
    BY <1>3 DEF MineBatch, KeeperReceives, allVars, btcVars, vars, requestVars, chainVars
  <2>2. QED
    BY <2>1, NothingPaidOut
<1>4. QED
  BY <1>1, <1>2, <1>3 DEF BtcNext

LEMMA AllPromiseStart == BtcInit => AllPromise!Init
<1> SUFFICES ASSUME BtcInit PROVE AllPromise!Init
  OBVIOUS
<1>1. /\ account \in Funds /\ transaction = [r \in Requests |-> "NONE"]
      /\ HereInv /\ mined = << >> /\ paidBatches = << >>
  BY HereStart DEF BtcInit, Init, RequestInit
<1>2. ASSUME NEW r \in Requests PROVE PaidTimes(r) = 0 /\ PaidByBatches(r) = 0
  <2>1. \A i \in 1 .. Len(mined) : mined[i].tx.id # r
    BY <1>1
  <2>2. PaidAt(r) = {}
    BY <1>1 DEF PaidAt
  <2>3. QED
    BY <2>1, <2>2, NoneMined, BatchesCount DEF PaidTimes
<1>3. QED
  BY <1>1, <1>2 DEF AllPromise!Init

(* A request on either chain is paid out once or given back once, and      *)
(* never both: however many administrators run process_withdrawals at a    *)
(* time, whichever of the runs find their outputs spent or fail before     *)
(* they have sent, and whatever the views, the admin, the expiry task and  *)
(* the EVM payouts do beside them.  Left aside are the races cancel, save, *)
(* twice and crash: handlers keep away from requests that are being paid,  *)
(* the keeper gets no output while a run has others in hand, and no        *)
(* process fails between sending and saving.                               *)
THEOREM AllPayoutsKeepPromise ==
    ASSUME Races \subseteq {"scan"} PROVE BtcSpec => AllPayoutsPromise
<1>1. BtcInv /\ [BtcNext]_allVars => [AllPromise!Next]_(AllPromise!vars)
  BY AllPromiseNext
<1>2. QED
  BY <1>1, AllPromiseStart, BtcSound, PTL DEF BtcSpec, AllPayoutsPromise, AllPromise!Spec
==============================================================================

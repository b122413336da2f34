----------------------- MODULE WalletTransactionsProofs -----------------------
(***************************************************************************)
(* TLAPS proofs about the handlers of WalletTransactions rows: each of     *)
(* their steps preserves the invariants of WalletTransactionsInv, and is   *)
(* at most one entry in the ledger of deposits.                            *)
(***************************************************************************)
EXTENDS WalletTransactionsInv, FiniteSetTheorems, TLAPS

-----------------------------------------------------------------------------
(* Rows and handlers.                                                      *)

LEMMA RowParts ==
    ASSUME NEW r \in Rows
    PROVE  /\ r = <<r[1], r[2]>> /\ r[1] \in Deposits /\ r[2] \in 1 .. Copies
           /\ r # NoId
           /\ WalletOf(r) \in Wallets /\ AmountOf(r) \in Nat \ {0}
BY DepositAssumption DEF Rows, NoId, WalletOf, AmountOf

LEMMA Constants ==
    /\ Created \in Row /\ Created.reverted = FALSE /\ Created.state = "CREATED"
    /\ NoRow.state = "none" /\ NoRow.reverted = FALSE
    /\ NoTask \in Task /\ Shaped(NoTask) /\ ~Working(NoTask) /\ NoTask.op = "none"
    /\ NoTask.step = "idle" /\ NoTask.id = NoId
BY DEF Created, Row, States, ReadyStates, KytStates, NoRow, NoTask, Task, Shaped, Working,
       StepsOf, Ops, Steps

LEMMA InRow == ASSUME NEW x \in Row \cup {NoRow} PROVE x \in Row <=> x.state # "none"
BY DEF Row, NoRow, States, ReadyStates, KytStates

(* A handler's copy of a row, with another state. *)
LEMMA Copied ==
    ASSUME NEW x \in Row, NEW s \in States, NEW y, y = [x EXCEPT !.state = s]
    PROVE  y \in Row /\ y.state = s /\ y.state # "none" /\ y.reverted = x.reverted
BY DEF Row, States, ReadyStates, KytStates

(* What a well-formed handler is doing follows from its step. *)
LEMMA HandlerParts ==
    ASSUME NEW t \in Task, Shaped(t)
    PROVE  /\ t.op \in Ops /\ t.step \in StepsOf(t.op) /\ t.step \in Steps
           /\ t.op # "none" => t.id \in Rows
           /\ Working(t) => t.obj \in Row
           /\ t.step \in {"create", "check"} => t.op = "insert"
           /\ t.step \in {"score", "topup", "credit", "save", "unblock", "revert", "check"}
                => Working(t)
           /\ t.step = "score" => t.op = "score"
           /\ t.step = "unblock" => t.op = "force"
           /\ t.step = "revert" => t.op = "revert"
           /\ t.step \in {"topup", "credit"} => t.op \in {"score", "force"}
           /\ t.step = "save" => t.op \in {"score", "external"}
BY DEF Task, Shaped, Working, StepsOf, Ops

LEMMA SoundParts ==
    ASSUME RowsSound, NEW a \in Actors
    PROVE  /\ task[a] \in Task /\ Shaped(task[a])
           /\ Working(task[a]) => Exists(task[a].id)
           /\ ~Idle(a) => task[a].id \in Rows
BY DEF RowsSound, RowTypeInv, Shaped, Idle

-----------------------------------------------------------------------------
(* How a step of handler a preserves each invariant.                       *)

LEMMA SoundStep ==
    ASSUME RowsSound, NEW a \in Actors, NEW t \in Task, Shaped(t),
           task' = [task EXCEPT ![a] = t],
           row' \in [Rows -> Row \cup {NoRow}],
           \A r \in Rows : row[r].state # "none" => row'[r].state # "none",
           Working(t) => row'[t.id].state # "none",
           transaction' \in [Rows -> {"none", "PENDING", "COMPLETED"}],
           balance' \in [Wallets -> Nat],
           block' \in [Wallets -> {"no", "deposit", "all"}],
           troubles' \in 0 .. MaxTroubles,
           credits' \in [Rows -> Nat], charges' \in [Rows -> Nat],
           forced' \subseteq Rows
    PROVE  RowsSound'
<1>1. RowTypeInv'
  BY DEF RowsSound, RowTypeInv
<1>2. ASSUME NEW b \in Actors
      PROVE  Shaped(task'[b]) /\ (Working(task'[b]) => row'[task'[b].id].state # "none")
  <2>1. CASE b = a
    BY <2>1 DEF RowsSound, RowTypeInv
  <2>2. CASE b # a
    <3>1. task'[b] = task[b]
      BY <2>2 DEF RowsSound, RowTypeInv
    <3>2. Working(task[b]) => task[b].id \in Rows /\ row[task[b].id].state # "none"
      BY DEF RowsSound, Exists, Shaped, Working
    <3> QED BY <3>1, <3>2 DEF RowsSound
  <2> QED BY <2>1, <2>2
<1> QED BY <1>1, <1>2 DEF RowsSound, Shaped, Working, Exists

LEMMA LowStep ==
    ASSUME RowsSound, LowScoresInv, NEW a \in Actors, NEW t,
           task' = [task EXCEPT ![a] = t], forced \subseteq forced',
           ToppedUp(t, forced'),
           \A r \in Rows : credits'[r] = credits[r] \/ r[1] \notin LowScore \/ r \in forced'
    PROVE  LowScoresInv'
<1>1. ASSUME NEW b \in Actors PROVE ToppedUp(task'[b], forced')
  BY DEF RowsSound, RowTypeInv, LowScoresInv, ToppedUp
<1>2. ASSUME NEW r \in Rows, credits'[r] > 0, r[1] \in LowScore PROVE r \in forced'
  BY <1>2 DEF LowScoresInv
<1> QED BY <1>1, <1>2 DEF LowScoresInv, ToppedUp

LEMMA OnceStep ==
    ASSUME RowsSound, OnceInv, NEW a \in Actors, NEW t, NEW r \in Rows,
           task' = [task EXCEPT ![a] = t],
           \A b \in Actors \ {a} : task[b].id # r,
           \A q \in Rows \ {r} :
               /\ row'[q] = row[q] /\ transaction'[q] = transaction[q]
               /\ credits'[q] = credits[q] /\ charges'[q] = charges[q],
           RowOnce(row'[r], r[2], transaction'[r], credits'[r], charges'[r]),
           t.op # "none" => t.id = r /\ TaskOnce(t, row'[r], transaction'[r]),
           t.op = "none" => t.id = NoId
    PROVE  OnceInv'
<1>0. task' \in [Actors -> {task'[b] : b \in Actors}] /\ task'[a] = t
      /\ \A b \in Actors \ {a} : task'[b] = task[b]
  BY DEF RowsSound, RowTypeInv
<1>1. OneHandler'
  <2> SUFFICES ASSUME NEW b \in Actors, NEW c \in Actors, b # c, task'[b].op # "none"
               PROVE  task'[b].id # task'[c].id
    BY DEF OneHandler, Idle
  <2>1. CASE b # a /\ c # a
    BY <2>1, <1>0 DEF OnceInv, OneHandler, Idle
  <2>2. CASE b = a
    BY <2>2, <1>0
  <2>3. CASE c = a
    <3>1. task'[b] = task[b] /\ task[b].id \in Rows
      BY <2>3, <1>0 DEF RowsSound, Shaped
    <3>2. t.id = r \/ t.id = NoId
      OBVIOUS
    <3> QED BY <3>1, <3>2, <2>3, <1>0, RowParts
  <2> QED BY <2>1, <2>2, <2>3
<1>2. ASSUME NEW q \in Rows
      PROVE  RowOnce(row'[q], q[2], transaction'[q], credits'[q], charges'[q])
  BY DEF OnceInv
<1>3. ASSUME NEW b \in Actors, task'[b].op # "none"
      PROVE  TaskOnce(task'[b], row'[task'[b].id], transaction'[task'[b].id])
  <2>1. CASE b = a
    BY <2>1, <1>0, <1>3
  <2>2. CASE b # a
    <3>1. task'[b] = task[b] /\ task[b].id \in Rows \ {r}
      BY <2>2, <1>0, <1>3 DEF RowsSound, Shaped
    <3> QED BY <3>1, <1>3, <1>0 DEF OnceInv, Idle
  <2> QED BY <2>1, <2>2
<1> QED BY <1>1, <1>2, <1>3 DEF OnceInv, Idle

(* Rows that come and go as before, and untouched counters, are no entry. *)
LEMMA RestsIf ==
    ASSUME \A r \in Rows : row'[r].state = "none" <=> row[r].state = "none",
           UNCHANGED <<balance, credits, charges>>
    PROVE  LedgerRests
BY DEF LedgerRests, Existing, Exists

-----------------------------------------------------------------------------
(* The handlers' steps.                                                    *)

LEMMA InsertRowSound ==
    ASSUME RowsSound, NEW a \in Actors, InsertRow(a)
    PROVE  RowsSound' /\ (LowScoresInv => LowScoresInv')
<1> DEFINE q == Copy(task[a].id[1])
           t == [op |-> "insert", id |-> q, obj |-> Created, step |-> "check"]
<1>1. t \in Task /\ Shaped(t)
  BY Constants DEF InsertRow, Task, Shaped, StepsOf, Ops, Steps, Working
<1>2. q \in Rows /\ task' = [task EXCEPT ![a] = t] /\ row' = [row EXCEPT ![q] = Created]
      /\ UNCHANGED <<transaction, balance, block, troubles, credits, charges, forced>>
  BY DEF InsertRow, ledgerVars
<1> HIDE DEF q
<1>3. row' \in [Rows -> Row \cup {NoRow}] /\ row'[q] = Created
      /\ \A r \in Rows : row[r].state # "none" => row'[r].state # "none"
  BY <1>2, Constants DEF RowsSound, RowTypeInv
<1>4. RowsSound'
  <2>1. row'[t.id].state # "none"
    BY <1>3, Constants
  <2> HIDE DEF t
  <2> QED BY <1>1, <1>2, <1>3, <2>1, SoundStep DEF RowsSound, RowTypeInv
<1>5. ASSUME LowScoresInv PROVE LowScoresInv'
  <2>1. ToppedUp(t, forced')
    BY DEF ToppedUp
  <2> HIDE DEF t
  <2> QED BY <1>2, <1>5, <2>1, LowStep
<1> QED BY <1>4, <1>5

LEMMA InsertRowOnce ==
    ASSUME RowsSound, OnceInv, NEW a \in Actors, InsertRow(a)
    PROVE  OnceInv' /\ LedgerEnters(task[a].id) /\ task'[a].id = task[a].id
<1> DEFINE r == task[a].id
           t == [op |-> "insert", id |-> r, obj |-> Created, step |-> "check"]
<1>1. task[a].op = "insert" /\ task[a].step = "create" /\ r \in Rows /\ ~Idle(a)
  BY SoundParts DEF InsertRow, Idle
<1>2. r[2] = 1 /\ ~Exists(r) /\ r = <<r[1], 1>> /\ transaction[r] = "none" /\ ~row[r].reverted
      /\ credits[r] = 0 /\ charges[r] = 0
  BY <1>1, RowParts DEF OnceInv, TaskOnce, Inserting, RowOnce, Exists
<1>3. Copy(r[1]) = r
  <2>1. ASSUME NEW n \in 1 .. Copies, Exists(<<r[1], n>>) PROVE FALSE
    <3>1. <<r[1], n>> \in Rows /\ <<r[1], n>>[2] = n
      BY <1>1, RowParts DEF Rows
    <3>2. n = 1
      BY <2>1, <3>1 DEF OnceInv, RowOnce, Exists
    <3> QED BY <3>2, <2>1, <1>2
  <2>2. {n \in 1 .. Copies : Exists(<<r[1], n>>)} = {}
    BY <2>1
  <2>3. Copy(r[1]) = <<r[1], 1 + Cardinality({})>>
    BY <2>2, Zenon DEF Copy
  <2> QED BY <2>3, <1>2, FS_EmptySet
<1>4. task' = [task EXCEPT ![a] = t] /\ row' = [row EXCEPT ![r] = Created]
      /\ UNCHANGED <<transaction, balance, credits, charges>>
  BY <1>3 DEF InsertRow, ledgerVars
<1> HIDE DEF r
<1>5. row'[r] = Created /\ \A q \in Rows \ {r} : row'[q] = row[q]
  BY <1>1, <1>4 DEF RowsSound, RowTypeInv
<1>6. OnceInv'
  <2>1. t.op = "insert" /\ t.id = r /\ TaskOnce(t, row'[r], transaction'[r])
    BY <1>2, <1>4, <1>5 DEF TaskOnce, Inserting, Working
  <2>2. RowOnce(row'[r], r[2], transaction'[r], credits'[r], charges'[r])
    BY <1>2, <1>4, <1>5, Constants DEF RowOnce
  <2>3. \A b \in Actors \ {a} : task[b].id # r
    BY <1>1 DEF OnceInv, OneHandler, r
  <2>4. \A q \in Rows \ {r} :
            /\ row'[q] = row[q] /\ transaction'[q] = transaction[q]
            /\ credits'[q] = credits[q] /\ charges'[q] = charges[q]
    BY <1>4, <1>5
  <2> HIDE DEF t
  <2> QED BY <1>1, <1>4, <2>1, <2>2, <2>3, <2>4, OnceStep
<1>7. LedgerEnters(r)
  BY <1>1, <1>2, <1>4, <1>5, Constants DEF LedgerEnters, Existing, Exists
<1>8. task'[a].id = r
  BY <1>4 DEF RowsSound, RowTypeInv
<1> QED BY <1>6, <1>7, <1>8 DEF r

LEMMA CheckDepositSteps ==
    ASSUME RowsSound, NEW a \in Actors, CheckDeposit(a)
    PROVE  /\ RowsSound' /\ (LowScoresInv => LowScoresInv') /\ (OnceInv => OnceInv')
           /\ LedgerRests
<1> DEFINE r == task[a].id
<1>1. task[a].step = "check" /\ ~Idle(a) /\ r \in Rows /\ Exists(r) /\ task[a].obj = Created
  BY SoundParts, HandlerParts DEF CheckDeposit, Idle, Shaped, Working
<1>2. /\ task' = [task EXCEPT ![a] = NoTask]
      /\ UNCHANGED <<balance, block, troubles, credits, charges, forced>>
  BY DEF CheckDeposit, Ends, ledgerVars
<1>3. PICK s \in States :
          \/ row' = [row EXCEPT ![r] = [Created EXCEPT !.state = s]]
             /\ (UNCHANGED transaction \/ transaction' = [transaction EXCEPT ![r] = "PENDING"])
          \/ UNCHANGED <<row, transaction>>
  <2>1. "VERIFICATION_FAILED" \in States /\ "WAITING_FOR_KYT_APPROVE" \in States
    BY DEF States, KytStates
  <2> QED BY <1>1, <2>1 DEF CheckDeposit
<1> DEFINE y == [Created EXCEPT !.state = s]
<1>4. y \in Row /\ y.state # "none" /\ y.reverted = FALSE
  BY Constants, Copied
<1> HIDE DEF y, r
<1>5. /\ row' \in [Rows -> Row \cup {NoRow}] /\ row'[r].state # "none"
      /\ transaction' \in [Rows -> {"none", "PENDING", "COMPLETED"}]
      /\ \A q \in Rows \ {r} : row'[q] = row[q] /\ transaction'[q] = transaction[q]
      /\ transaction'[r] \in {transaction[r], "PENDING"}
      /\ row'[r] = y \/ row'[r] = row[r]
  BY <1>1, <1>3, <1>4 DEF RowsSound, RowTypeInv, Exists, y
<1>6. RowsSound'
  BY <1>1, <1>2, <1>5, SoundStep, Constants DEF RowsSound, RowTypeInv
<1>7. ASSUME LowScoresInv PROVE LowScoresInv'
  <2>1. ToppedUp(NoTask, forced')
    BY Constants DEF ToppedUp
  <2> QED BY <1>2, <1>7, <2>1, LowStep
<1>8. ASSUME OnceInv PROVE OnceInv'
  <2>1. /\ transaction[r] = "none" /\ ~row[r].reverted /\ r[2] = 1
        /\ credits[r] = 0 /\ charges[r] = 0
    BY <1>1, <1>8, Constants DEF OnceInv, TaskOnce, RowOnce, Working, r, Idle
  <2>2. RowOnce(row'[r], r[2], transaction'[r], credits'[r], charges'[r])
    BY <2>1, <1>2, <1>4, <1>5 DEF RowOnce
  <2>3. \A b \in Actors \ {a} : task[b].id # r
    BY <1>1, <1>8 DEF OnceInv, OneHandler, r
  <2>4. \A q \in Rows \ {r} :
            /\ row'[q] = row[q] /\ transaction'[q] = transaction[q]
            /\ credits'[q] = credits[q] /\ charges'[q] = charges[q]
    BY <1>2, <1>5
  <2> QED BY <1>1, <1>2, <1>8, <2>2, <2>3, <2>4, OnceStep, Constants
<1>9. LedgerRests
  BY <1>1, <1>2, <1>5, RestsIf DEF Exists
<1> QED BY <1>6, <1>7, <1>8, <1>9

(* A handler turns to a row that exists. *)
LEMMA TakesUp ==
    ASSUME RowsSound, NEW a \in Actors, NEW r \in Rows, Exists(r),
           NEW t \in Task, Shaped(t), t.op # "none", t.id = r,
           task' = [task EXCEPT ![a] = t],
           UNCHANGED <<row, transaction, balance, block, troubles, credits, charges>>,
           forced \subseteq forced', forced' \subseteq Rows, ToppedUp(t, forced')
    PROVE  /\ RowsSound' /\ (LowScoresInv => LowScoresInv')
           /\ OnceInv /\ (\A b \in Actors \ {a} : task[b].id # r)
                /\ TaskOnce(t, row[r], transaction[r]) => OnceInv'
           /\ LedgerRests
<1>1. RowsSound'
  BY SoundStep DEF RowsSound, RowTypeInv, Exists
<1>2. LowScoresInv => LowScoresInv'
  BY LowStep
<1>3. ASSUME OnceInv, \A b \in Actors \ {a} : task[b].id # r,
             TaskOnce(t, row[r], transaction[r])
      PROVE  OnceInv'
  <2>1. RowOnce(row'[r], r[2], transaction'[r], credits'[r], charges'[r])
    BY <1>3 DEF OnceInv
  <2> QED BY <1>3, <2>1, OnceStep
<1>4. LedgerRests
  BY RestsIf
<1> QED BY <1>1, <1>2, <1>3, <1>4

(* The same for the handlers that load the row as it is. *)
LEMMA Loads ==
    ASSUME RowsSound, NEW a \in Actors, NEW r \in Rows, NEW op, NEW step, Load(a, op, r, step),
           <<op, step>> \in {<<"score", "score">>, <<"force", "topup">>, <<"revert", "revert">>},
           op = "revert" => ~row[r].reverted
    PROVE  /\ RowsSound' /\ (LowScoresInv => LowScoresInv')
           /\ OnceInv /\ "together" \notin Races => OnceInv'
           /\ LedgerRests
<1> DEFINE t == [op |-> op, id |-> r, obj |-> row[r], step |-> step]
<1>1. Exists(r) /\ task' = [task EXCEPT ![a] = t]
      /\ UNCHANGED <<row, transaction, balance, block, troubles, credits, charges>>
      /\ ("together" \in Races \/ Free(r))
      /\ forced' = IF op = "force" THEN forced \cup {r} ELSE forced
  BY DEF Load
<1>2. row[r] \in Row
  BY <1>1, InRow DEF RowsSound, RowTypeInv, Exists
<1>3. op \in {"score", "force", "revert"} /\ step \in {"score", "topup", "revert"}
  OBVIOUS
<1>4. t \in Task /\ Shaped(t)
  BY <1>2, <1>3 DEF Task, Shaped, StepsOf, Ops, Steps, Working
<1>5. forced \subseteq forced' /\ forced' \subseteq Rows
  BY <1>1 DEF RowsSound, RowTypeInv
<1>6. t.op # "none" /\ t.id = r /\ ToppedUp(t, forced')
  BY <1>1 DEF ToppedUp
<1>7. ASSUME OnceInv PROVE TaskOnce(t, row[r], transaction[r])
  BY <1>1, <1>7 DEF OnceInv, RowOnce, TaskOnce, Exists, Inserting, Working
<1> HIDE DEF t
<1> QED BY <1>1, <1>4, <1>5, <1>6, <1>7, TakesUp DEF Free

LEMMA BeginExternalSteps ==
    ASSUME RowsSound, NEW a \in Actors, NEW r \in Rows, BeginExternal(a, r)
    PROVE  /\ RowsSound' /\ (LowScoresInv => LowScoresInv')
           /\ OnceInv /\ "together" \notin Races => OnceInv'
           /\ LedgerRests
<1> DEFINE x == [row[r] EXCEPT !.state = "WAITING_FOR_ACCUMULATION", !.external = TRUE]
           t == [op |-> "external", id |-> r, step |-> "save", obj |-> x]
<1>1. Exists(r) /\ task' = [task EXCEPT ![a] = t]
      /\ UNCHANGED <<row, transaction, balance, block, troubles, credits, charges, forced>>
      /\ ("together" \in Races \/ Free(r))
  BY DEF BeginExternal, ledgerVars
<1>2. row[r] \in Row
  BY <1>1, InRow DEF RowsSound, RowTypeInv, Exists
<1>3. x \in Row /\ x.reverted = row[r].reverted
  BY <1>2 DEF Row, States, ReadyStates
<1> HIDE DEF x
<1>4. t \in Task /\ Shaped(t)
  BY <1>3 DEF Task, Shaped, StepsOf, Ops, Steps, Working
<1>5. t.op # "none" /\ t.id = r /\ ToppedUp(t, forced')
  BY DEF ToppedUp
<1>6. ASSUME OnceInv PROVE TaskOnce(t, row[r], transaction[r])
  BY <1>1, <1>3, <1>6 DEF OnceInv, RowOnce, TaskOnce, Exists, Inserting, Working
<1>7. forced \subseteq forced' /\ forced' \subseteq Rows
  BY <1>1 DEF RowsSound, RowTypeInv
<1> HIDE DEF t
<1> QED BY <1>1, <1>4, <1>5, <1>6, <1>7, TakesUp DEF Free

LEMMA AdministrateSteps ==
    ASSUME RowsSound, NEW a \in Actors, Administrate(a)
    PROVE  /\ RowsSound' /\ (LowScoresInv => LowScoresInv')
           /\ OnceInv /\ "together" \notin Races => OnceInv'
           /\ LedgerRests
BY Loads, BeginExternalSteps DEF Administrate, BeginScore, BeginForce, BeginRevert

(* A handler's task with another step and another copy. *)
Changed(u, x, s) == [[u EXCEPT !.obj = x] EXCEPT !.step = s]

LEMMA ChangedParts ==
    ASSUME NEW u \in Task, NEW x \in Row \cup {NoRow}, NEW s \in Steps
    PROVE  /\ Changed(u, x, s) \in Task /\ Changed(u, x, s).op = u.op
           /\ Changed(u, x, s).id = u.id /\ Changed(u, x, s).obj = x
           /\ Changed(u, x, s).step = s
<1> DEFINE v == [u EXCEPT !.obj = x]
<1>1. v \in Task /\ v.op = u.op /\ v.id = u.id /\ v.obj = x
  BY DEF Task
<1>2. Changed(u, x, s) = [v EXCEPT !.step = s]
  BY DEF Changed
<1> HIDE DEF v
<1> QED BY <1>1, <1>2 DEF Task

LEMMA ScoreSteps ==
    ASSUME RowsSound, NEW a \in Actors, Score(a)
    PROVE  /\ RowsSound' /\ (LowScoresInv => LowScoresInv') /\ (OnceInv => OnceInv')
           /\ LedgerRests
<1> DEFINE r == task[a].id
<1>1. /\ task[a] \in Task /\ task[a].op = "score" /\ r \in Rows /\ ~Idle(a)
      /\ task[a].obj \in Row /\ Exists(r) /\ task[a].step = "score" /\ Working(task[a])
  BY SoundParts, HandlerParts DEF Score, Idle
<1>2. UNCHANGED <<row, transaction, balance, credits, charges, forced>>
  BY DEF Score, ledgerVars
<1>3. PICK z \in States, s \in {"topup", "save"} :
          /\ task' = [task EXCEPT ![a].obj.state = z, ![a].step = s]
          /\ s = "topup" => r[1] \notin LowScore
  <2>1. task[a].obj.state \in States
    BY <1>1 DEF Row
  <2>2. {"WAITING_FOR_ACCUMULATION", "KYT_APPROVE_REJECTED", "KYT_APPROVE_PLATFORM_ERROR"}
          \subseteq States
    BY DEF States, ReadyStates, KytStates
  <2> QED BY <2>1, <2>2, DepositAssumption DEF Score, Scores
<1> DEFINE x == [task[a].obj EXCEPT !.state = z]
           t == Changed(task[a], x, s)
<1>4. task' = [task EXCEPT ![a] = t]
  BY <1>3 DEF RowsSound, RowTypeInv, Changed
<1>5. x \in Row /\ x.reverted = task[a].obj.reverted
  BY <1>1, Copied
<1> HIDE DEF x
<1>6. /\ t \in Task /\ Shaped(t) /\ Working(t) /\ t.id = r /\ t.op = "score"
      /\ t.obj = x /\ t.step = s
  <2>1. s \in Steps
    BY DEF Steps
  <2>2. t \in Task /\ t.id = r /\ t.op = "score" /\ t.obj = x /\ t.step = s
    BY <1>1, <1>5, <2>1, ChangedParts
  <2> HIDE DEF t
  <2> QED BY <1>1, <1>5, <2>2 DEF Shaped, StepsOf, Working
<1> HIDE DEF t
<1>7. ToppedUp(t, forced')
  BY <1>3, <1>6 DEF ToppedUp
<1>8. ASSUME OnceInv PROVE TaskOnce(t, row[r], transaction[r])
  BY <1>1, <1>5, <1>6, <1>8 DEF OnceInv, TaskOnce, Inserting, Working
<1>9. block' \in [Wallets -> {"no", "deposit", "all"}] /\ troubles' \in 0 .. MaxTroubles
  <2>1. troubles < MaxTroubles => troubles + 1 \in 0 .. MaxTroubles
    BY DepositAssumption DEF RowsSound, RowTypeInv
  <2>2. [block EXCEPT ![WalletOf(r)] = "all"] \in [Wallets -> {"no", "deposit", "all"}]
    BY DEF RowsSound, RowTypeInv
  <2> QED BY <2>1, <2>2 DEF Score, RowsSound, RowTypeInv
<1>10. ASSUME OnceInv PROVE \A b \in Actors \ {a} : task[b].id # r
  BY <1>1, <1>10 DEF OnceInv, OneHandler
<1> HIDE DEF r
<1>11. RowsSound'
  BY <1>1, <1>2, <1>4, <1>6, <1>9, SoundStep DEF RowsSound, RowTypeInv, Exists
<1>12. ASSUME LowScoresInv PROVE LowScoresInv'
  BY <1>2, <1>4, <1>7, <1>12, LowStep
<1>13. ASSUME OnceInv PROVE OnceInv'
  <2>1. RowOnce(row'[r], r[2], transaction'[r], credits'[r], charges'[r])
    BY <1>1, <1>2, <1>13 DEF OnceInv
  <2> QED BY <1>1, <1>2, <1>4, <1>6, <1>8, <1>10, <1>13, <2>1, OnceStep
<1>14. LedgerRests
  BY <1>2, RestsIf
<1> QED BY <1>11, <1>12, <1>13, <1>14

(* A handler leaves its row: it has written it, or not, and ends. *)
LEMMA Leaves ==
    ASSUME RowsSound, NEW a \in Actors, ~Idle(a), NEW y \in Row \cup {NoRow},
           row' = [row EXCEPT ![task[a].id] = y],
           row[task[a].id].state # "none" => y \in Row,
           task' = [task EXCEPT ![a] = NoTask],
           UNCHANGED <<transaction, balance, credits, charges, forced>>,
           block' \in [Wallets -> {"no", "deposit", "all"}], troubles' \in 0 .. MaxTroubles
    PROVE  /\ RowsSound' /\ (LowScoresInv => LowScoresInv')
           /\ OnceInv /\ y.reverted = row[task[a].id].reverted
                /\ (y.state = "none" <=> row[task[a].id].state = "none") => OnceInv'
           /\ (y.state = "none" <=> row[task[a].id].state = "none") => LedgerRests
<1> DEFINE r == task[a].id
<1>1. r \in Rows
  BY SoundParts
<1> HIDE DEF r
<1>2. row' \in [Rows -> Row \cup {NoRow}] /\ row'[r] = y
      /\ \A q \in Rows \ {r} : row'[q] = row[q]
  BY <1>1 DEF RowsSound, RowTypeInv, r
<1>3. RowsSound'
  BY <1>1, <1>2, SoundStep, Constants, InRow DEF RowsSound, RowTypeInv, r
<1>4. ASSUME LowScoresInv PROVE LowScoresInv'
  <2>1. ToppedUp(NoTask, forced')
    BY Constants DEF ToppedUp
  <2> QED BY <1>4, <2>1, LowStep
<1>5. ASSUME OnceInv, y.reverted = row[r].reverted, y.state = "none" <=> row[r].state = "none"
      PROVE  OnceInv'
  <2>1. RowOnce(row'[r], r[2], transaction'[r], credits'[r], charges'[r])
    BY <1>1, <1>2, <1>5 DEF OnceInv, RowOnce
  <2>2. \A b \in Actors \ {a} : task[b].id # r
    BY <1>5 DEF OnceInv, OneHandler, r
  <2> QED BY <1>1, <1>2, <1>5, <2>1, <2>2, OnceStep, Constants
<1>6. ASSUME y.state = "none" <=> row[r].state = "none" PROVE LedgerRests
  BY <1>2, <1>6, RestsIf
<1> QED BY <1>3, <1>4, <1>5, <1>6 DEF r

LEMMA SaveRowSteps ==
    ASSUME RowsSound, NEW a \in Actors, SaveRow(a)
    PROVE  /\ RowsSound' /\ (LowScoresInv => LowScoresInv') /\ (OnceInv => OnceInv')
           /\ LedgerRests
<1> DEFINE r == task[a].id
           y == task[a].obj
<1>1. ~Idle(a) /\ r \in Rows /\ y \in Row /\ row[r].state # "none" /\ Working(task[a])
  BY SoundParts, HandlerParts DEF SaveRow, Idle, Exists, Working
<1>2. y.state # "none"
  BY <1>1, InRow
<1>3. ASSUME OnceInv PROVE y.reverted = row[r].reverted
  BY <1>1, <1>3 DEF OnceInv, TaskOnce
<1>4. block' \in [Wallets -> {"no", "deposit", "all"}] /\ troubles' \in 0 .. MaxTroubles
  BY DEF SaveRow, RowsSound, RowTypeInv
<1>5. /\ row' = [row EXCEPT ![r] = y] /\ task' = [task EXCEPT ![a] = NoTask]
      /\ UNCHANGED <<transaction, balance, credits, charges, forced>>
  BY DEF SaveRow, Ends, ledgerVars
<1> QED BY <1>1, <1>2, <1>3, <1>4, <1>5, Leaves

LEMMA UnblockWalletSteps ==
    ASSUME RowsSound, NEW a \in Actors, UnblockWallet(a)
    PROVE  /\ RowsSound' /\ (LowScoresInv => LowScoresInv') /\ (OnceInv => OnceInv')
           /\ LedgerRests
<1> DEFINE r == task[a].id
<1>1. ~Idle(a) /\ r \in Rows
  BY SoundParts, HandlerParts DEF UnblockWallet, Idle, Working
<1>2. row[r] \in Row \cup {NoRow} /\ row' = [row EXCEPT ![r] = row[r]]
  BY <1>1 DEF UnblockWallet, RowsSound, RowTypeInv
<1>3. block' \in [Wallets -> {"no", "deposit", "all"}] /\ troubles' \in 0 .. MaxTroubles
  BY DEF UnblockWallet, RowsSound, RowTypeInv
<1>4. /\ task' = [task EXCEPT ![a] = NoTask]
      /\ UNCHANGED <<transaction, balance, credits, charges, forced>>
  BY DEF UnblockWallet, Ends, ledgerVars
<1> QED BY <1>1, <1>2, <1>3, <1>4, Leaves, InRow

LEMMA DieSteps ==
    ASSUME RowsSound, NEW a \in Actors, Die(a)
    PROVE  /\ RowsSound' /\ (LowScoresInv => LowScoresInv') /\ (OnceInv => OnceInv')
           /\ LedgerRests
<1> DEFINE r == task[a].id
<1>1. ~Idle(a) /\ r \in Rows
  BY SoundParts DEF Die
<1>2. row[r] \in Row \cup {NoRow} /\ row' = [row EXCEPT ![r] = row[r]]
  BY <1>1 DEF Die, RowsSound, RowTypeInv
<1>3. block' \in [Wallets -> {"no", "deposit", "all"}] /\ troubles' \in 0 .. MaxTroubles
  BY DepositAssumption DEF Die, RowsSound, RowTypeInv
<1>4. /\ task' = [task EXCEPT ![a] = NoTask]
      /\ UNCHANGED <<transaction, balance, credits, charges, forced>>
  BY DEF Die, Ends, ledgerVars
<1> QED BY <1>1, <1>2, <1>3, <1>4, Leaves, InRow

LEMMA GoesOn ==
    ASSUME RowsSound, NEW a \in Actors, NEW s \in Steps, Goes(a, s)
    PROVE  \E t \in Task : /\ task' = [task EXCEPT ![a] = t]
                           /\ t.op = task[a].op /\ t.id = task[a].id /\ t.obj = task[a].obj
                           /\ t.step = s
<1> DEFINE u == task[a]
           t == [u EXCEPT !.step = s]
<1>1. u \in Task /\ task' = [task EXCEPT ![a] = t]
  BY DEF Goes, RowsSound, RowTypeInv
<1> HIDE DEF u
<1>2. t \in Task /\ t.op = u.op /\ t.id = u.id /\ t.obj = u.obj /\ t.step = s
  BY <1>1 DEF Task
<1> HIDE DEF t
<1> QED BY <1>1, <1>2 DEF u

(* A handler credits its row, and goes on. *)
LEMMA Credited ==
    ASSUME RowsSound, NEW a \in Actors, task[a].step \in {"topup", "credit"},
           CreditsRow(task[a].id), NEW y \in Row, row' = [row EXCEPT ![task[a].id] = y],
           NEW t \in Task, t.op = task[a].op, t.id = task[a].id, t.obj \in Row,
           t.step = AfterTopup(a), task' = [task EXCEPT ![a] = t],
           UNCHANGED <<block, troubles, charges, forced>>
    PROVE  /\ RowsSound' /\ (LowScoresInv => LowScoresInv')
           /\ OnceInv /\ transaction[t.id] # "COMPLETED"
                /\ y.reverted = row[t.id].reverted /\ t.obj.reverted = row[t.id].reverted
              => OnceInv' /\ LedgerCredits(t.id)
<1> DEFINE r == t.id
<1>1. /\ task[a] \in Task /\ task[a].op \in {"score", "force"} /\ task[a].id = r /\ r \in Rows
      /\ ~Idle(a) /\ Working(task[a]) /\ row[r].state # "none"
  BY SoundParts, HandlerParts DEF Idle, Exists
<1>2. Shaped(t) /\ Working(t) /\ t.step \in {"unblock", "save"} /\ t.op # "none"
  BY <1>1 DEF AfterTopup, Shaped, StepsOf, Working
<1>3. y.state # "none"
  BY InRow
<1>4. WalletOf(r) \in Wallets /\ AmountOf(r) \in Nat \ {0}
  BY <1>1, RowParts
<1> HIDE DEF r
<1>5. /\ transaction' = [transaction EXCEPT ![r] = "COMPLETED"]
      /\ balance' = [balance EXCEPT ![WalletOf(r)] = @ + AmountOf(r)]
      /\ credits' = [credits EXCEPT ![r] = @ + 1]
  BY <1>1 DEF CreditsRow
<1>6. /\ row' \in [Rows -> Row \cup {NoRow}] /\ row'[r] = y
      /\ \A q \in Rows \ {r} : row'[q] = row[q] /\ transaction'[q] = transaction[q]
                               /\ credits'[q] = credits[q]
      /\ transaction' \in [Rows -> {"none", "PENDING", "COMPLETED"}]
      /\ transaction'[r] = "COMPLETED"
      /\ credits' \in [Rows -> Nat] /\ credits'[r] = credits[r] + 1
  BY <1>1, <1>5 DEF RowsSound, RowTypeInv
<1>7. balance' \in [Wallets -> Nat]
  BY <1>4, <1>5 DEF RowsSound, RowTypeInv
<1>8. RowsSound'
  <2>1. \A q \in Rows : row[q].state # "none" => row'[q].state # "none"
    BY <1>1, <1>3, <1>6
  <2>2. row'[t.id].state # "none"
    BY <1>3, <1>6 DEF r
  <2> QED BY <1>2, <1>6, <1>7, <2>1, <2>2, SoundStep DEF RowsSound, RowTypeInv
<1>9. ASSUME LowScoresInv PROVE LowScoresInv'
  <2>1. ToppedUp(t, forced')
    BY <1>2 DEF ToppedUp
  <2>2. r[1] \notin LowScore \/ r \in forced'
    BY <1>1, <1>9 DEF LowScoresInv, ToppedUp
  <2>3. \A q \in Rows : credits'[q] = credits[q] \/ q[1] \notin LowScore \/ q \in forced'
    BY <1>6, <2>2
  <2> QED BY <1>9, <2>1, <2>3, LowStep
<1>10. ASSUME OnceInv, transaction[r] # "COMPLETED",
              y.reverted = row[r].reverted, t.obj.reverted = row[r].reverted
       PROVE  OnceInv' /\ LedgerCredits(r)
  <2>1. credits[r] = 0 /\ r[2] = 1 /\ charges[r] = IF row[r].reverted THEN 1 ELSE 0
    BY <1>1, <1>10 DEF OnceInv, RowOnce
  <2>2. RowOnce(row'[r], r[2], transaction'[r], credits'[r], charges'[r])
    BY <1>3, <1>6, <1>10, <2>1 DEF RowOnce
  <2>3. \A b \in Actors \ {a} : task[b].id # r
    BY <1>1, <1>10 DEF OnceInv, OneHandler
  <2>4. TaskOnce(t, row'[r], transaction'[r])
    BY <1>2, <1>6, <1>10, <2>1 DEF TaskOnce, Inserting, r
  <2>5. \A q \in Rows \ {r} :
            /\ row'[q] = row[q] /\ transaction'[q] = transaction[q]
            /\ credits'[q] = credits[q] /\ charges'[q] = charges[q]
    BY <1>6
  <2>6. OnceInv'
    BY <1>1, <1>2, <1>10, <2>2, <2>3, <2>4, <2>5, OnceStep DEF r
  <2>7. Existing' = Existing
    BY <1>1, <1>3, <1>6 DEF Existing, Exists
  <2>8. LedgerCredits(r)
    BY <1>1, <1>5, <2>1, <2>7 DEF LedgerCredits, Existing, Exists
  <2> QED BY <2>6, <2>8
<1> QED BY <1>8, <1>9, <1>10 DEF r

LEMMA CreditSteps ==
    ASSUME RowsSound, NEW a \in Actors, Credit(a)
    PROVE  /\ RowsSound' /\ (LowScoresInv => LowScoresInv')
           /\ OnceInv => OnceInv' /\ LedgerCredits(task[a].id)
<1> DEFINE r == task[a].id
           y == row[r]
<1>1. task[a].step = "credit" /\ ~Idle(a) /\ r \in Rows /\ Exists(r) /\ Working(task[a])
      /\ task[a].obj \in Row /\ AfterTopup(a) \in Steps
  BY SoundParts, HandlerParts DEF Credit, Idle, AfterTopup, Steps
<1>2. y \in Row /\ row' = [row EXCEPT ![r] = y]
  BY <1>1, InRow DEF Credit, RowsSound, RowTypeInv, Exists
<1>3. CreditsRow(r) /\ Goes(a, AfterTopup(a)) /\ UNCHANGED <<block, troubles, charges, forced>>
  BY DEF Credit
<1>4. PICK t \in Task : /\ task' = [task EXCEPT ![a] = t] /\ t.op = task[a].op /\ t.id = r
                        /\ t.obj = task[a].obj /\ t.step = AfterTopup(a)
  BY <1>1, <1>3, GoesOn
<1>5. ASSUME OnceInv PROVE transaction[r] # "COMPLETED" /\ t.obj.reverted = row[r].reverted
  BY <1>1, <1>4, <1>5 DEF OnceInv, TaskOnce
<1> QED BY <1>1, <1>2, <1>3, <1>4, <1>5, Credited

LEMMA TopupSteps ==
    ASSUME RowsSound, NEW a \in Actors, Topup(a)
    PROVE  /\ RowsSound' /\ (LowScoresInv => LowScoresInv')
           /\ OnceInv => OnceInv' /\ (LedgerRests \/ LedgerCredits(task[a].id))
<1> DEFINE r == task[a].id
           y == [task[a].obj EXCEPT !.state = "WAITING_FOR_ACCUMULATION"]
<1>1. /\ task[a] \in Task /\ task[a].step = "topup" /\ ~Idle(a) /\ r \in Rows /\ Exists(r)
      /\ Working(task[a]) /\ task[a].obj \in Row /\ AfterTopup(a) \in Steps
      /\ AfterTopup(a) \in {"unblock", "save"} /\ task[a].op \in {"score", "force"}
  BY SoundParts, HandlerParts DEF Topup, Idle, AfterTopup, Steps
<1>2. y \in Row /\ y.reverted = task[a].obj.reverted
  BY <1>1, Copied DEF States, ReadyStates
<1>3. ASSUME OnceInv
      PROVE  task[a].obj.reverted = row[r].reverted /\ TaskOnce(task[a], row[r], transaction[r])
  BY <1>1, <1>3 DEF OnceInv, TaskOnce
<1>4. UNCHANGED <<block, troubles, charges, forced>>
  BY DEF Topup
<1> USE DEF r
<1> HIDE DEF y
<1>5. CASE transaction[r] = "none"
  <2> DEFINE t == Changed(task[a], y, AfterTopup(a))
  <2>1. t \in Task /\ t.op = task[a].op /\ t.id = r /\ t.obj = y /\ t.step = AfterTopup(a)
    BY <1>1, <1>2, ChangedParts
  <2>2. CreditsRow(r) /\ row' = [row EXCEPT ![r] = y]
        /\ task' = [task EXCEPT ![a].obj = y, ![a].step = AfterTopup(a)]
    BY <1>5 DEF Topup, y
  <2>3. task' = [task EXCEPT ![a] = t]
    BY <2>2 DEF Changed, RowsSound, RowTypeInv
  <2> HIDE DEF t
  <2>4. OnceInv => y.reverted = row[r].reverted /\ transaction[r] # "COMPLETED"
    BY <1>2, <1>3, <1>5
  <2>5. task[a].step \in {"topup", "credit"} /\ t.obj \in Row
    BY <1>1, <1>2, <2>1
  <2>6. /\ RowsSound' /\ (LowScoresInv => LowScoresInv')
        /\ OnceInv /\ transaction[t.id] # "COMPLETED"
             /\ y.reverted = row[t.id].reverted /\ t.obj.reverted = row[t.id].reverted
           => OnceInv' /\ LedgerCredits(t.id)
    BY <1>2, <1>4, <2>1, <2>2, <2>3, <2>5, Credited
  <2> QED BY <2>1, <2>4, <2>6
<1>6. CASE transaction[r] # "none"
  <2>1. PICK s \in {"credit", AfterTopup(a)} :
            Goes(a, s) /\ (s = "credit" => transaction[r] = "PENDING")
    BY <1>1, <1>6 DEF Topup
  <2>2. s \in Steps /\ s \in {"credit", "unblock", "save"} /\ (task[a].op = "force" => s # "save")
        /\ (task[a].op = "score" => s # "unblock")
    BY <1>1 DEF AfterTopup, Steps
  <2>3. PICK t \in Task : /\ task' = [task EXCEPT ![a] = t] /\ t.op = task[a].op /\ t.id = r
                          /\ t.obj = task[a].obj /\ t.step = s
    BY <2>1, <2>2, GoesOn
  <2>4. UNCHANGED <<row, transaction, balance, credits>>
    BY <1>6 DEF Topup
  <2>5. Shaped(t) /\ t.op # "none" /\ Working(t)
    BY <1>1, <2>2, <2>3 DEF Shaped, StepsOf, Working
  <2>6. RowsSound'
    BY <1>1, <1>4, <2>3, <2>4, <2>5, SoundStep DEF RowsSound, RowTypeInv, Exists
  <2>7. ASSUME LowScoresInv PROVE LowScoresInv'
    <3>1. ToppedUp(t, forced')
      BY <1>1, <1>4, <2>3, <2>7 DEF LowScoresInv, ToppedUp
    <3> QED BY <1>4, <2>3, <2>4, <2>7, <3>1, LowStep
  <2>8. ASSUME OnceInv PROVE OnceInv'
    <3>1. TaskOnce(t, row'[r], transaction'[r])
      BY <1>1, <1>3, <2>1, <2>2, <2>3, <2>4, <2>5, <2>8 DEF TaskOnce, Inserting
    <3>2. RowOnce(row'[r], r[2], transaction'[r], credits'[r], charges'[r])
      BY <1>1, <1>4, <2>4, <2>8 DEF OnceInv
    <3>3. \A b \in Actors \ {a} : task[b].id # r
      BY <1>1, <2>8 DEF OnceInv, OneHandler
    <3> QED BY <1>1, <1>4, <2>3, <2>4, <2>5, <2>8, <3>1, <3>2, <3>3, OnceStep
  <2>9. LedgerRests
    BY <1>4, <2>4, RestsIf
  <2> QED BY <2>6, <2>7, <2>8, <2>9
<1> QED BY <1>5, <1>6

LEMMA RevertSteps ==
    ASSUME RowsSound, NEW a \in Actors, Revert(a)
    PROVE  /\ RowsSound' /\ (LowScoresInv => LowScoresInv')
           /\ OnceInv => OnceInv' /\ (LedgerRests \/ LedgerCharges(task[a].id))
<1> DEFINE r == task[a].id
           y == [task[a].obj EXCEPT !.reverted = TRUE]
<1>1. /\ task[a].step = "revert" /\ ~Idle(a) /\ r \in Rows /\ Exists(r) /\ row[r].state # "none"
      /\ Working(task[a]) /\ task[a].obj \in Row
  BY SoundParts, HandlerParts DEF Revert, Idle, Exists
<1>2. y \in Row /\ y.reverted = TRUE /\ y.state # "none"
  <2>1. y \in Row /\ y.reverted = TRUE
    BY <1>1 DEF Row
  <2> HIDE DEF y
  <2> QED BY <2>1, InRow
<1>3. task' = [task EXCEPT ![a] = NoTask] /\ UNCHANGED <<transaction, block, troubles, credits, forced>>
  BY DEF Revert, Ends
<1>4. block' \in [Wallets -> {"no", "deposit", "all"}] /\ troubles' \in 0 .. MaxTroubles
  BY <1>3 DEF RowsSound, RowTypeInv
<1>5. CASE ~(transaction[r] # "none" /\ balance[WalletOf(r)] >= AmountOf(r))
  <2>1. UNCHANGED <<row, balance, charges>>
    BY <1>5 DEF Revert
  <2>2. row[r] \in Row \cup {NoRow} /\ row' = [row EXCEPT ![r] = row[r]]
    BY <1>1, <2>1 DEF RowsSound, RowTypeInv
  <2> QED BY <1>1, <1>3, <1>4, <2>1, <2>2, Leaves, InRow
<1>6. CASE transaction[r] # "none" /\ balance[WalletOf(r)] >= AmountOf(r)
  <2>1. /\ row' = [row EXCEPT ![r] = y] /\ charges' = [charges EXCEPT ![r] = @ + 1]
        /\ balance' = [balance EXCEPT ![WalletOf(r)] = @ - AmountOf(r)]
    BY <1>6 DEF Revert
  <2>2. WalletOf(r) \in Wallets /\ AmountOf(r) \in Nat \ {0} /\ balance[WalletOf(r)] \in Nat
    BY <1>1, RowParts DEF RowsSound, RowTypeInv
  <2>3. balance[WalletOf(r)] - AmountOf(r) \in Nat
    BY <1>6, <2>2
  <2> HIDE DEF y
  <2>4. /\ row' \in [Rows -> Row \cup {NoRow}] /\ row'[r] = y
        /\ \A q \in Rows \ {r} : row'[q] = row[q] /\ charges'[q] = charges[q]
        /\ charges' \in [Rows -> Nat] /\ charges'[r] = charges[r] + 1
        /\ balance' \in [Wallets -> Nat]
    BY <1>1, <1>2, <2>1, <2>2, <2>3 DEF RowsSound, RowTypeInv
  <2>5. RowsSound'
    <3>1. \A q \in Rows : row[q].state # "none" => row'[q].state # "none"
      BY <1>1, <1>2, <2>4
    <3> QED BY <1>3, <1>4, <2>4, <3>1, SoundStep, Constants DEF RowsSound, RowTypeInv
  <2>6. ASSUME LowScoresInv PROVE LowScoresInv'
    <3>1. ToppedUp(NoTask, forced')
      BY Constants DEF ToppedUp
    <3> QED BY <1>3, <2>6, <3>1, LowStep
  <2>7. ASSUME OnceInv PROVE OnceInv' /\ LedgerCharges(r)
    <3>1. charges[r] = 0 /\ r[2] = 1 /\ credits[r] = IF transaction[r] = "COMPLETED" THEN 1 ELSE 0
      BY <1>1, <2>7 DEF OnceInv, RowOnce, TaskOnce
    <3>2. RowOnce(row'[r], r[2], transaction'[r], credits'[r], charges'[r])
      BY <1>2, <1>3, <2>4, <3>1 DEF RowOnce
    <3>3. \A b \in Actors \ {a} : task[b].id # r
      BY <1>1, <2>7 DEF OnceInv, OneHandler
    <3>4. \A q \in Rows \ {r} :
              /\ row'[q] = row[q] /\ transaction'[q] = transaction[q]
              /\ credits'[q] = credits[q] /\ charges'[q] = charges[q]
      BY <1>3, <2>4
    <3>5. OnceInv'
      BY <1>1, <1>3, <2>7, <3>2, <3>3, <3>4, OnceStep, Constants
    <3>6. Existing' = Existing
      BY <1>1, <1>2, <2>4 DEF Existing, Exists
    <3>7. LedgerCharges(r)
      BY <1>1, <1>3, <1>6, <2>1, <3>1, <3>6 DEF LedgerCharges, Existing, Exists
    <3> QED BY <3>5, <3>7
  <2> QED BY <2>5, <2>6, <2>7
<1> QED BY <1>5, <1>6

-----------------------------------------------------------------------------
(* Every step of a handler, of an administrator and of a wallet's block.   *)

LEMMA HandleSteps ==
    ASSUME RowsSound, NEW a \in Actors, Handle(a)
    PROVE  /\ RowsSound' /\ (LowScoresInv => LowScoresInv')
           /\ OnceInv => OnceInv'
           /\ OnceInv => \/ LedgerRests \/ LedgerCredits(task[a].id) \/ LedgerCharges(task[a].id)
                         \/ LedgerEnters(task[a].id) /\ InsertRow(a)
<1>1. CASE InsertRow(a)
  BY <1>1, InsertRowSound, InsertRowOnce
<1>2. CASE CheckDeposit(a)
  BY <1>2, CheckDepositSteps
<1>3. CASE Score(a)
  BY <1>3, ScoreSteps
<1>4. CASE Topup(a)
  BY <1>4, TopupSteps
<1>5. CASE Credit(a)
  BY <1>5, CreditSteps
<1>6. CASE SaveRow(a)
  BY <1>6, SaveRowSteps
<1>7. CASE UnblockWallet(a)
  BY <1>7, UnblockWalletSteps
<1>8. CASE Revert(a)
  BY <1>8, RevertSteps
<1> QED BY <1>1, <1>2, <1>3, <1>4, <1>5, <1>6, <1>7, <1>8 DEF Handle

LEMMA BlockSteps ==
    ASSUME RowsSound, BlockWallet \/ LiftBlock
    PROVE  /\ RowsSound' /\ (LowScoresInv => LowScoresInv') /\ (OnceInv => OnceInv')
           /\ LedgerRests
<1>1. UNCHANGED <<row, transaction, balance, task, credits, charges, forced>>
  BY DEF BlockWallet, LiftBlock, ledgerVars
<1>2. block' \in [Wallets -> {"no", "deposit", "all"}] /\ troubles' \in 0 .. MaxTroubles
  BY DepositAssumption DEF BlockWallet, LiftBlock, RowsSound, RowTypeInv
<1>3. RowsSound'
  BY <1>1, <1>2 DEF RowsSound, RowTypeInv, Exists
<1>4. LowScoresInv => LowScoresInv'
  BY <1>1 DEF LowScoresInv
<1>5. OnceInv => OnceInv'
  BY <1>1 DEF OnceInv, OneHandler, Idle
<1>6. LedgerRests
  BY <1>1, RestsIf
<1> QED BY <1>3, <1>4, <1>5, <1>6

(* Nothing happens to rows and handlers in a step of something else. *)
LEMMA RowsRest ==
    ASSUME UNCHANGED <<row, transaction, balance, block, task, troubles, credits, charges, forced>>
    PROVE  /\ RowsSound => RowsSound'
           /\ LowScoresInv => LowScoresInv'
           /\ OnceInv => OnceInv'
           /\ LedgerRests
<1>1. RowsSound => RowsSound'
  BY DEF RowsSound, RowTypeInv, Exists
<1>2. LowScoresInv => LowScoresInv'
  BY DEF LowScoresInv
<1>3. OnceInv => OnceInv'
  BY DEF OnceInv, OneHandler, Idle
<1> QED BY <1>1, <1>2, <1>3, RestsIf

LEMMA RowsStart == RowInit => RowsSound /\ LowScoresInv /\ OnceInv
<1> SUFFICES ASSUME RowInit PROVE RowsSound /\ LowScoresInv /\ OnceInv
  OBVIOUS
<1>1. RowsSound
  BY DepositAssumption, Constants DEF RowInit, RowsSound, RowTypeInv
<1>2. LowScoresInv
  BY Constants DEF RowInit, LowScoresInv, ToppedUp
<1>3. OnceInv
  BY Constants DEF RowInit, OnceInv, OneHandler, Idle, RowOnce
<1> QED BY <1>1, <1>2, <1>3

(* Other handlers, and the rows that are there, survive a handler's step;  *)
(* no handler is back at its first step.                                   *)
LEMMA HandleKeeps ==
    ASSUME RowsSound, NEW a \in Actors, Handle(a)
    PROVE  /\ \A b \in Actors \ {a} : task'[b] = task[b]
           /\ task'[a].step # "create"
           /\ \A r \in Rows : Exists(r) => row'[r].state # "none"
<1>1. row \in [Rows -> Row \cup {NoRow}] /\ task \in [Actors -> Task] /\ task[a] \in Task
  BY DEF RowsSound, RowTypeInv
<1>2. CASE InsertRow(a)
  BY <1>1, <1>2, Constants DEF InsertRow, Exists
<1>3. CASE CheckDeposit(a)
  <2>1. task[a].obj = Created
    BY <1>3, SoundParts DEF CheckDeposit, Shaped
  <2>2. ASSUME NEW s \in States PROVE [Created EXCEPT !.state = s].state # "none"
    BY Constants, Copied
  <2>3. \A r \in Rows : Exists(r) => row'[r].state # "none"
    <3>1. "VERIFICATION_FAILED" \in States /\ "WAITING_FOR_KYT_APPROVE" \in States
      BY DEF States, KytStates
    <3> QED BY <1>1, <1>3, <2>1, <2>2, <3>1 DEF CheckDeposit, Exists
  <2>4. task' = [task EXCEPT ![a] = NoTask]
    BY <1>3 DEF CheckDeposit, Ends
  <2> QED BY <1>1, <2>3, <2>4, Constants
<1>4. CASE Score(a)
  <2>1. UNCHANGED row
    BY <1>4 DEF Score
  <2>2. PICK z \in States, s \in {"topup", "save"} :
            task' = [task EXCEPT ![a].obj.state = z, ![a].step = s]
    <3>1. task[a].obj.state \in States
      BY <1>4, SoundParts, HandlerParts DEF Score, Row
    <3>2. {"WAITING_FOR_ACCUMULATION", "KYT_APPROVE_REJECTED", "KYT_APPROVE_PLATFORM_ERROR"}
            \subseteq States
      BY DEF States, ReadyStates, KytStates
    <3> QED BY <1>4, <3>1, <3>2 DEF Score, Scores
  <2>3. \A b \in Actors \ {a} : task'[b] = task[b]
    BY <1>1, <2>2
  <2>4. task'[a] = [[task[a] EXCEPT !.obj.state = z] EXCEPT !.step = s]
    BY <1>1, <2>2
  <2>5. task'[a].step = s
    BY <1>1, <2>4 DEF Task
  <2> QED BY <2>1, <2>2, <2>3, <2>5 DEF Exists
<1>5. CASE Topup(a)
  <2>1. PICK s \in {"credit", AfterTopup(a)}, x \in {task[a].obj, [task[a].obj EXCEPT !.state = "WAITING_FOR_ACCUMULATION"]} :
            \/ Goes(a, s)
            \/ task' = [task EXCEPT ![a].obj = x, ![a].step = s]
    BY <1>5 DEF Topup
  <2>2. s # "create"
    BY DEF AfterTopup
  <2>3. task'[a].step # "create" /\ \A b \in Actors \ {a} : task'[b] = task[b]
    <3>1. CASE Goes(a, s)
      BY <1>1, <2>2, <3>1 DEF Goes, Task
    <3>2. CASE task' = [task EXCEPT ![a].obj = x, ![a].step = s]
      <4>1. task'[a] = [[task[a] EXCEPT !.obj = x] EXCEPT !.step = s]
            /\ \A b \in Actors \ {a} : task'[b] = task[b]
        BY <1>1, <3>2
      <4>2. task'[a].step = s
        BY <1>1, <4>1 DEF Task
      <4> QED BY <2>2, <4>1, <4>2
    <3> QED BY <2>1, <3>1, <3>2
  <2>4. task[a].obj \in Row
    BY <1>5, SoundParts, HandlerParts DEF Topup
  <2>5. [task[a].obj EXCEPT !.state = "WAITING_FOR_ACCUMULATION"].state # "none"
    BY <2>4 DEF Row
  <2>6. \A r \in Rows : Exists(r) => row'[r].state # "none"
    BY <1>1, <1>5, <2>5 DEF Topup, Exists
  <2> QED BY <2>3, <2>6
<1>6. CASE Credit(a)
  <2>1. UNCHANGED row /\ Goes(a, AfterTopup(a)) /\ AfterTopup(a) # "create"
    BY <1>6 DEF Credit, AfterTopup
  <2> QED BY <1>1, <2>1 DEF Goes, Task, Exists
<1>7. CASE SaveRow(a)
  <2>1. task[a].obj \in Row
    BY <1>7, SoundParts, HandlerParts DEF SaveRow
  <2>2. task[a].obj.state # "none"
    BY <2>1, InRow
  <2> QED BY <1>1, <1>7, <2>2, Constants DEF SaveRow, Ends, Exists
<1>8. CASE UnblockWallet(a)
  BY <1>1, <1>8, Constants DEF UnblockWallet, Ends, Exists
<1>9. CASE Revert(a)
  <2>1. task[a].obj \in Row
    BY <1>9, SoundParts, HandlerParts DEF Revert
  <2>2. [task[a].obj EXCEPT !.reverted = TRUE].state # "none"
    <3>1. [task[a].obj EXCEPT !.reverted = TRUE] \in Row
      BY <2>1 DEF Row
    <3> QED BY <3>1, InRow
  <2>3. \A r \in Rows : Exists(r) => row'[r].state # "none"
    BY <1>1, <1>9, <2>2 DEF Revert, Exists
  <2> QED BY <1>1, <1>9, <2>3, Constants DEF Revert, Ends
<1> QED BY <1>2, <1>3, <1>4, <1>5, <1>6, <1>7, <1>8, <1>9 DEF Handle

LEMMA BeginKeeps ==
    ASSUME RowsSound, NEW a \in Actors,
           Administrate(a) \/ \E r \in Rows : BeginScore(a, r)
    PROVE  /\ Idle(a) /\ \A b \in Actors \ {a} : task'[b] = task[b]
           /\ task'[a].step # "create" /\ task'[a].op # "insert" /\ row' = row
<1>1. PICK t : /\ Idle(a) /\ task' = [task EXCEPT ![a] = t] /\ row' = row
               /\ t.step # "create" /\ t.op # "insert"
  <2>1. ASSUME NEW op, NEW step, NEW r, Load(a, op, r, step), op # "insert", step # "create"
        PROVE  \E t : /\ Idle(a) /\ task' = [task EXCEPT ![a] = t] /\ row' = row
                      /\ t.step # "create" /\ t.op # "insert"
    <3> DEFINE t == [op |-> op, id |-> r, obj |-> row[r], step |-> step]
    <3>1. Idle(a) /\ task' = [task EXCEPT ![a] = t] /\ row' = row
      BY <2>1 DEF Load
    <3>2. t.step # "create" /\ t.op # "insert"
      BY <2>1
    <3> HIDE DEF t
    <3> QED BY <3>1, <3>2
  <2>2. ASSUME NEW r, BeginExternal(a, r)
        PROVE  \E t : /\ Idle(a) /\ task' = [task EXCEPT ![a] = t] /\ row' = row
                      /\ t.step # "create" /\ t.op # "insert"
    <3> DEFINE x == [row[r] EXCEPT !.state = "WAITING_FOR_ACCUMULATION", !.external = TRUE]
               t == [op |-> "external", id |-> r, step |-> "save", obj |-> x]
    <3>1. Idle(a) /\ task' = [task EXCEPT ![a] = t] /\ row' = row
      BY <2>2 DEF BeginExternal
    <3> HIDE DEF x
    <3>2. t.step # "create" /\ t.op # "insert"
      OBVIOUS
    <3> HIDE DEF t
    <3> QED BY <3>1, <3>2
  <2> QED BY <2>1, <2>2 DEF Administrate, BeginScore, BeginForce, BeginRevert
<1> QED BY <1>1 DEF RowsSound, RowTypeInv

-----------------------------------------------------------------------------
(* Entries of the ledger, counted by deposit. *)

LEMMA OnceRow ==
    ASSUME OnceInv, NEW r \in Existing
    PROVE  r \in Rows /\ Exists(r) /\ r = <<r[1], 1>> /\ r[1] \in Deposits
<1>1. r \in Rows /\ Exists(r)
  BY DEF Existing
<1>2. r[2] = 1
  BY <1>1 DEF OnceInv, RowOnce, Exists
<1> QED BY <1>1, <1>2, RowParts

LEMMA CreditsGrow ==
    ASSUME RowsSound, OnceInv, NEW r, LedgerCredits(r)
    PROVE  /\ r[1] \notin {d \in Deposits : credits[<<d, 1>>] > 0}
           /\ {d \in Deposits : credits'[<<d, 1>>] > 0}
                 = {d \in Deposits : credits[<<d, 1>>] > 0} \cup {r[1]}
<1>1. r \in Existing /\ credits[r] = 0 /\ credits' = [credits EXCEPT ![r] = 1]
  BY DEF LedgerCredits
<1>2. r \in Rows /\ r = <<r[1], 1>> /\ r[1] \in Deposits
  BY <1>1, OnceRow
<1>3. ASSUME NEW d \in Deposits
      PROVE  credits'[<<d, 1>>] > 0 <=> credits[<<d, 1>>] > 0 \/ d = r[1]
  <2>1. <<d, 1>> \in Rows /\ credits \in [Rows -> Nat]
    BY DepositAssumption DEF Rows, RowsSound, RowTypeInv
  <2>2. <<d, 1>> = r <=> d = r[1]
    BY <1>2
  <2> QED BY <1>1, <2>1, <2>2
<1>4. r[1] \notin {d \in Deposits : credits[<<d, 1>>] > 0}
  BY <1>1, <1>2
<1> QED BY <1>2, <1>3, <1>4

LEMMA ChargesGrow ==
    ASSUME RowsSound, OnceInv, NEW r, LedgerCharges(r)
    PROVE  /\ r[1] \notin {d \in Deposits : charges[<<d, 1>>] > 0}
           /\ {d \in Deposits : charges'[<<d, 1>>] > 0}
                 = {d \in Deposits : charges[<<d, 1>>] > 0} \cup {r[1]}
<1>1. r \in Existing /\ charges[r] = 0 /\ charges' = [charges EXCEPT ![r] = 1]
  BY DEF LedgerCharges
<1>2. r \in Rows /\ r = <<r[1], 1>> /\ r[1] \in Deposits
  BY <1>1, OnceRow
<1>3. ASSUME NEW d \in Deposits
      PROVE  charges'[<<d, 1>>] > 0 <=> charges[<<d, 1>>] > 0 \/ d = r[1]
  <2>1. <<d, 1>> \in Rows /\ charges \in [Rows -> Nat]
    BY DepositAssumption DEF Rows, RowsSound, RowTypeInv
  <2>2. <<d, 1>> = r <=> d = r[1]
    BY <1>2
  <2> QED BY <1>1, <2>1, <2>2
<1>4. r[1] \notin {d \in Deposits : charges[<<d, 1>>] > 0}
  BY <1>1, <1>2
<1> QED BY <1>2, <1>3, <1>4

-----------------------------------------------------------------------------
(* What a handler does to the state and the address of its row: the row,   *)
(* and the copy, change only their state, to one that is not settled.      *)

Unsettled == States \ {"ACCUMULATED", "EXTERNAL_ACCUMULATED"}

(* What handlers beyond the first insert themselves write. *)
HandlerStates ==
    {"WAITING_FOR_ACCUMULATION", "KYT_APPROVE_REJECTED", "KYT_APPROVE_PLATFORM_ERROR"}

LEMMA HandleWrites ==
    ASSUME RowsSound, NEW a \in Actors, Handle(a), task[a].op # "insert", NEW r, r = task[a].id
    PROVE  /\ r \in Rows /\ Working(task[a]) /\ \A q \in Rows \ {r} : row'[q] = row[q]
           /\ \/ row'[r] = row[r]
              \/ /\ row'[r].external = task[a].obj.external
                 /\ row'[r].state \in HandlerStates \cup {task[a].obj.state}
           /\ \/ task'[a] = NoTask
              \/ /\ task'[a].op = task[a].op /\ task'[a].id = r
                 /\ task'[a].obj.external = task[a].obj.external
                 /\ task'[a].obj.state \in HandlerStates \cup {task[a].obj.state}
<1>1. row \in [Rows -> Row \cup {NoRow}] /\ task \in [Actors -> Task] /\ task[a] \in Task
  BY DEF RowsSound, RowTypeInv
<1>2. /\ task[a].step \in {"score", "topup", "credit", "save", "unblock", "revert"}
      /\ r \in Rows /\ Working(task[a]) /\ task[a].obj \in Row
  <2>1. task[a].step \notin {"create", "check"}
    BY SoundParts, HandlerParts
  <2>2. task[a].step \in {"score", "topup", "credit", "save", "unblock", "revert"}
    BY <2>1 DEF Handle, InsertRow, CheckDeposit, Score, Topup, Credit, SaveRow, UnblockWallet, Revert
  <2> QED BY <2>2, SoundParts, HandlerParts DEF Working
<1>3. HandlerStates \subseteq States /\ "WAITING_FOR_ACCUMULATION" \in HandlerStates
  BY DEF HandlerStates, States, ReadyStates, KytStates
<1>4. CASE Score(a)
  <2>1. row' = row
    BY <1>4 DEF Score
  <2>2. PICK z \in HandlerStates \cup {task[a].obj.state}, s \in {"topup", "save"} :
            task' = [task EXCEPT ![a].obj.state = z, ![a].step = s]
    BY <1>4 DEF Score, Scores, HandlerStates
  <2> DEFINE x == [task[a].obj EXCEPT !.state = z]
  <2>3. task'[a] = Changed(task[a], x, s)
    BY <1>1, <2>2 DEF Changed
  <2>4. x \in Row /\ x.external = task[a].obj.external /\ x.state = z
    BY <1>2, <1>3 DEF Row
  <2> HIDE DEF x
  <2>5. s \in Steps
    BY DEF Steps
  <2> QED BY <1>1, <1>2, <2>1, <2>3, <2>4, <2>5, ChangedParts
<1>5. CASE Topup(a)
  <2> DEFINE y == [task[a].obj EXCEPT !.state = "WAITING_FOR_ACCUMULATION"]
  <2>1. y \in Row /\ y.external = task[a].obj.external /\ y.state = "WAITING_FOR_ACCUMULATION"
    BY <1>2, <1>3 DEF Row, HandlerStates
  <2>2. AfterTopup(a) \in Steps /\ "credit" \in Steps
    BY DEF AfterTopup, Steps
  <2> HIDE DEF y
  <2>3. CASE transaction[r] = "none"
    <3>1. row' = [row EXCEPT ![r] = y] /\ task' = [task EXCEPT ![a].obj = y, ![a].step = AfterTopup(a)]
      BY <1>5, <2>3 DEF Topup, y
    <3>2. task'[a] = Changed(task[a], y, AfterTopup(a))
      BY <1>1, <3>1 DEF Changed
    <3> QED BY <1>1, <1>2, <1>3, <2>1, <2>2, <3>1, <3>2, ChangedParts
  <2>4. CASE transaction[r] # "none"
    <3>1. PICK s \in Steps : row' = row /\ Goes(a, s)
      BY <1>5, <2>2, <2>4 DEF Topup
    <3>2. PICK t \in Task : /\ task' = [task EXCEPT ![a] = t]
                            /\ t.op = task[a].op /\ t.id = task[a].id /\ t.obj = task[a].obj
      BY <3>1, GoesOn
    <3> QED BY <1>1, <1>2, <3>1, <3>2
  <2> QED BY <2>3, <2>4
<1>6. CASE Credit(a)
  <2>1. row' = row /\ Goes(a, AfterTopup(a)) /\ AfterTopup(a) \in Steps
    BY <1>6 DEF Credit, AfterTopup, Steps
  <2>2. PICK t \in Task : /\ task' = [task EXCEPT ![a] = t]
                          /\ t.op = task[a].op /\ t.id = task[a].id /\ t.obj = task[a].obj
    BY <2>1, GoesOn
  <2> QED BY <1>1, <1>2, <2>1, <2>2
<1>7. CASE SaveRow(a)
  BY <1>1, <1>2, <1>7 DEF SaveRow, Ends
<1>8. CASE UnblockWallet(a)
  BY <1>1, <1>2, <1>8 DEF UnblockWallet, Ends
<1>9. CASE Revert(a)
  <2> DEFINE y == [task[a].obj EXCEPT !.reverted = TRUE]
  <2>1. y.external = task[a].obj.external /\ y.state = task[a].obj.state
    BY <1>2 DEF Row
  <2>2. UNCHANGED row \/ row' = [row EXCEPT ![r] = y]
    BY <1>9 DEF Revert
  <2>3. task'[a] = NoTask
    BY <1>1, <1>9 DEF Revert, Ends
  <2> HIDE DEF y
  <2> QED BY <1>1, <1>2, <2>1, <2>2, <2>3
<1> QED BY <1>2, <1>4, <1>5, <1>6, <1>7, <1>8, <1>9 DEF Handle, InsertRow, CheckDeposit

LEMMA HandleCopies ==
    ASSUME RowsSound, NEW a \in Actors, Handle(a), task[a].op # "insert", NEW r, r = task[a].id
    PROVE  /\ r \in Rows /\ Working(task[a]) /\ \A q \in Rows \ {r} : row'[q] = row[q]
           /\ \/ row'[r] = row[r]
              \/ /\ row'[r].external = task[a].obj.external
                 /\ row'[r].state \in Unsettled \cup {task[a].obj.state}
           /\ \/ task'[a] = NoTask
              \/ /\ task'[a].op = task[a].op /\ task'[a].id = r
                 /\ task'[a].obj.external = task[a].obj.external
                 /\ task'[a].obj.state \in Unsettled \cup {task[a].obj.state}
<1>1. HandlerStates \subseteq Unsettled
  BY DEF HandlerStates, Unsettled, States, ReadyStates, KytStates
<1> QED BY <1>1, HandleWrites

(* An administrator's handler, and one that scores, copies the row; only   *)
(* one gives it an external address.                                       *)
LEMMA BeginCopies ==
    ASSUME RowsSound, NEW a \in Actors,
           Administrate(a) \/ \E r \in Rows : BeginScore(a, r)
    PROVE  /\ task'[a].id \in Rows /\ Exists(task'[a].id) /\ Working(task'[a])
           /\ "together" \notin Races => Free(task'[a].id)
           /\ \/ task'[a].obj = row[task'[a].id] /\ task'[a].op # "external"
              \/ /\ task'[a].obj.state = "WAITING_FOR_ACCUMULATION" /\ task'[a].op = "external"
                 /\ task'[a].obj.external
<1>1. ASSUME NEW op, NEW step, NEW r \in Rows, Load(a, op, r, step),
             op \in {"score", "force", "revert"}, step # "create"
      PROVE  /\ task'[a].id = r /\ Exists(r) /\ Working(task'[a])
             /\ "together" \notin Races => Free(r)
             /\ task'[a].obj = row[r] /\ task'[a].op # "external"
  <2> DEFINE t == [op |-> op, id |-> r, obj |-> row[r], step |-> step]
  <2>1. task' = [task EXCEPT ![a] = t] /\ Exists(r) /\ ("together" \notin Races => Free(r))
    BY <1>1 DEF Load
  <2>2. t.op = op /\ t.id = r /\ t.obj = row[r] /\ t.step = step
    OBVIOUS
  <2> HIDE DEF t
  <2> QED BY <1>1, <2>1, <2>2 DEF RowsSound, RowTypeInv, Working
<1>2. ASSUME NEW r \in Rows, BeginExternal(a, r)
      PROVE  /\ task'[a].id = r /\ Exists(r) /\ Working(task'[a])
             /\ "together" \notin Races => Free(r)
             /\ task'[a].obj.state = "WAITING_FOR_ACCUMULATION" /\ task'[a].op = "external"
             /\ task'[a].obj.external
  <2> DEFINE x == [row[r] EXCEPT !.state = "WAITING_FOR_ACCUMULATION", !.external = TRUE]
             t == [op |-> "external", id |-> r, step |-> "save", obj |-> x]
  <2>1. task' = [task EXCEPT ![a] = t] /\ Exists(r) /\ ("together" \notin Races => Free(r))
    BY <1>2 DEF BeginExternal
  <2>2. row[r] \in Row
    BY <2>1, InRow DEF RowsSound, RowTypeInv, Exists
  <2>3. x.state = "WAITING_FOR_ACCUMULATION" /\ x.external
    BY <2>2 DEF Row
  <2> HIDE DEF x
  <2>4. t.op = "external" /\ t.id = r /\ t.obj = x /\ t.step = "save"
    OBVIOUS
  <2> HIDE DEF t
  <2> QED BY <2>1, <2>3, <2>4 DEF RowsSound, RowTypeInv, Working
<1> QED BY <1>1, <1>2 DEF Administrate, BeginScore, BeginForce, BeginRevert

(* One column of a row is written. *)
LEMMA SetsStateSteps ==
    ASSUME RowsSound, NEW r \in Rows, Exists(r), NEW s \in States, SetsState(r, s),
           UNCHANGED <<transaction, balance, block, task, troubles, credits, charges, forced>>
    PROVE  /\ RowsSound' /\ (LowScoresInv => LowScoresInv') /\ (OnceInv => OnceInv')
           /\ LedgerRests
           /\ row'[r].state = s /\ row'[r].external = row[r].external
           /\ \A q \in Rows \ {r} : row'[q] = row[q]
<1> DEFINE y == [row[r] EXCEPT !.state = s]
<1>1. row[r] \in Row /\ row[r].state # "none"
  BY InRow DEF RowsSound, RowTypeInv, Exists
<1>2. y \in Row /\ y.state = s /\ y.external = row[r].external /\ y.reverted = row[r].reverted
  BY <1>1 DEF Row
<1>3. row' = [row EXCEPT ![r] = y]
  BY DEF SetsState, RowsSound, RowTypeInv
<1>4. y.state # "none"
  BY <1>2, InRow
<1> HIDE DEF y
<1>5. row' \in [Rows -> Row \cup {NoRow}] /\ row'[r] = y /\ \A q \in Rows \ {r} : row'[q] = row[q]
  BY <1>2, <1>3 DEF RowsSound, RowTypeInv
<1>6. \A q \in Rows : (row'[q].state = "none" <=> row[q].state = "none")
                      /\ row'[q].reverted = row[q].reverted
  BY <1>1, <1>2, <1>4, <1>5
<1>7. RowsSound'
  BY <1>5, <1>6 DEF RowsSound, RowTypeInv, Exists, Shaped, Working
<1>8. LowScoresInv => LowScoresInv'
  BY DEF LowScoresInv
<1>9. ASSUME OnceInv PROVE OnceInv'
  <2>1. OneHandler'
    BY <1>9 DEF OnceInv, OneHandler, Idle
  <2>2. ASSUME NEW q \in Rows PROVE RowOnce(row'[q], q[2], transaction'[q], credits'[q], charges'[q])
    BY <1>6, <1>9 DEF OnceInv, RowOnce
  <2>3. ASSUME NEW a \in Actors, ~Idle(a)
        PROVE  TaskOnce(task[a], row'[task[a].id], transaction[task[a].id])
    BY <1>6, <1>9, <2>3, SoundParts DEF OnceInv, TaskOnce
  <2> QED BY <2>1, <2>2, <2>3 DEF OnceInv, Idle
<1>10. LedgerRests
  BY <1>6, RestsIf
<1> QED BY <1>2, <1>5, <1>7, <1>8, <1>9, <1>10

-----------------------------------------------------------------------------
(* What may be moved on.                                                   *)

(* How a step of handler a keeps RowsClear: y becomes the row, t the task. *)
LEMMA ClearStep ==
    ASSUME RowsSound, OnceInv, RowsClear, NEW a \in Actors, NEW r, r = task[a].id, r \in Rows,
           ~Idle(a), \A b \in Actors \ {a} : task'[b] = task[b],
           \A q \in Rows \ {r} : row'[q] = row[q],
           credits' \in [Rows -> Nat], \A q \in Rows : credits'[q] >= credits[q],
           row[r].external => row'[r].external,
           row'[r] = row[r] \/ row'[r].state \in Early \/ Clear(row'[r], credits'[r]),
           Working(task'[a]) =>
               /\ task'[a].id = r /\ CopyClear(task'[a], credits'[r])
               /\ row'[r].external => task'[a].obj.external
    PROVE  RowsClear' /\ \A q \in Rows : Cleared(q) => Clear(row'[q], credits'[q])
<1>1. \A q \in Rows : credits[q] \in Nat /\ credits'[q] \in Nat
  BY DEF RowsSound, RowTypeInv
<1>2. ASSUME NEW q \in Rows, Cleared(q) PROVE Clear(row'[q], credits'[q])
  BY <1>1, <1>2 DEF Cleared, Clear
<1>3. ASSUME NEW q \in Rows PROVE row'[q].state \in Early \/ Clear(row'[q], credits'[q])
  <2>1. row[q].state \in Early \/ Cleared(q)
    BY DEF RowsClear
  <2> QED BY <1>2, <2>1
<1>4. ASSUME NEW b \in Actors, Working(task'[b])
      PROVE  /\ CopyClear(task'[b], credits'[task'[b].id])
             /\ row'[task'[b].id].external => task'[b].obj.external
  <2>1. CASE b = a
    BY <1>4, <2>1
  <2>2. CASE b # a
    <3>1. task'[b] = task[b] /\ Working(task[b]) /\ task[b].id \in Rows /\ task[b].id # r
      BY <1>4, <2>2, SoundParts DEF OnceInv, OneHandler, Working, Idle
    <3>2. /\ CopyClear(task[b], credits[task[b].id])
          /\ row[task[b].id].external => task[b].obj.external
      BY <3>1 DEF RowsClear
    <3>3. credits'[task[b].id] >= credits[task[b].id] /\ row'[task[b].id] = row[task[b].id]
          /\ credits[task[b].id] \in Nat /\ credits'[task[b].id] \in Nat
      BY <1>1, <3>1
    <3> QED BY <3>1, <3>2, <3>3 DEF CopyClear, Clear
  <2> QED BY <2>1, <2>2
<1> QED BY <1>2, <1>3, <1>4 DEF RowsClear, Cleared

LEMMA CreditsRowGrows ==
    ASSUME RowsSound, NEW r \in Rows, CreditsRow(r)
    PROVE  /\ credits' \in [Rows -> Nat] /\ credits'[r] > 0
           /\ \A q \in Rows : credits'[q] >= credits[q]
<1>1. credits \in [Rows -> Nat] /\ credits' = [credits EXCEPT ![r] = @ + 1]
  BY DEF RowsSound, RowTypeInv, CreditsRow
<1>2. credits[r] \in Nat /\ credits' = [credits EXCEPT ![r] = credits[r] + 1]
  BY <1>1
<1> DEFINE n == credits[r] + 1
<1>3. n \in Nat /\ n > 0 /\ n >= credits[r] /\ credits' = [credits EXCEPT ![r] = n]
  BY <1>2
<1> HIDE DEF n
<1>4. credits' \in [Rows -> Nat] /\ credits'[r] = n /\ \A q \in Rows \ {r} : credits'[q] = credits[q]
  BY <1>1, <1>3
<1>5. \A q \in Rows : credits[q] \in Nat
  BY <1>1
<1> QED BY <1>3, <1>4, <1>5

LEMMA HandleClears ==
    ASSUME RowsSound, OnceInv, RowsClear, NEW a \in Actors, Handle(a)
    PROVE  RowsClear' /\ \A q \in Rows : Cleared(q) => Clear(row'[q], credits'[q])
<1> DEFINE r == task[a].id
<1>0. /\ row \in [Rows -> Row \cup {NoRow}] /\ task \in [Actors -> Task] /\ task[a] \in Task
      /\ Shaped(task[a]) /\ credits \in [Rows -> Nat]
      /\ \A q \in Rows : credits[q] \in Nat /\ credits[q] >= credits[q]
  BY SoundParts DEF RowsSound, RowTypeInv
<1>1. r \in Rows /\ ~Idle(a) /\ task[a].op \in Ops
  <2>1. task[a].step \in {"create", "check", "score", "topup", "credit", "save", "unblock", "revert"}
    BY DEF Handle, InsertRow, CheckDeposit, Score, Topup, Credit, SaveRow, UnblockWallet, Revert
  <2> QED BY <1>0, <2>1, HandlerParts, SoundParts DEF Idle, StepsOf
<1>2. \A b \in Actors \ {a} : task'[b] = task[b]
  BY HandleKeeps
<1>3. Working(task[a]) =>
          /\ task[a].obj \in Row /\ CopyClear(task[a], credits[r])
          /\ row[r].external => task[a].obj.external
  BY <1>0 DEF RowsClear, Shaped
<1>4. CASE InsertRow(a)
  <2>1. LedgerEnters(r) /\ task'[a].id = r
    BY <1>4, InsertRowOnce
  <2>2. r \notin Existing /\ r \in Existing' /\ credits' = credits
    BY <2>1 DEF LedgerEnters
  <2>3. PICK q \in Rows : row' = [row EXCEPT ![q] = Created]
            /\ task' = [task EXCEPT ![a] = [op |-> "insert", id |-> q, obj |-> Created, step |-> "check"]]
    BY <1>4 DEF InsertRow
  <2>4. q = r
    BY <1>0, <2>1, <2>3
  <2>5. row'[r] = Created /\ \A p \in Rows \ {r} : row'[p] = row[p]
    BY <1>0, <1>1, <2>3, <2>4
  <2>6. row[r] = NoRow
    BY <1>0, <1>1, <2>2, InRow DEF Existing, Exists
  <2>7. task'[a].obj = Created
    BY <1>0, <2>3
  <2>8. ~Created.external /\ ~NoRow.external /\ Created.state \in Early
    BY DEF Created, NoRow, Early
  <2>9. CopyClear(task'[a], credits'[r])
    BY <2>7, <2>8 DEF CopyClear
  <2> HIDE DEF r
  <2> QED BY <1>0, <1>1, <1>2, <2>1, <2>2, <2>5, <2>6, <2>7, <2>8, <2>9, ClearStep DEF r
<1>5. CASE CheckDeposit(a)
  <2>1. task[a].step = "check" /\ task[a].obj = Created /\ Working(task[a])
    BY <1>0, <1>5, HandlerParts DEF CheckDeposit, Shaped
  <2>2. task' = [task EXCEPT ![a] = NoTask] /\ credits' = credits
    BY <1>5 DEF CheckDeposit, Ends, ledgerVars
  <2>3. ~Created.external
    BY DEF Created
  <2>4. PICK s \in Early : row' = row \/ row' = [row EXCEPT ![r] = [Created EXCEPT !.state = s]]
    <3>1. "VERIFICATION_FAILED" \in Early /\ "WAITING_FOR_KYT_APPROVE" \in Early
      BY DEF Early, KytStates
    <3> QED BY <1>5, <2>1, <3>1 DEF CheckDeposit
  <2> DEFINE y == [Created EXCEPT !.state = s]
  <2>5. y.state = s /\ ~y.external
    BY DEF Created
  <2> HIDE DEF y
  <2>6. (\A q \in Rows \ {r} : row'[q] = row[q]) /\ (row'[r] = row[r] \/ row'[r] = y)
    BY <1>0, <1>1, <2>4 DEF y
  <2>7. ~Working(task'[a])
    BY <1>0, <2>2, Constants
  <2>8. ~row[r].external
    BY <1>3, <2>1, <2>3
  <2> HIDE DEF r
  <2> QED BY <1>0, <1>1, <1>2, <2>2, <2>5, <2>6, <2>7, <2>8, ClearStep DEF r
<1>6. CASE Score(a)
  <2>1. row' = row /\ credits' = credits /\ task[a].step = "score"
    BY <1>6 DEF Score, ledgerVars
  <2>2. PICK s \in {"topup", "save"},
             z \in Early \cup {"WAITING_FOR_ACCUMULATION", task[a].obj.state} :
            /\ task' = [task EXCEPT ![a].obj.state = z, ![a].step = s]
            /\ s = "save" => z \in Early
    BY <1>6 DEF Score, Scores, Early, KytStates
  <2>3. Working(task[a]) /\ task[a].obj \in Row /\ (row[r].external => task[a].obj.external)
    BY <1>0, <1>3, <2>1, HandlerParts
  <2> DEFINE x == [task[a].obj EXCEPT !.state = z]
  <2>4. task'[a] = Changed(task[a], x, s)
    BY <1>0, <2>2 DEF Changed
  <2>5. x.external = task[a].obj.external /\ x.state = z
    BY <2>3 DEF Row
  <2> HIDE DEF x
  <2>6. task'[a].id = r /\ task'[a].obj = x /\ task'[a].step = s
    <3>1. Changed(task[a], x, s).id = task[a].id /\ Changed(task[a], x, s).obj = x
          /\ Changed(task[a], x, s).step = s
      BY <1>0 DEF Changed, Task
    <3> QED BY <2>4, <3>1
  <2>7. CopyClear(task'[a], credits'[r])
    BY <2>2, <2>5, <2>6 DEF CopyClear
  <2> HIDE DEF r
  <2> QED BY <1>0, <1>1, <1>2, <2>1, <2>3, <2>5, <2>6, <2>7, ClearStep DEF r
<1>7. CASE Topup(a)
  <2>0. Working(task[a]) /\ task[a].obj \in Row /\ (row[r].external => task[a].obj.external)
    BY <1>0, <1>3, <1>7, HandlerParts DEF Topup
  <2>1. CASE transaction[r] = "none"
    <3> DEFINE y == [task[a].obj EXCEPT !.state = "WAITING_FOR_ACCUMULATION"]
    <3>1. /\ CreditsRow(r) /\ row' = [row EXCEPT ![r] = y]
          /\ task' = [task EXCEPT ![a].obj = y, ![a].step = AfterTopup(a)]
      BY <1>7, <2>1 DEF Topup
    <3>2. y.external = task[a].obj.external
      BY <2>0 DEF Row
    <3> HIDE DEF y
    <3>3. task'[a] = Changed(task[a], y, AfterTopup(a))
      BY <1>0, <3>1 DEF Changed
    <3>4. task'[a].id = r /\ task'[a].obj = y
      <4>1. Changed(task[a], y, AfterTopup(a)).id = task[a].id
            /\ Changed(task[a], y, AfterTopup(a)).obj = y
        BY <1>0 DEF Changed, Task
      <4> QED BY <3>3, <4>1
    <3>5. row'[r] = y /\ \A q \in Rows \ {r} : row'[q] = row[q]
      BY <1>0, <1>1, <3>1
    <3>6. /\ credits' \in [Rows -> Nat] /\ credits'[r] > 0
          /\ \A q \in Rows : credits'[q] >= credits[q]
      BY <1>1, <3>1, CreditsRowGrows
    <3>7. CopyClear(task'[a], credits'[r]) /\ Clear(row'[r], credits'[r])
      BY <3>6 DEF CopyClear, Clear
    <3> HIDE DEF r
    <3> QED BY <1>0, <1>1, <1>2, <2>0, <3>2, <3>4, <3>5, <3>6, <3>7, ClearStep DEF r
  <2>2. CASE transaction[r] # "none"
    <3>1. /\ UNCHANGED <<row, credits>>
          /\ \/ Goes(a, "credit")
             \/ transaction[r] = "COMPLETED" /\ Goes(a, AfterTopup(a))
      BY <1>7, <2>2 DEF Topup
    <3>2. PICK s \in Steps : /\ Goes(a, s)
                             /\ s = "credit" \/ transaction[r] = "COMPLETED"
      <4>1. AfterTopup(a) \in Steps /\ "credit" \in Steps
        BY DEF AfterTopup, Steps
      <4> QED BY <3>1, <4>1
    <3>3. PICK t \in Task : /\ task' = [task EXCEPT ![a] = t] /\ t.step = s
                            /\ t.op = task[a].op /\ t.id = task[a].id /\ t.obj = task[a].obj
      BY <3>2, GoesOn
    <3>4. task'[a] = t
      BY <1>0, <3>3
    <3>5. transaction[r] = "COMPLETED" => credits[r] > 0
      BY <1>1 DEF OnceInv, RowOnce
    <3>6. CopyClear(t, credits'[r])
      BY <3>1, <3>2, <3>3, <3>5 DEF CopyClear, Clear
    <3> HIDE DEF r
    <3> QED BY <1>0, <1>1, <1>2, <2>0, <3>1, <3>3, <3>4, <3>6, ClearStep DEF r
  <2> QED BY <2>1, <2>2
<1>8. CASE Credit(a)
  <2>1. row' = row /\ CreditsRow(r) /\ Goes(a, AfterTopup(a)) /\ AfterTopup(a) \in Steps
    BY <1>8 DEF Credit, AfterTopup, Steps
  <2>2. PICK t \in Task : /\ task' = [task EXCEPT ![a] = t]
                          /\ t.op = task[a].op /\ t.id = task[a].id /\ t.obj = task[a].obj
    BY <2>1, GoesOn
  <2>3. /\ credits' \in [Rows -> Nat] /\ credits'[r] > 0
        /\ \A q \in Rows : credits'[q] >= credits[q]
    BY <1>1, <2>1, CreditsRowGrows
  <2>4. CopyClear(t, credits'[r])
    BY <2>3 DEF CopyClear, Clear
  <2>5. task'[a] = t /\ (row[r].external => t.obj.external)
    BY <1>0, <1>3, <1>8, <2>2, HandlerParts DEF Credit
  <2> HIDE DEF r
  <2> QED BY <1>0, <1>1, <1>2, <2>1, <2>2, <2>3, <2>4, <2>5, ClearStep DEF r
<1>9. CASE SaveRow(a) \/ UnblockWallet(a) \/ Revert(a)
  <2>1. Working(task[a]) /\ task[a].step \notin {"topup", "credit"}
    BY <1>0, <1>9, HandlerParts DEF SaveRow, UnblockWallet, Revert
  <2>2. task' = [task EXCEPT ![a] = NoTask] /\ credits' = credits
    BY <1>9 DEF SaveRow, UnblockWallet, Revert, Ends, ledgerVars
  <2> DEFINE y == [task[a].obj EXCEPT !.reverted = TRUE]
  <2>3. y.external = task[a].obj.external /\ y.state = task[a].obj.state
    BY <1>3, <2>1 DEF Row
  <2>4. row' = row \/ row' = [row EXCEPT ![r] = task[a].obj] \/ row' = [row EXCEPT ![r] = y]
    BY <1>9 DEF SaveRow, UnblockWallet, Revert
  <2> HIDE DEF y
  <2>5. /\ \A q \in Rows \ {r} : row'[q] = row[q]
        /\ row'[r] = row[r] \/ row'[r] = task[a].obj \/ row'[r] = y
    BY <1>0, <1>1, <2>4
  <2>6. ~Working(task'[a])
    BY <1>0, <2>2, Constants
  <2>7. row'[r] = row[r] \/ row'[r].state \in Early \/ Clear(row'[r], credits'[r])
    BY <1>3, <2>1, <2>2, <2>3, <2>5 DEF CopyClear, Clear
  <2>8. row[r].external => row'[r].external
    BY <1>3, <2>1, <2>3, <2>5
  <2> HIDE DEF r
  <2> QED BY <1>0, <1>1, <1>2, <2>2, <2>5, <2>6, <2>7, <2>8, ClearStep DEF r
<1> QED BY <1>4, <1>5, <1>6, <1>7, <1>8, <1>9 DEF Handle

LEMMA BeginClears ==
    ASSUME RowsSound, RowsClear, NEW a \in Actors,
           Administrate(a) \/ \E r \in Rows : BeginScore(a, r)
    PROVE  RowsClear' /\ row' = row /\ credits' = credits
<1>1. row' = row /\ \A b \in Actors \ {a} : task'[b] = task[b]
  BY BeginKeeps
<1>2. /\ task'[a].id \in Rows
      /\ task'[a].obj = row[task'[a].id] \/ task'[a].obj.external
  BY BeginCopies
<1>3. credits' = credits
  BY DEF Administrate, BeginScore, BeginForce, BeginExternal, BeginRevert, Load, ledgerVars
<1>4. /\ CopyClear(task'[a], credits[task'[a].id])
      /\ row[task'[a].id].external => task'[a].obj.external
  BY <1>2 DEF RowsClear, CopyClear, Clear, Cleared
<1>5. \A b \in Actors :
          Working(task'[b]) =>
              /\ CopyClear(task'[b], credits[task'[b].id])
              /\ row[task'[b].id].external => task'[b].obj.external
  BY <1>1, <1>4 DEF RowsClear
<1> QED BY <1>1, <1>3, <1>5 DEF RowsClear, Cleared

===============================================================================

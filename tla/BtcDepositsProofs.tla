-------------------------- MODULE BtcDepositsProofs --------------------------
(***************************************************************************)
(* TLAPS proofs about BtcDeposits: it keeps the promise of DepositLedger,  *)
(* and a row is settled only with what went out for it.                    *)
(***************************************************************************)
EXTENDS BtcDepositsInv, WalletTransactionsProofs

-----------------------------------------------------------------------------
(* The chain.                                                              *)

Arrived == {d \in Deposits : Transfer(d) \in Mined}
Entered == {d \in Deposits : Exists(<<d, 1>>)}

LEMMA TransferParts ==
    ASSUME NEW d
    PROVE  /\ Transfer(d).kind = "deposit" /\ Transfer(d).row = <<d, 1>> /\ Transfer(d).row[1] = d
           /\ Transfer(d) \notin Moves
           /\ d \in Deposits => Transfer(d) \in Transfers /\ <<d, 1>> \in Rows
<1>1. 1 \in 1 .. Copies
  BY DepositAssumption
<1> QED BY <1>1 DEF Transfer, Moves, Transfers, Rows

LEMMA TransferInjective ==
    ASSUME NEW d, NEW e, Transfer(d) = Transfer(e) PROVE d = e
<1>1. Transfer(d).row[1] = d /\ Transfer(e).row[1] = e
  BY DEF Transfer
<1> QED BY <1>1

LEMMA MinedAppend ==
    ASSUME ChainSound, NEW x, blocks' = Append(blocks, x)
    PROVE  Mined' = Mined \cup {x}
BY DEF ChainSound, Mined

LEMMA MinedIs ==
    ASSUME ChainSound
    PROVE  /\ Mined = {blocks[i] : i \in 1 .. Len(blocks)}
           /\ Mined \subseteq Transfers \cup Moves
           /\ NewTransactions \subseteq Mined
BY DEF ChainSound, Mined, NewTransactions

(* Where chain, queue and pool do not change. *)
LEMMA ChainRests ==
    ASSUME ChainSound, UNCHANGED <<coming, blocks, last, pool, recorded>>, deferred' \subseteq Rows
    PROVE  ChainSound' /\ Mined' = Mined /\ Arrived' = Arrived
BY DEF ChainSound, Mined, Arrived, Transfer

LEMMA WorkRests ==
    ASSUME WorkSound, UNCHANGED work, pool \cup Mined \subseteq pool' \cup Mined'
    PROVE  WorkSound'
BY DEF WorkSound

LEMMA MovesKept ==
    ASSUME MovesHaveRows, \A r \in Rows : Exists(r) => row'[r].state # "none",
           \A t \in Moves : t \in pool' \cup Mined' \cup work'.todo =>
               t \in pool \cup Mined \cup work.todo \/ Exists(t.row)
    PROVE  MovesHaveRows'
<1>1. \A t \in Moves : t.row \in Rows
  BY DEF Moves
<1> QED BY <1>1 DEF MovesHaveRows, Exists

LEMMA SoundStart == BtcInit => SoundInv /\ OnceInv /\ SettledInv
<1> SUFFICES ASSUME BtcInit PROVE SoundInv /\ OnceInv /\ SettledInv
  OBVIOUS
<1>1. RowsSound /\ OnceInv
  BY RowsStart DEF BtcInit
<1>2. Mined = {}
  BY DEF BtcInit, Mined
<1>3. ChainSound
  <2>1. blocks \in Seq(Transfers \cup Moves) /\ last \in 0 .. Len(blocks)
    BY DEF BtcInit
  <2> QED BY <1>2, <2>1, BtcDepositAssumption DEF BtcInit, ChainSound
<1>4. WorkSound /\ MovesHaveRows
  BY <1>2 DEF BtcInit, WorkSound, NoWork, MovesHaveRows
<1>5. NoInserts /\ \A a \in Actors : ~Working(task[a])
  BY Constants DEF BtcInit, RowInit, NoInserts
<1>6. SettledInv
  <2>1. TodoAlone /\ AddressOK
    BY <1>2, <1>5 DEF BtcInit, NoWork, TodoAlone, AddressOK
  <2>2. \A r \in Rows : row[r].state = "none"
    BY Constants DEF BtcInit, RowInit
  <2> QED BY <1>5, <2>1, <2>2 DEF SettledInv, EvidenceOK, Evidence
<1> QED BY <1>1, <1>3, <1>4, <1>5, <1>6 DEF SoundInv

-----------------------------------------------------------------------------
(* The invariants that hold whatever races.                                *)

LEMMA UserTransfersSteps ==
    ASSUME SoundInv, UserTransfers
    PROVE  /\ SoundInv' /\ (OnceInv => OnceInv') /\ LedgerRests
           /\ \E d \in Deposits \ Arrived : Arrived' = Arrived \cup {d} /\ Mined' = Mined \cup {Transfer(d)}
<1>1. PICK d \in coming : coming' = coming \ {d} /\ blocks' = Append(blocks, Transfer(d))
  BY DEF UserTransfers
<1>2. UNCHANGED <<row, transaction, balance, block, task, troubles, credits, charges, forced,
                  last, deferred, pool, recorded, completed, work>>
  BY DEF UserTransfers, rowVars, walletVars, ledgerVars, sentVars
<1>3. Mined' = Mined \cup {Transfer(d)}
  BY <1>1, MinedAppend DEF SoundInv
<1>4. d \in Deposits /\ d \notin Arrived
  BY DEF SoundInv, ChainSound, Arrived
<1>5. Arrived' = Arrived \cup {d}
  BY <1>3, <1>4, TransferInjective DEF Arrived, Transfer
<1>6. ChainSound'
  <2>1. blocks' \in Seq(Transfers \cup Moves) /\ Len(blocks') = Len(blocks) + 1 /\ Len(blocks) \in Nat
    <3>1. Transfer(d) \in Transfers \cup Moves /\ blocks \in Seq(Transfers \cup Moves)
      BY <1>4, TransferParts DEF SoundInv, ChainSound
    <3> QED BY <1>1, <3>1
  <2>2. last \in 0 .. Len(blocks')
    BY <2>1 DEF SoundInv, ChainSound
  <2>3. \A e \in coming' : Transfer(e) \notin Mined'
    BY <1>1, <1>3, TransferInjective DEF SoundInv, ChainSound
  <2> QED BY <1>1, <1>2, <1>3, <2>1, <2>2, <2>3 DEF SoundInv, ChainSound, Transfer
<1>7. WorkSound'
  BY <1>2, <1>3, WorkRests DEF SoundInv
<1>8. MovesHaveRows'
  <2>1. Transfer(d) \notin Moves
    BY TransferParts
  <2> QED BY <1>2, <1>3, <2>1 DEF SoundInv, MovesHaveRows, Exists
<1>9. NoInserts'
  BY <1>2 DEF SoundInv, NoInserts
<1> QED BY <1>2, <1>3, <1>4, <1>5, <1>6, <1>7, <1>8, <1>9, RowsRest DEF SoundInv

LEMMA MineSteps ==
    ASSUME SoundInv, MineAccumulation
    PROVE  /\ SoundInv' /\ (OnceInv => OnceInv') /\ LedgerRests /\ Arrived' = Arrived
           /\ pool' \cup Mined' = pool \cup Mined /\ Mined \subseteq Mined'
<1>1. PICK t \in pool : blocks' = Append(blocks, t) /\ pool' = pool \ {t}
  BY DEF MineAccumulation
<1>2. UNCHANGED <<row, transaction, balance, block, task, troubles, credits, charges, forced,
                  coming, last, deferred, recorded, completed, work>>
  BY DEF MineAccumulation, rowVars, walletVars, ledgerVars
<1>3. Mined' = Mined \cup {t} /\ t \in Moves
  BY <1>1, MinedAppend DEF SoundInv, ChainSound
<1>4. Arrived' = Arrived
  BY <1>3, TransferParts DEF Arrived, Transfer
<1>5. pool' \cup Mined' = pool \cup Mined /\ Mined \subseteq Mined'
  BY <1>1, <1>3
<1>6. ChainSound'
  <2>1. blocks' \in Seq(Transfers \cup Moves) /\ Len(blocks') = Len(blocks) + 1 /\ Len(blocks) \in Nat
    BY <1>1, <1>3 DEF SoundInv, ChainSound
  <2>2. last \in 0 .. Len(blocks')
    BY <2>1 DEF SoundInv, ChainSound
  <2>3. \A d \in coming : Transfer(d) \notin Mined'
    BY <1>3, TransferParts DEF SoundInv, ChainSound
  <2> QED BY <1>1, <1>2, <1>5, <2>1, <2>2, <2>3 DEF SoundInv, ChainSound, Transfer
<1>7. WorkSound'
  BY <1>2, <1>5, WorkRests DEF SoundInv
<1>8. MovesHaveRows'
  BY <1>2, <1>5 DEF SoundInv, MovesHaveRows, Exists
<1>9. NoInserts'
  BY <1>2 DEF SoundInv, NoInserts
<1> QED BY <1>2, <1>4, <1>5, <1>6, <1>7, <1>8, <1>9, RowsRest DEF SoundInv

(* What the scan writes: rows of transfers that have none, and what was    *)
(* recorded as sent is settled.                                            *)
LEMMA ScannedParts ==
    ASSUME SoundInv, NEW r \in Rows
    PROVE  /\ r \in EntersNow =>
                /\ ~Exists(r) /\ Scanned(r) \in Row /\ Scanned(r).state \in Unsettled
                /\ ~Scanned(r).reverted /\ ~Scanned(r).external
                /\ r[1] \in Arrived
           /\ r \notin EntersNow =>
                \/ Scanned(r) = row[r]
                \/ /\ Exists(r) /\ Scanned(r) \in Row /\ Scanned(r).state = Accumulated(r)
                   /\ Scanned(r).reverted = row[r].reverted /\ Scanned(r).external = row[r].external
                   /\ \E t \in Moves \cap Mined : t.row = r
<1>1. ASSUME r \in EntersNow
      PROVE  /\ ~Exists(r) /\ Scanned(r) \in Row /\ Scanned(r).state \in Unsettled
             /\ ~Scanned(r).reverted /\ ~Scanned(r).external
             /\ r[1] \in Arrived
  <2>1. PICK t \in NewTransactions : t.kind = "deposit" /\ t.row = r /\ ~Exists(r)
    BY <1>1 DEF EntersNow, ToEnter
  <2>2. t \in Mined /\ t \in Transfers
    BY <2>1, MinedIs DEF SoundInv, Moves
  <2>3. PICK d \in Deposits : t = Transfer(d)
    BY <2>2 DEF Transfers
  <2>4. r[1] \in Arrived
    BY <2>1, <2>2, <2>3, TransferParts DEF Arrived
  <2>5. PICK z \in {"WAITING_FOR_KYT_APPROVE", "VERIFICATION_FAILED"} :
            Scanned(r) = [Created EXCEPT !.state = z]
    <3> DEFINE kyt == [Created EXCEPT !.state = "WAITING_FOR_KYT_APPROVE"]
               failed == [Created EXCEPT !.state = "VERIFICATION_FAILED"]
               settled == [row[r] EXCEPT !.state = Accumulated(r)]
               sent == r \in {u.row : u \in ToComplete} /\ ~Settled(r)
    <3>1. Scanned(r) = CASE r \in EntersNow /\ Accepted(r) -> kyt
                        [] r \in EntersNow /\ ~Accepted(r) -> failed
                        [] sent -> settled
                        [] OTHER -> row[r]
      BY DEF Scanned
    <3>2. ~sent
      <4> SUFFICES ASSUME NEW u \in ToComplete, u.row = r PROVE FALSE
        OBVIOUS
      <4>1. u \in Moves \cap (pool \cup Mined)
        BY DEF ToComplete, SoundInv, ChainSound
      <4> QED BY <2>1, <4>1 DEF SoundInv, MovesHaveRows
    <3> HIDE DEF kyt, failed, settled, sent
    <3>3. Scanned(r) = kyt \/ Scanned(r) = failed
      <4>1. CASE Accepted(r)
        BY <1>1, <3>1, <3>2, <4>1
      <4>2. CASE ~Accepted(r)
        BY <1>1, <3>1, <3>2, <4>2
      <4> QED BY <4>1, <4>2
    <3>4. Scanned(r) \in {[Created EXCEPT !.state = x] :
                              x \in {"WAITING_FOR_KYT_APPROVE", "VERIFICATION_FAILED"}}
      BY <3>3 DEF kyt, failed
    <3> QED BY <3>4
  <2>6. z \in States /\ z \in Unsettled
    BY DEF States, KytStates, Unsettled
  <2>7. Scanned(r) \in Row /\ Scanned(r).state = z /\ ~Scanned(r).reverted /\ ~Scanned(r).external
    BY <2>5, <2>6 DEF Created, Row
  <2> QED BY <2>1, <2>4, <2>6, <2>7
<1>2. ASSUME r \notin EntersNow, Scanned(r) # row[r]
      PROVE  /\ Exists(r) /\ Scanned(r) \in Row /\ Scanned(r).state = Accumulated(r)
             /\ Scanned(r).reverted = row[r].reverted /\ Scanned(r).external = row[r].external
             /\ \E t \in Moves \cap Mined : t.row = r
  <2>1. PICK t \in ToComplete : t.row = r /\ Scanned(r) = [row[r] EXCEPT !.state = Accumulated(r)]
    BY <1>2 DEF Scanned
  <2>2. t \in Moves \cap Mined
    BY <2>1, MinedIs DEF SoundInv, ChainSound, ToComplete
  <2>3. Exists(r)
    BY <2>1, <2>2 DEF SoundInv, MovesHaveRows
  <2>4. row[r] \in Row /\ Accumulated(r) \in States
    BY <2>3, InRow DEF SoundInv, RowsSound, RowTypeInv, Exists, Accumulated, States
  <2> QED BY <2>1, <2>2, <2>3, <2>4 DEF Row
<1> QED BY <1>1, <1>2

LEMMA ScanSteps ==
    ASSUME SoundInv, ProcessNewBlocks
    PROVE  /\ SoundInv' /\ (OnceInv => OnceInv') /\ Arrived' = Arrived
           /\ UNCHANGED <<balance, credits, charges, task, pool, blocks>>
           /\ \A r \in Rows : row'[r] = Scanned(r)
<1>1. /\ row' = [r \in Rows |-> Scanned(r)]
      /\ transaction' = [r \in Rows |->
                            IF r \in EntersNow /\ Accepted(r) THEN "PENDING" ELSE transaction[r]]
      /\ deferred' \subseteq deferred \cup ToEnter /\ last' = Len(blocks)
      /\ UNCHANGED <<balance, block, task, troubles, credits, charges, forced, coming, blocks,
                     pool, recorded, work>>
  BY DEF ProcessNewBlocks, ledgerVars
<1>2. \A r \in Rows : row'[r] = Scanned(r)
  BY <1>1
<1>3. /\ row' \in [Rows -> Row \cup {NoRow}]
      /\ \A r \in Rows : Exists(r) => row'[r].state # "none" /\ row'[r].reverted = row[r].reverted
      /\ \A r \in Rows : row'[r] # row[r] => row'[r] \in Row
  <2>1. ASSUME NEW r \in Rows
        PROVE  /\ Scanned(r) \in Row \cup {NoRow}
               /\ Exists(r) => Scanned(r).state # "none" /\ Scanned(r).reverted = row[r].reverted
               /\ Scanned(r) # row[r] => Scanned(r) \in Row
    <3>1. row[r] \in Row \cup {NoRow}
      BY DEF SoundInv, RowsSound, RowTypeInv
    <3> QED BY <3>1, ScannedParts, InRow DEF Exists
  <2> QED BY <1>1, <1>2, <2>1
<1>4. transaction' \in [Rows -> {"none", "PENDING", "COMPLETED"}]
  BY <1>1 DEF SoundInv, RowsSound, RowTypeInv
<1>5. RowsSound'
  BY <1>1, <1>3, <1>4 DEF SoundInv, RowsSound, RowTypeInv, Exists, Shaped, Working
<1>6. Mined' = Mined /\ Arrived' = Arrived
  BY <1>1 DEF Mined, Arrived, Transfer
<1>7. ChainSound'
  <2>1. ToEnter \subseteq Rows
    <3> SUFFICES ASSUME NEW t \in NewTransactions, t.kind = "deposit" PROVE t.row \in Rows
      BY DEF ToEnter
    <3>1. PICK d \in Deposits : t = Transfer(d)
      BY MinedIs DEF SoundInv, Moves, Transfers
    <3> QED BY <3>1, TransferParts
  <2>2. last' \in 0 .. Len(blocks)
    BY <1>1 DEF SoundInv, ChainSound
  <2> QED BY <1>1, <1>6, <2>1, <2>2 DEF SoundInv, ChainSound, Transfer
<1>8. WorkSound'
  BY <1>1, <1>6, WorkRests DEF SoundInv
<1>9. MovesHaveRows'
  BY <1>1, <1>3, <1>6, MovesKept DEF SoundInv, MovesHaveRows
<1>10. NoInserts'
  BY <1>1 DEF SoundInv, NoInserts
<1>11. ASSUME OnceInv PROVE OnceInv'
  <2>1. OneHandler'
    BY <1>1, <1>11 DEF OnceInv, OneHandler, Idle
  <2>2. ASSUME NEW r \in Rows PROVE RowOnce(row'[r], r[2], transaction'[r], credits'[r], charges'[r])
    <3>1. r[2] = 1
      BY RowParts, BtcDepositAssumption
    <3>2. RowOnce(row[r], r[2], transaction[r], credits[r], charges[r])
      BY <1>11 DEF OnceInv
    <3>3. CASE r \in EntersNow
      <4>1. ~Exists(r) /\ row'[r] \in Row /\ ~row'[r].reverted
        BY <1>2, <3>3, ScannedParts
      <4>2. row'[r].state # "none"
        BY <4>1, InRow
      <4>3. transaction'[r] \in {"none", "PENDING"}
        BY <1>1, <3>2, <4>1 DEF RowOnce, Exists
      <4> QED BY <1>1, <3>1, <3>2, <4>1, <4>2, <4>3 DEF RowOnce, Exists
    <3>4. CASE r \notin EntersNow
      <4>1. transaction'[r] = transaction[r]
        BY <1>1, <3>4
      <4>2. row'[r] = row[r] \/ Exists(r)
        BY <1>2, <3>4, ScannedParts
      <4> QED BY <1>1, <1>3, <3>1, <3>2, <4>1, <4>2 DEF RowOnce, Exists
    <3> QED BY <3>3, <3>4
  <2>3. ASSUME NEW a \in Actors, ~Idle(a)
        PROVE  TaskOnce(task[a], row'[task[a].id], transaction'[task[a].id])
    <3>1. task[a].id \in Rows /\ Working(task[a]) /\ Exists(task[a].id)
      BY <2>3, SoundParts, HandlerParts DEF SoundInv, NoInserts, Working, Idle
    <3>2. transaction'[task[a].id] = transaction[task[a].id]
      BY <1>1, <3>1 DEF EntersNow
    <3>3. TaskOnce(task[a], row[task[a].id], transaction[task[a].id])
      BY <1>11, <2>3 DEF OnceInv
    <3>4. row'[task[a].id].reverted = row[task[a].id].reverted
      BY <1>3, <3>1
    <3> QED BY <3>1, <3>2, <3>3, <3>4 DEF TaskOnce, Working, Inserting
  <2> QED BY <1>1, <2>1, <2>2, <2>3 DEF OnceInv, Idle
<1> QED BY <1>1, <1>2, <1>5, <1>6, <1>7, <1>8, <1>9, <1>10, <1>11 DEF SoundInv

LEMMA DeferredSteps ==
    ASSUME SoundInv, DeferredDeposit
    PROVE  /\ SoundInv' /\ (OnceInv => OnceInv') /\ LedgerRests /\ Arrived' = Arrived
           /\ UNCHANGED <<row, task, pool, blocks, work>>
<1>1. /\ UNCHANGED <<row, transaction, balance, task, troubles, credits, charges, forced,
                     coming, blocks, last, pool, recorded, completed, work>>
      /\ deferred' \subseteq deferred
  BY DEF DeferredDeposit, ledgerVars, sentVars
<1>2. block' \in [Wallets -> {"no", "deposit", "all"}]
  BY DEF DeferredDeposit, SoundInv, RowsSound, RowTypeInv
<1>3. ChainSound' /\ Mined' = Mined /\ Arrived' = Arrived
  BY <1>1, ChainRests DEF SoundInv, ChainSound
<1>4. RowsSound'
  BY <1>1, <1>2 DEF SoundInv, RowsSound, RowTypeInv, Exists
<1>5. WorkSound'
  BY <1>1, <1>3, WorkRests DEF SoundInv
<1>6. MovesHaveRows' /\ NoInserts'
  BY <1>1, <1>3 DEF SoundInv, MovesHaveRows, Exists, NoInserts
<1>7. OnceInv => OnceInv'
  BY <1>1 DEF OnceInv, OneHandler, Idle
<1> QED BY <1>1, <1>3, <1>4, <1>5, <1>6, <1>7, RestsIf DEF SoundInv

LEMMA BeginSteps ==
    ASSUME SoundInv, CheckForScoring \/ \E a \in Admins : AdminActs(a)
    PROVE  /\ SoundInv' /\ LedgerRests /\ Arrived' = Arrived
           /\ OnceInv /\ "together" \notin Races => OnceInv'
           /\ UNCHANGED <<row, pool, blocks, work>>
<1>1. PICK a \in Actors : Administrate(a) \/ \E r \in Rows : BeginScore(a, r)
  BY BtcDepositAssumption DEF CheckForScoring, AdminActs, WaitingForKyt
<1>2. UNCHANGED <<coming, blocks, last, deferred, pool, recorded, completed, work>>
  BY DEF CheckForScoring, AdminActs, chainVars, sentVars
<1>3. /\ RowsSound' /\ LedgerRests
      /\ OnceInv /\ "together" \notin Races => OnceInv'
  <2>1. CASE Administrate(a)
    BY <2>1, AdministrateSteps DEF SoundInv
  <2>2. CASE \E r \in Rows : BeginScore(a, r)
    BY <2>2, Loads DEF SoundInv, BeginScore
  <2> QED BY <1>1, <2>1, <2>2
<1>4. row' = row /\ task'[a].op # "insert" /\ \A b \in Actors \ {a} : task'[b] = task[b]
  BY <1>1, BeginKeeps DEF SoundInv
<1>5. ChainSound' /\ Mined' = Mined /\ Arrived' = Arrived
  BY <1>2, ChainRests DEF SoundInv, ChainSound
<1>6. WorkSound'
  BY <1>2, <1>5, WorkRests DEF SoundInv
<1>7. MovesHaveRows' /\ NoInserts'
  BY <1>2, <1>4, <1>5 DEF SoundInv, MovesHaveRows, Exists, NoInserts
<1> QED BY <1>2, <1>3, <1>4, <1>5, <1>6, <1>7 DEF SoundInv

LEMMA HandlerSteps ==
    ASSUME SoundInv, NEW a \in Actors, RunHandler(a) \/ Crash(a)
    PROVE  /\ SoundInv' /\ Arrived' = Arrived /\ (OnceInv => OnceInv')
           /\ OnceInv => LedgerRests \/ LedgerCredits(task[a].id) \/ LedgerCharges(task[a].id)
           /\ UNCHANGED <<pool, blocks, work>>
<1>1. UNCHANGED <<coming, blocks, last, deferred, pool, recorded, completed, work>>
  BY DEF RunHandler, Crash, chainVars, sentVars
<1>2. task[a].op # "insert"
  BY DEF SoundInv, NoInserts
<1>3. /\ RowsSound' /\ (OnceInv => OnceInv')
      /\ OnceInv => LedgerRests \/ LedgerCredits(task[a].id) \/ LedgerCharges(task[a].id)
  BY <1>2, HandleSteps, DieSteps DEF SoundInv, RunHandler, Crash, InsertRow
<1>4. /\ \A b \in Actors \ {a} : task'[b] = task[b]
      /\ task'[a].op # "insert"
      /\ \A r \in Rows : Exists(r) => row'[r].state # "none"
  <2>1. CASE RunHandler(a)
    BY <1>2, <2>1, HandleKeeps, HandleCopies, Constants DEF SoundInv, RunHandler
  <2>2. CASE Crash(a)
    BY <2>2, Constants DEF Crash, Die, Ends, Exists, SoundInv, RowsSound, RowTypeInv
  <2> QED BY <2>1, <2>2
<1>5. ChainSound' /\ Mined' = Mined /\ Arrived' = Arrived
  BY <1>1, ChainRests DEF SoundInv, ChainSound
<1>6. WorkSound'
  BY <1>1, <1>5, WorkRests DEF SoundInv
<1>7. MovesHaveRows'
  BY <1>1, <1>4, <1>5, MovesKept DEF SoundInv, MovesHaveRows
<1>8. NoInserts'
  BY <1>4 DEF SoundInv, NoInserts
<1> QED BY <1>1, <1>3, <1>5, <1>6, <1>7, <1>8 DEF SoundInv

LEMMA BlocksSteps ==
    ASSUME SoundInv, WalletBlocks \/ UNCHANGED vars
    PROVE  /\ SoundInv' /\ (OnceInv => OnceInv') /\ LedgerRests /\ Arrived' = Arrived
           /\ UNCHANGED <<row, task, pool, blocks, work>>
<1>1. UNCHANGED <<coming, blocks, last, deferred, pool, recorded, completed, work, row, task>>
  BY DEF WalletBlocks, BlockWallet, LiftBlock, vars, rowVars, walletVars, chainVars, sentVars
<1>2. RowsSound' /\ (OnceInv => OnceInv') /\ LedgerRests
  BY BlockSteps, RowsRest DEF SoundInv, WalletBlocks, vars, rowVars, walletVars, ledgerVars
<1>3. ChainSound' /\ Mined' = Mined /\ Arrived' = Arrived
  BY <1>1, ChainRests DEF SoundInv, ChainSound
<1>4. WorkSound'
  BY <1>1, <1>3, WorkRests DEF SoundInv
<1>5. MovesHaveRows' /\ NoInserts'
  BY <1>1, <1>3 DEF SoundInv, MovesHaveRows, Exists, NoInserts
<1> QED BY <1>1, <1>2, <1>3, <1>4, <1>5 DEF SoundInv

(* A run of accumulate that begins a pass, ends or dies. *)
LEMMA PassSteps ==
    ASSUME SoundInv, StartAccumulate \/ NextPass \/ AccumulateDies
    PROVE  /\ SoundInv' /\ (OnceInv => OnceInv') /\ LedgerRests /\ Arrived' = Arrived
           /\ UNCHANGED <<row, task, pool, blocks>>
           /\ \/ work'.todo = {}
              \/ \E S \in SUBSET Rows : work'.todo = Spending(S) /\ Alone(S)
<1>1. /\ UNCHANGED <<row, transaction, balance, block, task, credits, charges, forced,
                     coming, blocks, last, deferred, pool, recorded, completed>>
      /\ troubles' \in 0 .. MaxTroubles
  BY DepositAssumption DEF StartAccumulate, NextPass, AccumulateDies, rowVars, walletVars, ledgerVars,
         chainVars, sentVars, SoundInv, RowsSound, RowTypeInv
<1>2. RowsSound' /\ (OnceInv => OnceInv') /\ LedgerRests
  <2>1. RowsSound'
    BY <1>1 DEF SoundInv, RowsSound, RowTypeInv, Exists
  <2>2. OnceInv => OnceInv'
    BY <1>1 DEF OnceInv, OneHandler, Idle
  <2> QED BY <1>1, <2>1, <2>2, RestsIf
<1>3. ChainSound' /\ Mined' = Mined /\ Arrived' = Arrived
  BY <1>1, ChainRests DEF SoundInv, ChainSound
<1>4. ASSUME NEW S \in SUBSET Rows, \A r \in S : Ready(r)
      PROVE  Spending(S) \in SUBSET Moves /\ \A t \in Spending(S) : Exists(t.row)
  <2>1. ASSUME NEW r \in S
        PROVE  /\ [kind |-> IF row[r].external THEN "external" ELSE "accumulate", row |-> r] \in Moves
               /\ Exists(r)
    BY <1>4 DEF Moves, Ready, ReadyStates, Exists
  <2> QED BY <2>1 DEF Spending
<1>5. Oldest \in SUBSET Rows /\ ExternalReady \in SUBSET Rows
      /\ (\A r \in Oldest : Ready(r)) /\ \A r \in ExternalReady : Ready(r)
  BY DEF Oldest, ExternalReady, ReadyForAccumulation
<1>6. /\ WorkSound' /\ (work'.todo = {} \/ \E S \in SUBSET Rows :
                            work'.todo = Spending(S) /\ Alone(S) /\ \A r \in S : Ready(r))
  <2>0. work.step = "next" => work.step \notin {"record", "mark", "idle"}
    OBVIOUS
  <2>1. NoTx \in Moves \cup {NoTx}
    OBVIOUS
  <2>2. CASE StartAccumulate
    <3>1. work' = [NoWork EXCEPT !.step = "next", !.todo = Spending(Oldest)]
      BY <2>2 DEF StartAccumulate, Works
    <3>2. work' = [step |-> "next", pass |-> 1, todo |-> Spending(Oldest), tx |-> NoTx]
      BY <3>1 DEF NoWork
    <3> QED BY <1>4, <1>5, <2>2, <3>2 DEF WorkSound, StartAccumulate
  <2>3. CASE AccumulateDies
    BY <2>3 DEF AccumulateDies, Works, WorkSound, NoWork
  <2>4. CASE NextPass
    <3>1. CASE work.pass = 1 /\ ExternalReady # {}
      <4>1. work' = [work EXCEPT !.pass = 2, !.todo = Spending(ExternalReady)]
            /\ work.step = "next" /\ Alone(ExternalReady)
        BY <2>4, <3>1 DEF NextPass, Works
      <4>2. /\ work' \in [step : {"idle", "next", "record", "mark"}, pass : {1, 2},
                           todo : SUBSET Moves, tx : Moves \cup {NoTx}]
            /\ work'.step = "next" /\ work'.todo = Spending(ExternalReady)
        BY <1>4, <1>5, <4>1 DEF SoundInv, WorkSound
      <4> QED BY <1>5, <4>1, <4>2 DEF WorkSound
    <3>2. CASE ~(work.pass = 1 /\ ExternalReady # {})
      BY <2>4, <3>2 DEF NextPass, Works, WorkSound, NoWork
    <3> QED BY <3>1, <3>2
  <2> QED BY <2>2, <2>3, <2>4
<1>7. MovesHaveRows'
  <2>1. \A t \in Moves : t \in work'.todo => Exists(t.row)
    BY <1>4, <1>6
  <2> QED BY <1>1, <1>3, <2>1 DEF SoundInv, MovesHaveRows, Exists
<1>8. NoInserts'
  BY <1>1 DEF SoundInv, NoInserts
<1> QED BY <1>1, <1>2, <1>3, <1>6, <1>7, <1>8 DEF SoundInv

LEMMA SendSteps ==
    ASSUME SoundInv, SendAccumulation \/ RecordAccumulation
    PROVE  /\ SoundInv' /\ (OnceInv => OnceInv') /\ LedgerRests /\ Arrived' = Arrived
           /\ UNCHANGED <<row, task, blocks>> /\ work'.todo \subseteq work.todo
           /\ pool \subseteq pool' /\ pool' \subseteq pool \cup work.todo
<1>1. UNCHANGED <<row, transaction, balance, block, task, troubles, credits, charges, forced,
                  coming, blocks, last, deferred, completed>>
  BY DEF SendAccumulation, RecordAccumulation, rowVars, walletVars, ledgerVars, chainVars
<1>2. Mined' = Mined /\ Arrived' = Arrived
  BY <1>1 DEF Mined, Arrived, Transfer
<1>3. /\ WorkSound' /\ work'.todo \subseteq work.todo
      /\ pool \subseteq pool' /\ pool' \subseteq pool \cup work.todo
      /\ recorded' \subseteq Moves \cap (pool' \cup Mined)
  <2>1. CASE SendAccumulation
    <3>1. PICK t \in work.todo :
              /\ work.step = "next" /\ pool' = pool \cup {t} /\ recorded' = recorded
              /\ work' = [work EXCEPT !.step = "record", !.todo = @ \ {t}, !.tx = t]
      BY <2>1 DEF SendAccumulation, Works
    <3>2. t \in Moves /\ work.todo \in SUBSET Moves
      BY DEF SoundInv, WorkSound
    <3>3. /\ work' \in [step : {"idle", "next", "record", "mark"}, pass : {1, 2},
                         todo : SUBSET Moves, tx : Moves \cup {NoTx}]
          /\ work'.step = "record" /\ work'.tx = t /\ work'.todo = work.todo \ {t}
      BY <3>1, <3>2 DEF SoundInv, WorkSound
    <3> QED BY <1>2, <3>1, <3>2, <3>3 DEF WorkSound, SoundInv, ChainSound
  <2>2. CASE RecordAccumulation
    <3>1. /\ work.step = "record" /\ recorded' = recorded \cup {work.tx} /\ pool' = pool
          /\ work' = [work EXCEPT !.step = "mark"]
      BY <2>2 DEF RecordAccumulation, Works
    <3>2. /\ work' \in [step : {"idle", "next", "record", "mark"}, pass : {1, 2},
                         todo : SUBSET Moves, tx : Moves \cup {NoTx}]
          /\ work'.step = "mark" /\ work'.tx = work.tx /\ work'.todo = work.todo
      BY <3>1 DEF SoundInv, WorkSound
    <3> QED BY <1>2, <3>1, <3>2 DEF WorkSound, SoundInv, ChainSound
  <2> QED BY <2>1, <2>2
<1>4. ChainSound'
  BY <1>1, <1>2, <1>3 DEF SoundInv, ChainSound, WorkSound, Transfer
<1>5. MovesHaveRows'
  BY <1>1, <1>2, <1>3 DEF SoundInv, MovesHaveRows, Exists
<1>6. NoInserts'
  BY <1>1 DEF SoundInv, NoInserts
<1> QED BY <1>1, <1>2, <1>3, <1>4, <1>5, <1>6, RowsRest DEF SoundInv

LEMMA MarkSteps ==
    ASSUME SoundInv, AmountTooLow \/ MarkInProgress
    PROVE  /\ SoundInv' /\ (OnceInv => OnceInv') /\ LedgerRests /\ Arrived' = Arrived
           /\ UNCHANGED <<task, pool, blocks>> /\ work'.todo \subseteq work.todo
           /\ \A r \in Rows :
                  row'[r] = row[r]
                    \/ (row'[r].state \in Unsettled /\ row'[r].external = row[r].external)
<1>1. PICK r \in Rows, s \in {"BALANCE_TOO_LOW", "ACCUMULATION_IN_PROGRESS"} :
          Exists(r) /\ SetsState(r, s)
  <2>1. CASE AmountTooLow
    BY <2>1 DEF AmountTooLow, SoundInv, WorkSound, MovesHaveRows, Moves
  <2>2. CASE MarkInProgress
    <3>1. work.tx \in Moves /\ work.tx \in pool \cup Mined
      BY <2>2 DEF MarkInProgress, SoundInv, WorkSound
    <3>2. work.tx.row \in Rows /\ Exists(work.tx.row)
      BY <3>1 DEF SoundInv, MovesHaveRows, Moves
    <3> QED BY <2>2, <3>2 DEF MarkInProgress
  <2> QED BY <2>1, <2>2
<1>2. UNCHANGED <<transaction, balance, block, task, troubles, credits, charges, forced,
                  coming, blocks, last, deferred, pool, recorded, completed>>
  BY DEF AmountTooLow, MarkInProgress, besideRow, ledgerVars, chainVars, sentVars
<1>3. s \in States /\ s \in Unsettled
  BY DEF States, Unsettled
<1>4. /\ RowsSound' /\ (OnceInv => OnceInv') /\ LedgerRests
      /\ row'[r].state = s /\ row'[r].external = row[r].external
      /\ \A q \in Rows \ {r} : row'[q] = row[q]
  BY <1>1, <1>2, <1>3, SetsStateSteps DEF SoundInv
<1>5. ChainSound' /\ Mined' = Mined /\ Arrived' = Arrived
  BY <1>2, ChainRests DEF SoundInv, ChainSound
<1>6. WorkSound' /\ work'.todo \subseteq work.todo
  <2>1. CASE AmountTooLow
    <3>1. PICK t : work' = [work EXCEPT !.todo = @ \ {t}] /\ work.step = "next"
      BY <2>1 DEF AmountTooLow, Works
    <3>2. /\ work' \in [step : {"idle", "next", "record", "mark"}, pass : {1, 2},
                         todo : SUBSET Moves, tx : Moves \cup {NoTx}]
          /\ work'.step = "next" /\ work'.todo = work.todo \ {t}
      BY <3>1 DEF SoundInv, WorkSound
    <3> QED BY <3>2 DEF WorkSound
  <2>2. CASE MarkInProgress
    <3>1. work' = [work EXCEPT !.step = "next", !.tx = NoTx]
      BY <2>2 DEF MarkInProgress, Works
    <3>2. /\ work' \in [step : {"idle", "next", "record", "mark"}, pass : {1, 2},
                         todo : SUBSET Moves, tx : Moves \cup {NoTx}]
          /\ work'.step = "next" /\ work'.todo = work.todo
      BY <3>1 DEF SoundInv, WorkSound
    <3> QED BY <3>2 DEF WorkSound
  <2> QED BY <2>1, <2>2
<1>7. MovesHaveRows'
  <2>1. \A q \in Rows : Exists(q) => row'[q].state # "none"
    BY <1>1, <1>4 DEF Exists
  <2> QED BY <1>2, <1>5, <1>6, <2>1, MovesKept DEF SoundInv, MovesHaveRows
<1>8. NoInserts'
  BY <1>2 DEF SoundInv, NoInserts
<1>9. \A q \in Rows :
          row'[q] = row[q] \/ (row'[q].state \in Unsettled /\ row'[q].external = row[q].external)
  BY <1>3, <1>4
<1> QED BY <1>2, <1>4, <1>5, <1>6, <1>7, <1>8, <1>9 DEF SoundInv

LEMMA NextSound ==
    ASSUME SoundInv, [BtcNext]_vars
    PROVE  SoundInv' /\ (OnceInv /\ "together" \notin Races => OnceInv')
BY UserTransfersSteps, MineSteps, ScanSteps, DeferredSteps, BeginSteps, HandlerSteps, BlocksSteps,
   PassSteps, SendSteps, MarkSteps DEF BtcNext, Accumulate

(* Rows, handlers, the chain and the run of accumulate keep their shape,   *)
(* and whatever was sent or is about to be was sent for a row of the       *)
(* table, whatever races (process_new_blocks, accumulate). *)
THEOREM Sound == BtcSpec => []SoundInv
<1>1. BtcInit => SoundInv
  BY SoundStart
<1>2. SoundInv /\ [BtcNext]_vars => SoundInv'
  BY NextSound
<1> QED BY <1>1, <1>2, PTL DEF BtcSpec

-----------------------------------------------------------------------------
(* The refinement.                                                         *)

LEMMA EnteredIsExisting == Entered = {d \in Deposits : <<d, 1>> \in Existing}
BY TransferParts DEF Entered, Existing

LEMMA EnteredNext == Entered' = {d \in Deposits : <<d, 1>> \in Existing'}
BY TransferParts DEF Entered, Existing, Exists

LEMMA RestRefines ==
    ASSUME LedgerRests, Arrived' = Arrived PROVE UNCHANGED Ledger!vars
<1>1. Entered' = Entered
  BY EnteredIsExisting, EnteredNext DEF LedgerRests
<1> QED BY <1>1 DEF LedgerRests, Ledger!vars, Entered, Arrived

LEMMA ArriveRefines ==
    ASSUME LedgerRests, NEW d \in Deposits \ Arrived, Arrived' = Arrived \cup {d}
    PROVE  Ledger!Arrive(d)
<1>1. Entered' = Entered
  BY EnteredIsExisting, EnteredNext DEF LedgerRests
<1> QED BY <1>1 DEF LedgerRests, Ledger!Arrive, Entered, Arrived

LEMMA CreditRefines ==
    ASSUME RowsSound, OnceInv, NEW r, LedgerCredits(r), Arrived' = Arrived
    PROVE  \E d \in Deposits : Ledger!Credit(d)
<1>1. /\ r \in Existing /\ Existing' = Existing /\ r \in Rows /\ r = <<r[1], 1>> /\ r[1] \in Deposits
      /\ r[1] \notin {d \in Deposits : credits[<<d, 1>>] > 0}
      /\ {d \in Deposits : credits'[<<d, 1>>] > 0}
            = {d \in Deposits : credits[<<d, 1>>] > 0} \cup {r[1]}
  BY OnceRow, CreditsGrow DEF LedgerCredits
<1>2. Entered' = Entered /\ r[1] \in Entered
  BY <1>1, EnteredIsExisting, EnteredNext
<1>3. Ledger!Credit(r[1])
  BY <1>1, <1>2 DEF LedgerCredits, Ledger!Credit, WalletOf, AmountOf, Entered, Arrived
<1> QED BY <1>1, <1>3

LEMMA ChargeRefines ==
    ASSUME RowsSound, OnceInv, NEW r, LedgerCharges(r), Arrived' = Arrived
    PROVE  \E d \in Deposits : Ledger!ChargeBack(d)
<1>1. /\ r \in Existing /\ Existing' = Existing /\ r \in Rows /\ r = <<r[1], 1>> /\ r[1] \in Deposits
      /\ r[1] \notin {d \in Deposits : charges[<<d, 1>>] > 0}
      /\ {d \in Deposits : charges'[<<d, 1>>] > 0}
            = {d \in Deposits : charges[<<d, 1>>] > 0} \cup {r[1]}
  BY OnceRow, ChargesGrow DEF LedgerCharges
<1>2. Entered' = Entered /\ r[1] \in Entered
  BY <1>1, EnteredIsExisting, EnteredNext
<1>3. Ledger!ChargeBack(r[1])
  BY <1>1, <1>2 DEF LedgerCharges, Ledger!ChargeBack, WalletOf, AmountOf, Entered, Arrived
<1> QED BY <1>1, <1>3

(* One scan enters every new transfer that is not deferred and has no row. *)
LEMMA ScanRefines ==
    ASSUME SoundInv, ProcessNewBlocks
    PROVE  \E S \in SUBSET Deposits : Ledger!Enter(S)
<1>1. /\ Arrived' = Arrived /\ UNCHANGED <<balance, credits, charges>>
      /\ \A r \in Rows : row'[r] = Scanned(r)
  BY ScanSteps
<1>2. \A r \in EntersNow : r \in Rows /\ r = <<r[1], 1>> /\ r[1] \in Deposits
  <2> SUFFICES ASSUME NEW t \in NewTransactions, t.kind = "deposit"
               PROVE  t.row \in Rows /\ t.row = <<t.row[1], 1>> /\ t.row[1] \in Deposits
    BY DEF EntersNow, ToEnter
  <2>1. PICK d \in Deposits : t = Transfer(d)
    BY MinedIs DEF SoundInv, Moves, Transfers
  <2> QED BY <2>1, TransferParts
<1> DEFINE S == {d \in Deposits : <<d, 1>> \in EntersNow}
<1>3. \A r \in EntersNow : ~Exists(r) /\ r[1] \in Arrived
  BY <1>2, ScannedParts
<1>4. S \subseteq Arrived \ Entered
  <2> SUFFICES ASSUME NEW d \in S PROVE d \in Arrived /\ d \notin Entered
    OBVIOUS
  <2>1. <<d, 1>>[1] = d
    OBVIOUS
  <2> QED BY <1>3, <2>1 DEF Entered
<1>5. Entered' = Entered \cup S
  <2> SUFFICES ASSUME NEW d \in Deposits
               PROVE  row'[<<d, 1>>].state # "none" <=> Exists(<<d, 1>>) \/ <<d, 1>> \in EntersNow
    BY DEF Entered, Exists
  <2>1. <<d, 1>> \in Rows
    BY TransferParts
  <2>2. row'[<<d, 1>>] = Scanned(<<d, 1>>)
    BY <1>1, <2>1
  <2> QED BY <2>1, <2>2, ScannedParts, InRow DEF Exists
<1>6. S \in SUBSET Deposits
  OBVIOUS
<1> HIDE DEF S
<1>7. Ledger!Enter(S)
  BY <1>1, <1>4, <1>5 DEF Ledger!Enter, Entered, Arrived
<1> QED BY <1>6, <1>7

(* Unless a handler works on a row that another one has loaded, each       *)
(* Bitcoin transfer is entered, credited and charged back at most once:    *)
(* the deposits of Bitcoin implement DepositLedger, with crashes, rows     *)
(* that are redirected after they were sent, and dying accumulations. *)
THEOREM LedgerIsKept ==
    ASSUME "together" \notin Races
    PROVE  BtcSpec => LedgerPromise
<1>1. ASSUME BtcInit PROVE Ledger!Init
  <2>1. Mined = {} /\ \A r \in Rows : ~Exists(r)
    BY <1>1, Constants DEF BtcInit, RowInit, Exists, Mined
  <2>2. \A d \in Deposits : <<d, 1>> \in Rows
    BY TransferParts
  <2> QED BY <1>1, <2>1, <2>2 DEF BtcInit, RowInit, Ledger!Init
<1>2. ASSUME SoundInv, OnceInv, [BtcNext]_vars PROVE OnceInv' /\ [Ledger!Next]_(Ledger!vars)
  <2>1. OnceInv'
    BY <1>2, NextSound
  <2>2. CASE UserTransfers
    <3>1. PICK d \in Deposits \ Arrived : LedgerRests /\ Arrived' = Arrived \cup {d}
      BY <1>2, <2>2, UserTransfersSteps
    <3> QED BY <3>1, <2>1, ArriveRefines DEF Ledger!Next
  <2>3. CASE ProcessNewBlocks
    BY <1>2, <2>1, <2>3, ScanRefines DEF Ledger!Next
  <2>4. CASE \E a \in Actors : RunHandler(a) \/ Crash(a)
    <3>1. PICK a \in Actors : RunHandler(a) \/ Crash(a)
      BY <2>4
    <3>2. /\ Arrived' = Arrived
          /\ LedgerRests \/ LedgerCredits(task[a].id) \/ LedgerCharges(task[a].id)
      BY <1>2, <3>1, HandlerSteps
    <3>3. CASE LedgerRests
      BY <3>2, <3>3, <2>1, RestRefines
    <3>4. CASE LedgerCredits(task[a].id)
      BY <1>2, <2>1, <3>2, <3>4, CreditRefines DEF SoundInv, Ledger!Next
    <3>5. CASE LedgerCharges(task[a].id)
      BY <1>2, <2>1, <3>2, <3>5, ChargeRefines DEF SoundInv, Ledger!Next
    <3> QED BY <3>2, <3>3, <3>4, <3>5
  <2>5. CASE ~UserTransfers /\ ~ProcessNewBlocks /\ ~\E a \in Actors : RunHandler(a) \/ Crash(a)
    <3>1. LedgerRests /\ Arrived' = Arrived
      BY <1>2, <2>5, MineSteps, DeferredSteps, BeginSteps, BlocksSteps, PassSteps, SendSteps, MarkSteps
         DEF BtcNext, Accumulate
    <3> QED BY <3>1, <2>1, RestRefines
  <2> QED BY <2>2, <2>3, <2>4, <2>5
<1>3. BtcInit => OnceInv
  BY SoundStart
<1> QED BY <1>1, <1>2, <1>3, Sound, PTL DEF BtcSpec, LedgerPromise, Ledger!Spec

-----------------------------------------------------------------------------
(* What is settled went out.                                               *)

LEMMA EvidenceKept ==
    ASSUME NEW mined, NEW more, mined \subseteq more, NEW r, NEW s, Evidence(r, s, mined)
    PROVE  Evidence(r, s, more)
BY DEF Evidence

LEMMA NoEvidenceNeeded ==
    ASSUME NEW s \in Unsettled, NEW r, NEW mined PROVE Evidence(r, s, mined)
BY DEF Evidence, Unsettled

(* Where rows and handlers rest, and nothing is about to be sent that was  *)
(* not before. *)
LEMMA SettledRests ==
    ASSUME SettledInv, UNCHANGED <<row, task>>, Mined \subseteq Mined',
           work'.todo \subseteq work.todo,
           Moves \cap (pool' \cup Mined') \subseteq pool \cup Mined \cup work.todo
    PROVE  SettledInv'
<1>1. TodoAlone'
  BY DEF SettledInv, TodoAlone
<1>2. AddressOK'
  <2>1. ASSUME NEW t \in Moves, t \in pool' \cup Mined' \cup work'.todo, row'[t.row].external
        PROVE  t.kind = "external"
    BY <2>1 DEF SettledInv, AddressOK
  <2>2. ASSUME NEW t \in Moves, NEW a \in Actors, t \in pool' \cup Mined', Working(task'[a]),
               task'[a].id = t.row, task'[a].obj.external
        PROVE  t.kind = "external"
    BY <2>2 DEF SettledInv, AddressOK, TodoAlone
  <2> QED BY <2>1, <2>2 DEF AddressOK
<1>3. EvidenceOK'
  <2>1. ASSUME NEW r \in Rows PROVE Evidence(r, row'[r].state, Mined')
    BY EvidenceKept DEF SettledInv, EvidenceOK
  <2>2. ASSUME NEW a \in Actors, Working(task'[a])
        PROVE  Evidence(task'[a].id, task'[a].obj.state, Mined')
    BY <2>2, EvidenceKept DEF SettledInv, EvidenceOK
  <2> QED BY <2>1, <2>2 DEF EvidenceOK
<1> QED BY <1>1, <1>2, <1>3 DEF SettledInv

LEMMA PassSettled ==
    ASSUME SoundInv, SettledInv, "together" \notin Races, StartAccumulate \/ NextPass \/ AccumulateDies
    PROVE  SettledInv'
<1>1. UNCHANGED <<row, task, pool, blocks>> /\ Mined' = Mined
  BY PassSteps DEF Mined
<1>2. CASE work'.todo = {}
  BY <1>1, <1>2, SettledRests
<1>3. ASSUME NEW S \in SUBSET Rows, work'.todo = Spending(S), Alone(S)
      PROVE  SettledInv'
  <2>1. \A t \in work'.todo : t.row \in S /\ (row[t.row].external => t.kind = "external")
    BY <1>3 DEF Spending
  <2>2. TodoAlone'
    BY <1>1, <1>3, <2>1 DEF TodoAlone, Alone, Free
  <2>3. AddressOK'
    BY <1>1, <2>1 DEF SettledInv, AddressOK
  <2>4. EvidenceOK'
    BY <1>1 DEF SettledInv, EvidenceOK
  <2> QED BY <2>2, <2>3, <2>4 DEF SettledInv
<1> QED BY <1>2, <1>3, PassSteps

LEMMA ScanSettled ==
    ASSUME SoundInv, SettledInv, ProcessNewBlocks
    PROVE  SettledInv'
<1>1. /\ UNCHANGED <<task, pool, blocks, work>> /\ Mined' = Mined
      /\ \A r \in Rows : row'[r] = Scanned(r)
  BY ScanSteps DEF Mined, ProcessNewBlocks
<1>2. ASSUME NEW t \in Moves, t \in pool \cup Mined \cup work.todo, row'[t.row].external
      PROVE  t.kind = "external"
  <2>1. t.row \in Rows /\ Exists(t.row)
    BY <1>2 DEF Moves, SoundInv, MovesHaveRows
  <2>2. row'[t.row].external = row[t.row].external
    BY <1>1, <2>1, ScannedParts
  <2> QED BY <1>2, <2>2 DEF SettledInv, AddressOK
<1>3. ASSUME NEW r \in Rows PROVE Evidence(r, row'[r].state, Mined)
  <2>1. CASE r \in EntersNow
    BY <1>1, <2>1, ScannedParts, NoEvidenceNeeded
  <2>2. CASE Scanned(r) = row[r]
    BY <1>1, <2>2 DEF SettledInv, EvidenceOK
  <2>3. CASE r \notin EntersNow /\ Scanned(r) # row[r]
    <3>1. PICK t \in Moves \cap Mined : t.row = r
      BY <2>3, ScannedParts
    <3>2. row'[r].state = Accumulated(r)
      BY <1>1, <2>3, ScannedParts
    <3>3. row[r].external => t.kind = "external"
      BY <3>1 DEF SettledInv, AddressOK
    <3> QED BY <3>1, <3>2, <3>3 DEF Evidence, Accumulated
  <2> QED BY <2>1, <2>2, <2>3
<1>4. TodoAlone'
  BY <1>1 DEF SettledInv, TodoAlone
<1>5. AddressOK'
  BY <1>1, <1>2 DEF SettledInv, AddressOK
<1>6. EvidenceOK'
  BY <1>1, <1>3 DEF SettledInv, EvidenceOK
<1> QED BY <1>4, <1>5, <1>6 DEF SettledInv

(* A handler that begins does not load a row that is about to be sent, and *)
(* gives none an external address for which something was sent. *)
LEMMA BeginSettled ==
    ASSUME SoundInv, SettledInv, "together" \notin Races, "redirect" \notin BtcRaces,
           CheckForScoring \/ \E a \in Admins : AdminActs(a)
    PROVE  SettledInv'
<1>1. UNCHANGED <<row, pool, blocks, work>> /\ Mined' = Mined
  BY BeginSteps DEF Mined
<1>2. PICK a \in Actors :
          /\ Administrate(a) \/ \E r \in Rows : BeginScore(a, r)
          /\ \A t \in work.todo : task'[a].id # t.row
          /\ task'[a].op # "external" \/ Sent(task'[a].id) = {}
  <2>1. CASE CheckForScoring
    <3>1. PICK r \in Rows : BeginScore(Service, r) /\ AtRest
      BY <2>1 DEF CheckForScoring, WaitingForKyt
    <3>2. work.todo = {}
      BY <3>1 DEF AtRest, SoundInv, WorkSound
    <3>3. task' = [task EXCEPT ![Service] = [op |-> "score", id |-> r, obj |-> row[r], step |-> "score"]]
      BY <3>1 DEF BeginScore, Load
    <3>4. task'[Service].op = "score"
      BY <3>3, BtcDepositAssumption DEF SoundInv, RowsSound, RowTypeInv
    <3> QED BY <3>1, <3>2, <3>4, BtcDepositAssumption
  <2>2. ASSUME NEW a \in Admins, AdminActs(a)
        PROVE  /\ Administrate(a) /\ a \in Actors
               /\ \A t \in work.todo : task'[a].id # t.row
               /\ task'[a].op # "external" \/ Sent(task'[a].id) = {}
    BY <2>2, BtcDepositAssumption DEF AdminActs
  <2> QED BY <2>1, <2>2
<1>3. \A b \in Actors \ {a} : task'[b] = task[b]
  BY <1>2, BeginKeeps DEF SoundInv
<1>4. /\ task'[a].id \in Rows
      /\ \/ task'[a].obj = row[task'[a].id] /\ task'[a].op # "external"
         \/ task'[a].obj.state = "WAITING_FOR_ACCUMULATION" /\ task'[a].op = "external"
  BY <1>2, BeginCopies DEF SoundInv
<1>5. TodoAlone'
  BY <1>1, <1>2, <1>3 DEF SettledInv, TodoAlone
<1>6. ASSUME NEW t \in Moves, t \in pool \cup Mined, task'[a].id = t.row, task'[a].obj.external
      PROVE  t.kind = "external"
  <2>1. CASE task'[a].op = "external"
    <3>1. t \in Sent(task'[a].id)
      BY <1>6 DEF Sent, Moves
    <3> QED BY <1>2, <2>1, <3>1
  <2>2. CASE task'[a].op # "external"
    BY <1>4, <1>6, <2>2 DEF SettledInv, AddressOK
  <2> QED BY <2>1, <2>2
<1>7. AddressOK'
  <2>1. ASSUME NEW t \in Moves, NEW b \in Actors, t \in pool' \cup Mined', Working(task'[b]),
               task'[b].id = t.row, task'[b].obj.external
        PROVE  t.kind = "external"
    BY <1>1, <1>3, <1>6, <2>1 DEF SettledInv, AddressOK
  <2> QED BY <1>1, <2>1 DEF SettledInv, AddressOK
<1>8. Evidence(task'[a].id, task'[a].obj.state, Mined)
  <2>1. "WAITING_FOR_ACCUMULATION" \in Unsettled
    BY DEF Unsettled, States, ReadyStates
  <2> QED BY <1>4, <2>1, NoEvidenceNeeded DEF SettledInv, EvidenceOK
<1>9. EvidenceOK'
  <2>1. ASSUME NEW b \in Actors, Working(task'[b])
        PROVE  Evidence(task'[b].id, task'[b].obj.state, Mined)
    <3>1. CASE b = a
      BY <1>8, <3>1
    <3>2. CASE b # a
      BY <1>3, <2>1, <3>2 DEF SettledInv, EvidenceOK
    <3> QED BY <3>1, <3>2
  <2> QED BY <1>1, <2>1 DEF SettledInv, EvidenceOK
<1> QED BY <1>5, <1>7, <1>9 DEF SettledInv

LEMMA HandlerSettled ==
    ASSUME SoundInv, SettledInv, NEW a \in Actors, RunHandler(a) \/ Crash(a)
    PROVE  SettledInv'
<1>1. UNCHANGED <<pool, blocks, work>> /\ Mined' = Mined
  BY HandlerSteps DEF Mined
<1> DEFINE r == task[a].id
<1>2. /\ \A q \in Rows \ {r} : row'[q] = row[q]
      /\ \A b \in Actors \ {a} : task'[b] = task[b]
      /\ \/ row'[r] = row[r]
         \/ /\ row'[r].external = task[a].obj.external /\ Working(task[a])
            /\ row'[r].state \in Unsettled \cup {task[a].obj.state}
      /\ \/ ~Working(task'[a]) /\ task'[a].id = NoId
         \/ /\ Working(task[a]) /\ task'[a].id = r
            /\ task'[a].obj.external = task[a].obj.external
            /\ task'[a].obj.state \in Unsettled \cup {task[a].obj.state}
  <2>1. CASE RunHandler(a)
    <3>1. task[a].op # "insert" /\ Handle(a) /\ RowsSound
      BY <2>1 DEF SoundInv, NoInserts, RunHandler
    <3>2. /\ Working(task[a]) /\ \A q \in Rows \ {r} : row'[q] = row[q]
          /\ \/ row'[r] = row[r]
             \/ /\ row'[r].external = task[a].obj.external
                /\ row'[r].state \in Unsettled \cup {task[a].obj.state}
          /\ \/ task'[a] = NoTask
             \/ /\ task'[a].op = task[a].op /\ task'[a].id = r
                /\ task'[a].obj.external = task[a].obj.external
                /\ task'[a].obj.state \in Unsettled \cup {task[a].obj.state}
      BY <3>1, HandleCopies
    <3>3. ~Working(NoTask) /\ NoTask.id = NoId
      BY DEF Working, NoTask
    <3>4. \A b \in Actors \ {a} : task'[b] = task[b]
      BY <3>1, HandleKeeps
    <3> QED BY <3>2, <3>3, <3>4
  <2>2. CASE Crash(a)
    <3>1. row' = row /\ task' = [task EXCEPT ![a] = NoTask]
      BY <2>2 DEF Crash, Die, Ends
    <3> QED BY <3>1 DEF SoundInv, RowsSound, RowTypeInv, Working, NoTask
  <2> QED BY <2>1, <2>2
<1> HIDE DEF r
<1>3. TodoAlone'
  <2> SUFFICES ASSUME NEW t \in work.todo, NEW b \in Actors PROVE task'[b].id # t.row
    BY <1>1 DEF TodoAlone
  <2>1. t.row \in Rows
    BY DEF SoundInv, WorkSound, Moves
  <2> QED BY <1>2, <2>1, RowParts DEF SettledInv, TodoAlone, r
<1>4. AddressOK'
  <2>1. ASSUME NEW t \in Moves, t \in pool \cup Mined \cup work.todo, row'[t.row].external
        PROVE  t.kind = "external"
    <3>1. t.row \in Rows
      BY DEF Moves
    <3>2. CASE row'[t.row] = row[t.row]
      BY <2>1, <3>2 DEF SettledInv, AddressOK
    <3>3. CASE row'[t.row] # row[t.row]
      <4>1. t.row = r /\ Working(task[a]) /\ task[a].obj.external
        BY <1>2, <2>1, <3>1, <3>3
      <4>2. t \notin work.todo
        BY <4>1 DEF SettledInv, TodoAlone, r
      <4> QED BY <2>1, <4>1, <4>2 DEF SettledInv, AddressOK, r
    <3> QED BY <3>2, <3>3
  <2>2. ASSUME NEW t \in Moves, NEW b \in Actors, t \in pool \cup Mined, Working(task'[b]),
               task'[b].id = t.row, task'[b].obj.external
        PROVE  t.kind = "external"
    <3>1. CASE b = a
      BY <1>2, <2>2, <3>1 DEF SettledInv, AddressOK, r
    <3>2. CASE b # a
      BY <1>2, <2>2, <3>2 DEF SettledInv, AddressOK
    <3> QED BY <3>1, <3>2
  <2> QED BY <1>1, <2>1, <2>2 DEF AddressOK
<1>5. Working(task[a]) => Evidence(r, task[a].obj.state, Mined)
  BY DEF SettledInv, EvidenceOK, r
<1>6. EvidenceOK'
  <2>1. ASSUME NEW q \in Rows PROVE Evidence(q, row'[q].state, Mined)
    <3>1. CASE row'[q] = row[q]
      BY <3>1 DEF SettledInv, EvidenceOK
    <3>2. CASE row'[q] # row[q]
      <4>1. q = r /\ Working(task[a]) /\ row'[q].state \in Unsettled \cup {task[a].obj.state}
        BY <1>2, <3>2
      <4> QED BY <1>5, <4>1, NoEvidenceNeeded
    <3> QED BY <3>1, <3>2
  <2>2. ASSUME NEW b \in Actors, Working(task'[b])
        PROVE  Evidence(task'[b].id, task'[b].obj.state, Mined)
    <3>1. CASE b = a
      <4>1. /\ Working(task[a]) /\ task'[b].id = r
            /\ task'[b].obj.state \in Unsettled \cup {task[a].obj.state}
        BY <1>2, <2>2, <3>1
      <4> QED BY <1>5, <4>1, NoEvidenceNeeded
    <3>2. CASE b # a
      BY <1>2, <2>2, <3>2 DEF SettledInv, EvidenceOK
    <3> QED BY <3>1, <3>2
  <2> QED BY <1>1, <2>1, <2>2 DEF EvidenceOK
<1> QED BY <1>3, <1>4, <1>6 DEF SettledInv

LEMMA MarkSettled ==
    ASSUME SoundInv, SettledInv, AmountTooLow \/ MarkInProgress
    PROVE  SettledInv'
<1>1. /\ UNCHANGED <<task, pool, blocks>> /\ Mined' = Mined /\ work'.todo \subseteq work.todo
      /\ \A r \in Rows :
             row'[r] = row[r]
               \/ (row'[r].state \in Unsettled /\ row'[r].external = row[r].external)
  BY MarkSteps DEF Mined
<1>2. TodoAlone'
  BY <1>1 DEF SettledInv, TodoAlone
<1>3. AddressOK'
  BY <1>1 DEF SettledInv, AddressOK, Moves
<1>4. EvidenceOK'
  <2>1. ASSUME NEW r \in Rows PROVE Evidence(r, row'[r].state, Mined)
    BY <1>1, NoEvidenceNeeded DEF SettledInv, EvidenceOK
  <2> QED BY <1>1, <2>1 DEF SettledInv, EvidenceOK
<1> QED BY <1>2, <1>3, <1>4 DEF SettledInv

LEMMA OtherSettled ==
    ASSUME SoundInv, SettledInv,
           \/ UserTransfers \/ MineAccumulation \/ DeferredDeposit
           \/ SendAccumulation \/ RecordAccumulation \/ WalletBlocks \/ UNCHANGED vars
    PROVE  SettledInv'
<1>1. CASE UserTransfers
  <2>1. PICK d : Mined' = Mined \cup {Transfer(d)}
    BY <1>1, UserTransfersSteps
  <2>2. UNCHANGED <<row, task, pool, work>>
    BY <1>1 DEF UserTransfers, rowVars, walletVars, sentVars
  <2> QED BY <2>1, <2>2, TransferParts, SettledRests
<1>2. CASE MineAccumulation
  <2>1. pool' \cup Mined' = pool \cup Mined /\ Mined \subseteq Mined'
    BY <1>2, MineSteps
  <2>2. UNCHANGED <<row, task, work>>
    BY <1>2 DEF MineAccumulation, rowVars, walletVars
  <2> QED BY <2>1, <2>2, SettledRests
<1>3. CASE SendAccumulation \/ RecordAccumulation
  <2>1. /\ UNCHANGED <<row, task, blocks>> /\ work'.todo \subseteq work.todo
        /\ pool' \subseteq pool \cup work.todo /\ Mined' = Mined
    BY <1>3, SendSteps DEF Mined
  <2> QED BY <2>1, SettledRests
<1>4. CASE DeferredDeposit \/ WalletBlocks \/ UNCHANGED vars
  <2>1. UNCHANGED <<row, task, pool, blocks, work>> /\ Mined' = Mined
    BY <1>4, DeferredSteps, BlocksSteps DEF Mined
  <2> QED BY <2>1, SettledRests
<1> QED BY <1>1, <1>2, <1>3, <1>4

(* Unless a handler works on a row that is being accumulated, or a row     *)
(* gets its external address after it was sent, a row is settled only with *)
(* what the chain carries for it, to the address it belongs to, whatever   *)
(* else races and dies (process_new_blocks, accumulate, set_accumulated,   *)
(* check_tx_for_deposit). *)
THEOREM SettledWentOutAlways ==
    ASSUME "together" \notin Races, "redirect" \notin BtcRaces
    PROVE  BtcSpec => []SettledWentOut
<1>1. BtcInit => SettledInv
  BY SoundStart
<1>2. SoundInv /\ SettledInv /\ [BtcNext]_vars => SettledInv'
  BY PassSettled, ScanSettled, BeginSettled, HandlerSettled, MarkSettled, OtherSettled
     DEF BtcNext, Accumulate
<1>3. SettledInv => SettledWentOut
  <2>1. \A t \in Moves \cap Mined : t \in Sent(t.row)
    BY DEF Sent, Moves
  <2> QED BY <2>1 DEF SettledInv, EvidenceOK, Evidence, SettledWentOut
<1> QED BY <1>1, <1>2, <1>3, Sound, PTL DEF BtcSpec

===============================================================================

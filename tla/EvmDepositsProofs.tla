-------------------------- MODULE EvmDepositsProofs --------------------------
(***************************************************************************)
(* TLAPS proofs about EvmDeposits: what its invariants are, and that it    *)
(* keeps the promise of DepositLedger.                                     *)
(***************************************************************************)
EXTENDS EvmAccumulationInv, WalletTransactionsProofs

-----------------------------------------------------------------------------
(* The chain.                                                              *)

LEMMA TransferParts ==
    ASSUME NEW d \in Deposits
    PROVE  /\ Transfer(d) \in Tx /\ Transfer(d) \in Transfers
           /\ Transfer(d).kind = "deposit" /\ Transfer(d).row = <<d, 1>> /\ Transfer(d).row[1] = d
           /\ <<d, 1>> \in Rows
<1>1. <<d, 1>> \in Rows
  BY DepositAssumption DEF Rows
<1>2. 0 \in 0 .. MaxNonce /\ 0 \in 0 .. MaxPrice
  BY ChainAssumption
<1>3. Transfer(d) \in Tx
  BY <1>1, <1>2 DEF Transfer, Tx, TxKinds
<1>4. Transfer(d).kind = "deposit" /\ Transfer(d).row = <<d, 1>>
  BY DEF Transfer
<1> QED BY <1>1, <1>3, <1>4 DEF Transfers

LEMMA TransferInjective ==
    ASSUME NEW d, NEW e, Transfer(d) = Transfer(e) PROVE d = e
<1>1. Transfer(d).row[1] = d /\ Transfer(e).row[1] = e
  BY DEF Transfer
<1> QED BY <1>1

LEMMA RangeAppend ==
    ASSUME NEW S, NEW s \in Seq(S), NEW x
    PROVE  Range(Append(s, x)) = Range(s) \cup {x}
BY DEF Range

LEMMA RangeIs ==
    ASSUME NEW S, NEW s \in Seq(S)
    PROVE  Range(s) = {s[i] : i \in 1 .. Len(s)}
BY DEF Range

(* What a scan enqueues is in a block, and what is in a block is a transfer *)
(* or ours. *)
LEMMA JobsOfChain ==
    ASSUME ChainSound, NEW ids \in SUBSET (0 .. Len(blocks))
    PROVE  JobsOf(ids) \subseteq Range(blocks)
BY RangeIs DEF JobsOf, ChainSound

LEMMA JobParts ==
    ASSUME ChainSound, NEW t \in Range(blocks)
    PROVE  /\ t \in Transfers \cup OurTxs
           /\ t.kind = "deposit" => \E d \in Deposits : t = Transfer(d) /\ d \in Arrived
<1>1. t \in Transfers \cup OurTxs
  BY RangeIs DEF ChainSound
<1>2. ASSUME t.kind = "deposit"
      PROVE  \E d \in Deposits : t = Transfer(d) /\ d \in Arrived
  <2>1. PICK d \in Deposits : t = Transfer(d)
    BY <1>1, <1>2 DEF OurTxs, Transfers
  <2> QED BY <2>1 DEF Arrived
<1> QED BY <1>1, <1>2

LEMMA ToProcessWithin ==
    ASSUME ChainSound, NEW s \in Scanners, scanner[s].on
    PROVE  /\ ToProcess(s) \subseteq 0 .. Len(blocks)
           /\ \A n \in ToProcess(s) : scanner[s].from .. n \subseteq 0 .. Len(blocks)
BY ChainAssumption DEF ChainSound, ToProcess, Scan

(* Where the chain and the queues do not change. *)
LEMMA ChainRests ==
    ASSUME ChainSound, UNCHANGED <<blocks, last, lock, scanner>>, jobs' \subseteq jobs,
           scoring' \subseteq Rows, givenUp' \subseteq Deposits
    PROVE  ChainSound' /\ Arrived' = Arrived
BY DEF ChainSound, Arrived, Transfers, OurTxs

-----------------------------------------------------------------------------
(* The invariants that hold whatever races.                                *)

LEMMA InsertsKept ==
    ASSUME InsertsSound, Arrived \subseteq Arrived', NEW a \in Actors,
           \A b \in Actors \ {a} : task'[b] = task[b],
           ~Inserting(task[a])' \/ \E d \in Deposits : d \in Arrived' /\ task'[a].id = <<d, 1>> /\ d \notin Failed
    PROVE  InsertsSound'
BY DEF InsertsSound, Inserting

LEMMA InsertsRest ==
    ASSUME InsertsSound, Arrived \subseteq Arrived', UNCHANGED task
    PROVE  InsertsSound'
BY DEF InsertsSound, Inserting

LEMMA SoundStart == ChainInit => SoundInv /\ LowScoresInv /\ OnceInv
<1> SUFFICES ASSUME ChainInit PROVE SoundInv /\ LowScoresInv /\ OnceInv
  OBVIOUS
<1>1. RowsSound /\ LowScoresInv /\ OnceInv
  BY RowsStart DEF ChainInit
<1>2. ChainSound
  <2>1. NoScan \in Scan /\ ~NoScan.on
    BY DEF NoScan, Scan
  <2>2. Len(<< >>) = 0 /\ << >> \in Seq(Transfers \cup OurTxs)
    OBVIOUS
  <2>3. MaxBlocks \in Nat
    BY ChainAssumption
  <2>4. blocks \in Seq(Transfers \cup OurTxs) /\ Len(blocks) <= MaxBlocks /\ last \in 0 .. Len(blocks)
    BY <2>2, <2>3 DEF ChainInit
  <2>5. scanner \in [Scanners -> Scan] /\ \A s \in Scanners : ~scanner[s].on
    BY <2>1 DEF ChainInit
  <2> QED BY <2>4, <2>5 DEF ChainInit, ChainSound
<1>3. InsertsSound
  BY Constants DEF ChainInit, RowInit, InsertsSound, Inserting
<1> QED BY <1>1, <1>2, <1>3 DEF SoundInv

LEMMA UserTransfersSteps ==
    ASSUME SoundInv, UserTransfers
    PROVE  /\ SoundInv' /\ (LowScoresInv => LowScoresInv') /\ (OnceInv => OnceInv')
           /\ LedgerRests
           /\ \E d \in Deposits \ Arrived : Arrived' = Arrived \cup {d}
<1>1. PICK d \in Deposits \ Arrived : Len(blocks) < MaxBlocks /\ blocks' = Append(blocks, Transfer(d))
  BY DEF UserTransfers
<1>2. UNCHANGED <<rowVars, last, lock, scanner, jobs, givenUp, scoring>>
  BY DEF UserTransfers
<1>3. /\ RowsSound' /\ (LowScoresInv => LowScoresInv') /\ (OnceInv => OnceInv') /\ LedgerRests
  BY <1>2, RowsRest DEF SoundInv, rowVars, walletVars, ledgerVars
<1>4. Range(blocks') = Range(blocks) \cup {Transfer(d)}
  BY <1>1, RangeAppend DEF SoundInv, ChainSound
<1>5. Arrived' = Arrived \cup {d}
  BY <1>4, TransferInjective DEF Arrived
<1>6. ChainSound'
  <2>1. blocks' \in Seq(Transfers \cup OurTxs) /\ Len(blocks') = Len(blocks) + 1
    <3>1. Transfer(d) \in Transfers /\ blocks \in Seq(Transfers \cup OurTxs)
      BY TransferParts DEF SoundInv, ChainSound
    <3> QED BY <1>1, <3>1
  <2>2. Len(blocks) \in Nat /\ MaxBlocks \in Nat
    BY ChainAssumption DEF SoundInv, ChainSound
  <2>3. \A s \in Scanners : scanner[s].on => scanner[s].to <= Len(blocks')
    BY <2>1, <2>2 DEF SoundInv, ChainSound, Scan
  <2>4. last \in 0 .. Len(blocks') /\ Len(blocks') <= MaxBlocks
    BY <1>1, <2>1, <2>2 DEF SoundInv, ChainSound
  <2>5. jobs' \subseteq Range(blocks')
    BY <1>2, <1>4 DEF SoundInv, ChainSound
  <2> QED BY <1>2, <2>1, <2>3, <2>4, <2>5 DEF SoundInv, ChainSound
<1>7. InsertsSound'
  BY <1>2, <1>5, InsertsRest DEF SoundInv, rowVars, walletVars
<1> QED BY <1>3, <1>5, <1>6, <1>7 DEF SoundInv

(* The steps of a scan. *)
LEMMA ScanSteps ==
    ASSUME SoundInv, NEW s \in Scanners, StartScan(s) \/ ProcessBlocks(s) \/ ScanDies(s)
    PROVE  /\ SoundInv' /\ (LowScoresInv => LowScoresInv') /\ (OnceInv => OnceInv')
           /\ LedgerRests /\ Arrived' = Arrived
<1>1. /\ UNCHANGED <<row, transaction, balance, block, task, credits, charges, forced, blocks,
                     givenUp, scoring>>
      /\ troubles' \in 0 .. MaxTroubles
  <2>1. troubles \in 0 .. MaxTroubles /\ MaxTroubles \in Nat
    BY DepositAssumption DEF SoundInv, RowsSound, RowTypeInv
  <2>2. CASE StartScan(s)
    BY <2>1, <2>2 DEF StartScan, rowVars, walletVars, ledgerVars
  <2>3. CASE ProcessBlocks(s)
    BY <2>1, <2>3 DEF ProcessBlocks, rowVars, walletVars, ledgerVars
  <2>4. CASE ScanDies(s)
    BY <2>1, <2>4 DEF ScanDies, ledgerVars
  <2> QED BY <2>2, <2>3, <2>4
<1>2. RowsSound' /\ (LowScoresInv => LowScoresInv') /\ (OnceInv => OnceInv') /\ LedgerRests
  <2>1. RowsSound'
    BY <1>1 DEF SoundInv, RowsSound, RowTypeInv, Exists
  <2>2. LowScoresInv => LowScoresInv'
    BY <1>1 DEF LowScoresInv
  <2>3. OnceInv => OnceInv'
    BY <1>1 DEF OnceInv, OneHandler, Idle
  <2> QED BY <1>1, <2>1, <2>2, <2>3, RestsIf
<1>3. Arrived' = Arrived
  BY <1>1 DEF Arrived
<1>4. ChainSound'
  <2> USE DEF SoundInv
  <2>0. /\ scanner \in [Scanners -> Scan] /\ last \in 0 .. Len(blocks) /\ Len(blocks) \in Nat
        /\ NoScan \in Scan /\ ~NoScan.on
    BY DEF ChainSound, Scan, NoScan
  <2>1. CASE StartScan(s)
    <3>1. CASE lock
      BY <2>1, <3>1, <1>1, <1>3 DEF StartScan, ChainSound
    <3>2. CASE ~lock
      <4> DEFINE n == [on |-> TRUE, from |-> last, to |-> Len(blocks)]
      <4>1. scanner' = [scanner EXCEPT ![s] = n] /\ lock' = TRUE /\ UNCHANGED <<last, jobs>>
        BY <2>1, <3>2 DEF StartScan
      <4>2. n \in Scan /\ n.from <= last /\ n.to <= Len(blocks)
        BY <2>0 DEF Scan
      <4> HIDE DEF n
      <4> QED BY <4>1, <4>2, <1>1, <1>3, <2>0 DEF ChainSound
    <3> QED BY <3>1, <3>2
  <2>2. CASE ProcessBlocks(s)
    <3>1. PICK skipped \in SUBSET ToProcess(s) :
              /\ scanner[s].on /\ jobs' = jobs \cup JobsOf(ToProcess(s) \ skipped)
              /\ last' = IF last < scanner[s].to THEN scanner[s].to ELSE last
              /\ lock' = FALSE /\ scanner' = [scanner EXCEPT ![s] = NoScan]
      BY <2>2 DEF ProcessBlocks
    <3>2. JobsOf(ToProcess(s) \ skipped) \subseteq Range(blocks)
      BY <3>1, ToProcessWithin, JobsOfChain
    <3>3. last' \in 0 .. Len(blocks) /\ last <= last'
      BY <2>0, <3>1 DEF ChainSound, Scan
    <3>4. \A t \in Scanners :
              scanner'[t].on => scanner'[t].from <= last' /\ scanner'[t].to <= Len(blocks)
      <4> SUFFICES ASSUME NEW t \in Scanners, scanner'[t].on
                   PROVE  scanner'[t].from <= last' /\ scanner'[t].to <= Len(blocks)
        OBVIOUS
      <4>1. t # s /\ scanner'[t] = scanner[t]
        BY <3>1, <2>0
      <4>2. scanner[t].from <= last /\ scanner[t].to <= Len(blocks) /\ scanner[t].from \in Nat
        BY <4>1, <2>0 DEF ChainSound, Scan
      <4> QED BY <4>1, <4>2, <3>3, <2>0
    <3>5. scanner' \in [Scanners -> Scan]
      BY <2>0, <3>1
    <3> QED BY <1>1, <1>3, <3>1, <3>2, <3>3, <3>4, <3>5 DEF ChainSound
  <2>3. CASE ScanDies(s)
    <3>1. PICK n \in ToProcess(s) :
              /\ scanner[s].on /\ jobs' = jobs \cup JobsOf(scanner[s].from .. n)
              /\ lock' = FALSE /\ scanner' = [scanner EXCEPT ![s] = NoScan] /\ last' = last
      BY <2>3 DEF ScanDies
    <3>2. JobsOf(scanner[s].from .. n) \subseteq Range(blocks)
      BY <3>1, ToProcessWithin, JobsOfChain
    <3> QED BY <1>1, <1>3, <2>0, <3>1, <3>2 DEF ChainSound
  <2> QED BY <2>1, <2>2, <2>3
<1>5. InsertsSound'
  BY <1>1, <1>3, InsertsRest DEF SoundInv
<1> QED BY <1>2, <1>3, <1>4, <1>5 DEF SoundInv

(* The task of a transfer begins: its handler inserts a row if nothing of  *)
(* the transfer is entered yet. *)
LEMMA ProcessDepositSteps ==
    ASSUME SoundInv, NEW a \in Depositors, ProcessDeposit(a)
    PROVE  /\ SoundInv' /\ (LowScoresInv => LowScoresInv')
           /\ OnceInv /\ "twins" \notin ChainRaces => OnceInv'
           /\ LedgerRests /\ Arrived' = Arrived
<1>1. PICK t \in jobs :
          /\ t.kind = "deposit" /\ Idle(a) /\ ("twins" \in ChainRaces \/ \A b \in Actors : task[b].id # t.row)
          /\ jobs' = jobs \ {t} /\ LooksAt(a, t)
  BY DEF ProcessDeposit
<1>2. UNCHANGED <<row, transaction, balance, block, troubles, credits, charges, forced,
                  blocks, last, lock, scanner, scoring>>
  BY DEF ProcessDeposit, ledgerVars
<1>3. PICK d \in Deposits : d \in Arrived /\ t = Transfer(d)
  BY <1>1, JobParts DEF SoundInv, ChainSound
<1> DEFINE r == <<d, 1>>
           u == [op |-> "insert", id |-> r, obj |-> NoRow, step |-> "create"]
<1>4. t.row = r /\ t.row[1] = d /\ r \in Rows /\ a \in Actors
  BY <1>3, TransferParts, ChainAssumption
<1>5. u \in Task /\ Shaped(u) /\ ~Working(u) /\ Inserting(u) /\ ToppedUp(u, forced)
  BY <1>4 DEF Task, Shaped, StepsOf, Ops, Steps, Working, Inserting, ToppedUp
<1>6. givenUp' \subseteq Deposits
  BY <1>1, <1>4 DEF LooksAt, GivesUp, SoundInv, ChainSound
<1>7. ChainSound' /\ Arrived' = Arrived
  BY <1>1, <1>2, <1>6, ChainRests DEF SoundInv, ChainSound
<1>8. CASE UNCHANGED task
  <2>1. /\ RowsSound' /\ (LowScoresInv => LowScoresInv') /\ (OnceInv => OnceInv') /\ LedgerRests
    BY <1>2, <1>8, RowsRest DEF SoundInv
  <2>2. InsertsSound'
    BY <1>7, <1>8, InsertsRest DEF SoundInv
  <2> QED BY <1>7, <2>1, <2>2 DEF SoundInv
<1>9. CASE d \notin Failed \cup Entered /\ Inserts(a, t)
  <2>1. task' = [task EXCEPT ![a] = u]
    BY <1>4, <1>9 DEF Inserts
  <2> HIDE DEF u
  <2>2. RowsSound'
    BY <1>2, <1>4, <1>5, <2>1, SoundStep DEF SoundInv, RowsSound, RowTypeInv
  <2>3. LowScoresInv => LowScoresInv'
    BY <1>2, <1>4, <1>5, <2>1, LowStep DEF SoundInv
  <2>4. task'[a] = u /\ \A b \in Actors \ {a} : task'[b] = task[b]
    BY <1>4, <2>1 DEF SoundInv, RowsSound, RowTypeInv
  <2>5. InsertsSound'
    <3>1. u.id = <<d, 1>> /\ d \in Arrived' /\ d \notin Failed
      BY <1>3, <1>7, <1>9 DEF u
    <3> QED BY <1>4, <1>7, <2>4, <3>1, InsertsKept DEF SoundInv
  <2>6. ASSUME OnceInv, "twins" \notin ChainRaces PROVE OnceInv'
    <3>1. ~Exists(r)
      BY <1>9, DepositAssumption DEF Entered
    <3>2. RowOnce(row'[r], r[2], transaction'[r], credits'[r], charges'[r])
      BY <1>2, <1>4, <2>6 DEF OnceInv
    <3>3. u.op = "insert" /\ u.id = r /\ TaskOnce(u, row'[r], transaction'[r])
      BY <1>2, <3>1 DEF TaskOnce, Inserting, Working, Exists, u
    <3>4. \A b \in Actors \ {a} : task[b].id # r
      BY <1>1, <1>4, <2>6
    <3>5. \A q \in Rows \ {r} :
              /\ row'[q] = row[q] /\ transaction'[q] = transaction[q]
              /\ credits'[q] = credits[q] /\ charges'[q] = charges[q]
      BY <1>2
    <3> HIDE DEF r
    <3> QED BY <1>4, <2>1, <2>6, <3>2, <3>3, <3>4, <3>5, OnceStep DEF SoundInv
  <2>7. LedgerRests
    BY <1>2, RestsIf
  <2> QED BY <1>7, <2>2, <2>3, <2>5, <2>6, <2>7 DEF SoundInv
<1> QED BY <1>1, <1>4, <1>8, <1>9 DEF LooksAt

LEMMA JobDiesSteps ==
    ASSUME SoundInv, JobDies
    PROVE  /\ SoundInv' /\ (LowScoresInv => LowScoresInv') /\ (OnceInv => OnceInv')
           /\ LedgerRests /\ Arrived' = Arrived
<1>1. PICK t \in jobs :
          /\ troubles < MaxTroubles /\ troubles' = troubles + 1 /\ jobs' = jobs \ {t}
          /\ GivesUp(IF t.kind = "deposit" THEN {t.row[1]} ELSE {})
  BY DEF JobDies
<1>2. UNCHANGED <<row, transaction, balance, block, task, credits, charges, forced,
                  blocks, last, lock, scanner, scoring>>
  BY DEF JobDies, ledgerVars
<1>3. ASSUME t.kind = "deposit" PROVE t.row[1] \in Deposits
  <2>1. t \in Range(blocks)
    BY DEF SoundInv, ChainSound
  <2>2. PICK d \in Deposits : t = Transfer(d)
    BY <1>3, <2>1, JobParts DEF SoundInv
  <2> QED BY <2>2, TransferParts
<1>4. givenUp' \subseteq Deposits
  BY <1>1, <1>3 DEF GivesUp, SoundInv, ChainSound
<1>5. ChainSound' /\ Arrived' = Arrived
  BY <1>1, <1>2, <1>4, ChainRests DEF SoundInv, ChainSound
<1>6. RowsSound'
  BY <1>1, <1>2, DepositAssumption DEF SoundInv, RowsSound, RowTypeInv, Exists
<1>7. LowScoresInv => LowScoresInv'
  BY <1>2 DEF LowScoresInv
<1>8. OnceInv => OnceInv'
  BY <1>2 DEF OnceInv, OneHandler, Idle
<1>9. InsertsSound'
  BY <1>2, <1>5, InsertsRest DEF SoundInv
<1> QED BY <1>2, <1>5, <1>6, <1>7, <1>8, <1>9, RestsIf DEF SoundInv

LEMMA ScoringSteps ==
    ASSUME SoundInv, CheckScores \/ \E a \in Checkers : CheckDepositScoring(a)
    PROVE  /\ SoundInv' /\ (LowScoresInv => LowScoresInv')
           /\ OnceInv /\ "together" \notin Races => OnceInv'
           /\ LedgerRests /\ Arrived' = Arrived
<1>1. UNCHANGED <<blocks, last, lock, scanner, jobs, givenUp>> /\ scoring' \subseteq Rows
  BY DEF CheckScores, CheckDepositScoring, scanVars, WaitingForKyt, SoundInv, ChainSound
<1>2. ChainSound' /\ Arrived' = Arrived
  BY <1>1, ChainRests DEF SoundInv, ChainSound
<1>3. CASE UNCHANGED rowVars
  <2>1. UNCHANGED <<row, transaction, balance, block, task, troubles, credits, charges, forced>>
    BY <1>3 DEF rowVars, walletVars, ledgerVars
  <2>2. InsertsSound'
    BY <1>2, <2>1, InsertsRest DEF SoundInv
  <2> QED BY <1>2, <2>1, <2>2, RowsRest DEF SoundInv
<1>4. CASE \E a \in Checkers : \E r \in Rows : BeginScore(a, r)
  <2>1. PICK a \in Actors, r \in Rows : BeginScore(a, r)
    BY <1>4, ChainAssumption
  <2>2. /\ RowsSound' /\ (LowScoresInv => LowScoresInv')
        /\ OnceInv /\ "together" \notin Races => OnceInv'
        /\ LedgerRests
    BY <2>1, Loads DEF BeginScore, SoundInv
  <2>3. (\A b \in Actors \ {a} : task'[b] = task[b]) /\ task'[a].step # "create"
    BY <2>1, BeginKeeps DEF SoundInv
  <2>4. InsertsSound'
    BY <1>2, <2>3, InsertsKept DEF SoundInv, Inserting
  <2> QED BY <1>2, <2>2, <2>4 DEF SoundInv
<1> QED BY <1>3, <1>4 DEF CheckScores, CheckDepositScoring, SoundInv, ChainSound

LEMMA RunHandlerSteps ==
    ASSUME SoundInv, NEW a \in Actors, RunHandler(a)
    PROVE  /\ SoundInv' /\ (LowScoresInv => LowScoresInv') /\ (OnceInv => OnceInv')
           /\ Arrived' = Arrived
           /\ OnceInv => \/ LedgerRests \/ LedgerCredits(task[a].id) \/ LedgerCharges(task[a].id)
                         \/ LedgerEnters(task[a].id) /\ task[a].id[1] \in Arrived
<1>1. Handle(a) /\ UNCHANGED <<blocks, last, lock, scanner, jobs, givenUp, scoring>>
  BY DEF RunHandler, scanVars
<1>2. ChainSound' /\ Arrived' = Arrived
  BY <1>1, ChainRests DEF SoundInv, ChainSound
<1>3. InsertsSound'
  BY <1>1, <1>2, InsertsKept, HandleKeeps DEF SoundInv, Inserting
<1>4. InsertRow(a) => task[a].id[1] \in Arrived
  BY DEF SoundInv, InsertsSound, InsertRow, Inserting
<1> QED BY <1>1, <1>2, <1>3, <1>4, HandleSteps DEF SoundInv

LEMMA OtherSteps ==
    ASSUME SoundInv,
           \/ \E a \in Actors : Crash(a)
           \/ \E a \in Admins : AdminActs(a)
           \/ WalletBlocks
    PROVE  /\ SoundInv' /\ (LowScoresInv => LowScoresInv')
           /\ OnceInv /\ "together" \notin Races => OnceInv'
           /\ LedgerRests /\ Arrived' = Arrived
<1>1. ASSUME NEW a \in Actors, Crash(a)
      PROVE  /\ SoundInv' /\ (LowScoresInv => LowScoresInv') /\ (OnceInv => OnceInv')
             /\ LedgerRests /\ Arrived' = Arrived
  <2>1. /\ Die(a) /\ UNCHANGED <<blocks, last, lock, scanner, jobs, scoring>>
        /\ GivesUp(IF task[a].op = "insert" THEN {task[a].id[1]} ELSE {})
    BY <1>1 DEF Crash
  <2>2. task[a].op = "insert" => task[a].id[1] \in Deposits
    BY SoundParts, RowParts DEF SoundInv, Idle
  <2>3. givenUp' \subseteq Deposits
    BY <2>1, <2>2 DEF GivesUp, SoundInv, ChainSound
  <2>4. ChainSound' /\ Arrived' = Arrived
    BY <2>1, <2>3, ChainRests DEF SoundInv, ChainSound
  <2>5. task' = [task EXCEPT ![a] = NoTask]
    BY <2>1 DEF Die, Ends
  <2>6. InsertsSound'
    BY <2>4, <2>5, InsertsKept, Constants DEF SoundInv, Inserting, RowsSound, RowTypeInv
  <2> QED BY <2>1, <2>4, <2>6, DieSteps DEF SoundInv
<1>2. ASSUME NEW a \in Admins, AdminActs(a)
      PROVE  /\ SoundInv' /\ (LowScoresInv => LowScoresInv')
             /\ OnceInv /\ "together" \notin Races => OnceInv'
             /\ LedgerRests /\ Arrived' = Arrived
  <2>1. a \in Actors /\ Administrate(a) /\ UNCHANGED <<blocks, last, lock, scanner, jobs, givenUp, scoring>>
    BY <1>2, ChainAssumption DEF AdminActs, scanVars
  <2>2. ChainSound' /\ Arrived' = Arrived
    BY <2>1, ChainRests DEF SoundInv, ChainSound
  <2>3. InsertsSound'
    BY <2>1, <2>2, InsertsKept, BeginKeeps DEF SoundInv, Inserting
  <2> QED BY <2>1, <2>2, <2>3, AdministrateSteps DEF SoundInv
<1>3. ASSUME WalletBlocks
      PROVE  /\ SoundInv' /\ (LowScoresInv => LowScoresInv') /\ (OnceInv => OnceInv')
             /\ LedgerRests /\ Arrived' = Arrived
  <2>1. (BlockWallet \/ LiftBlock) /\ UNCHANGED <<blocks, last, lock, scanner, jobs, givenUp, scoring, task>>
    BY <1>3 DEF WalletBlocks, scanVars, BlockWallet, LiftBlock
  <2>2. ChainSound' /\ Arrived' = Arrived
    BY <2>1, ChainRests DEF SoundInv, ChainSound
  <2>3. InsertsSound'
    BY <2>1, <2>2, InsertsRest DEF SoundInv
  <2> QED BY <2>1, <2>2, <2>3, BlockSteps DEF SoundInv
<1> QED BY <1>1, <1>2, <1>3

-----------------------------------------------------------------------------
(* The invariants. *)

LEMMA StutterSteps ==
    ASSUME SoundInv, UNCHANGED depositVars
    PROVE  /\ SoundInv' /\ (LowScoresInv => LowScoresInv') /\ (OnceInv => OnceInv')
           /\ LedgerRests /\ Arrived' = Arrived
<1>1. /\ UNCHANGED <<row, transaction, balance, block, task, troubles, credits, charges, forced>>
      /\ UNCHANGED <<blocks, last, lock, scanner, jobs, givenUp, scoring>>
  BY DEF depositVars, rowVars, walletVars, ledgerVars, scanVars
<1>2. ChainSound' /\ Arrived' = Arrived
  BY <1>1, ChainRests DEF SoundInv, ChainSound
<1>3. InsertsSound'
  BY <1>1, <1>2, InsertsRest DEF SoundInv
<1> QED BY <1>1, <1>2, <1>3, RowsRest DEF SoundInv

LEMMA NextSound ==
    ASSUME SoundInv, [Next]_depositVars
    PROVE  /\ SoundInv' /\ (LowScoresInv => LowScoresInv')
           /\ OnceInv /\ "twins" \notin ChainRaces /\ "together" \notin Races => OnceInv'
BY UserTransfersSteps, ScanSteps, ProcessDepositSteps, JobDiesSteps, ScoringSteps,
   RunHandlerSteps, OtherSteps, StutterSteps DEF Next, Credits

(* Rows, handlers, the chain, the scans and the queues keep their shape:   *)
(* a handler works on a row that is there, a scan on blocks that are, and  *)
(* a row is inserted for a transfer of the chain, whatever races           *)
(* (process_new_blocks, process_coin_deposit, check_scoring). *)
THEOREM Sound == Spec => []SoundInv
<1>1. ChainInit => SoundInv
  BY SoundStart
<1>2. SoundInv /\ [Next]_depositVars => SoundInv'
  BY NextSound
<1> QED BY <1>1, <1>2, PTL DEF Spec

(* Rows, handlers, the chain and the queues have their types. *)
THEOREM TypeCorrect == Spec => []TypeInv
<1>1. SoundInv => TypeInv
  <2> SUFFICES ASSUME SoundInv PROVE ChainTypeInv
    BY DEF SoundInv, RowsSound, TypeInv
  <2>1. Transfers \cup OurTxs \subseteq Tx
    <3>1. ASSUME NEW d \in Deposits PROVE Transfer(d) \in Tx
      BY TransferParts
    <3> QED BY <3>1 DEF Transfers, OurTxs
  <2>3. blocks \in Seq(Tx)
    BY <2>1 DEF SoundInv, ChainSound
  <2>4. jobs \subseteq Tx
    BY <2>1, JobParts DEF SoundInv, ChainSound
  <2>5. last \in Nat
    BY DEF SoundInv, ChainSound
  <2> QED BY <2>3, <2>4, <2>5 DEF SoundInv, ChainSound, ChainTypeInv
<1> QED BY <1>1, Sound, PTL

(* A deposit with a low score is credited only if an administrator forced  *)
(* it, whatever races. *)
THEOREM LowScoresStayOutAlways == Spec => []LowScoresStayOut
<1>1. ChainInit => LowScoresInv
  BY SoundStart
<1>2. SoundInv /\ LowScoresInv /\ [Next]_depositVars => LowScoresInv'
  BY NextSound
<1>3. LowScoresInv => LowScoresStayOut
  BY DEF LowScoresInv, LowScoresStayOut
<1> QED BY <1>1, <1>2, <1>3, Sound, PTL DEF Spec

-----------------------------------------------------------------------------
(* No transfer of a processed block is lost. *)

(* Where d is still looked after, or was given up. *)
Kept(d) ==
    \/ Transfer(d) \in jobs \/ d \in Entered
    \/ \E a \in Actors : task[a].op = "insert" /\ task[a].id = <<d, 1>>
    \/ d \in givenUp

Covered(d) == \E i \in 1 .. last : blocks[i] = Transfer(d)

LEMMA EnteredGrows ==
    ASSUME \A r \in Rows : Exists(r) => row'[r].state # "none"
    PROVE  Entered \subseteq Entered'
BY DEF Entered, Exists, Rows

(* A step that leaves tasks, queue and history of d as they are. *)
LEMMA KeptRests ==
    ASSUME NEW d, Kept(d), Entered \subseteq Entered', jobs \subseteq jobs',
           givenUp \subseteq givenUp',
           \A a \in Actors : task[a].op = "insert" => task'[a] = task[a]
    PROVE  Kept(d)'
BY DEF Kept, Transfer

LEMMA KeptByUsers ==
    ASSUME SoundInv, NEW d \in Deposits, Covered(d) => Kept(d),
           UserTransfers \/ (\E s \in Scanners : StartScan(s)) \/ CheckScores
             \/ WalletBlocks \/ UNCHANGED depositVars
    PROVE  Covered(d)' => Kept(d)'
<1>1. UNCHANGED <<row, task, last, jobs, givenUp>>
  BY DEF UserTransfers, StartScan, CheckScores, WalletBlocks, BlockWallet, LiftBlock,
         depositVars, rowVars, walletVars, scanVars
<1>2. Covered(d)' => Covered(d)
  <2>1. CASE UserTransfers
    <3>1. PICK e : blocks' = Append(blocks, Transfer(e))
      BY <2>1 DEF UserTransfers
    <3>2. \A i \in 1 .. last : blocks'[i] = blocks[i]
      BY <3>1 DEF SoundInv, ChainSound
    <3> QED BY <1>1, <3>2 DEF Covered, Transfer
  <2>2. CASE UNCHANGED blocks
    BY <1>1, <2>2 DEF Covered, Transfer
  <2> QED BY <2>1, <2>2 DEF StartScan, CheckScores, WalletBlocks, depositVars, scanVars
<1>3. Entered' = Entered
  BY <1>1 DEF Entered, Exists
<1> QED BY <1>1, <1>2, <1>3, KeptRests

LEMMA KeptByScans ==
    ASSUME SoundInv, "loss" \notin ChainRaces, NEW d \in Deposits, Covered(d) => Kept(d),
           NEW s \in Scanners, ProcessBlocks(s) \/ ScanDies(s)
    PROVE  Covered(d)' => Kept(d)'
<1>1. UNCHANGED <<row, task, givenUp, blocks>> /\ jobs \subseteq jobs'
  BY DEF ProcessBlocks, ScanDies, rowVars, walletVars
<1>2. Entered' = Entered
  BY <1>1 DEF Entered, Exists
<1>3. Kept(d) => Kept(d)'
  BY <1>1, <1>2, KeptRests
<1>4. CASE ScanDies(s)
  <2>1. Covered(d)' => Covered(d)
    BY <1>1, <1>4 DEF Covered, ScanDies, Transfer
  <2> QED BY <1>3, <2>1
<1>5. CASE ProcessBlocks(s)
  <2>1. /\ scanner[s].on /\ scanner[s].to - scanner[s].from < Delta
        /\ jobs' = jobs \cup JobsOf(ToProcess(s) \ {})
        /\ last' = IF last < scanner[s].to THEN scanner[s].to ELSE last
    BY <1>5 DEF ProcessBlocks
  <2>2. /\ scanner[s].from \in Nat /\ scanner[s].to \in Nat /\ scanner[s].from <= last
        /\ last \in Nat /\ Delta \in Nat
    BY <2>1, ChainAssumption DEF SoundInv, ChainSound, Scan
  <2>3. ToProcess(s) = scanner[s].from .. scanner[s].to
    BY <2>1, <2>2 DEF ToProcess
  <2>4. ASSUME NEW i \in 1 .. last', blocks[i] = Transfer(d) PROVE Kept(d)'
    <3>1. CASE i <= last
      BY <1>3, <2>2, <2>4, <3>1 DEF Covered
    <3>2. CASE i > last
      <4>1. i \in (scanner[s].from .. scanner[s].to) \ {0}
        BY <2>1, <2>2, <3>2
      <4>2. Transfer(d) \in JobsOf(ToProcess(s) \ {})
        BY <2>3, <2>4, <4>1, TransferParts DEF JobsOf
      <4>3. Transfer(d) \in jobs'
        BY <2>1, <4>2
      <4> QED BY <4>3 DEF Kept, Transfer
    <3> QED BY <3>1, <3>2, <2>1, <2>2
  <2> QED BY <1>1, <2>4 DEF Covered, Transfer
<1> QED BY <1>4, <1>5

LEMMA KeptByTasks ==
    ASSUME SoundInv, NEW d \in Deposits \ Failed, Covered(d) => Kept(d),
           \/ \E a \in Depositors : ProcessDeposit(a)
           \/ JobDies
           \/ \E a \in Checkers : CheckDepositScoring(a)
           \/ \E a \in Admins : AdminActs(a)
    PROVE  Covered(d)' => Kept(d)'
<1>1. UNCHANGED <<row, blocks, last>>
  <2>1. ASSUME NEW a \in Actors, Administrate(a) \/ \E r \in Rows : BeginScore(a, r) PROVE row' = row
    BY <2>1, BeginKeeps DEF SoundInv
  <2> QED BY <2>1, ChainAssumption DEF ProcessDeposit, JobDies, CheckDepositScoring, AdminActs,
                       rowVars, walletVars, scanVars, SoundInv, ChainSound
<1>2. Entered' = Entered /\ (Covered(d)' => Covered(d))
  BY <1>1 DEF Entered, Exists, Covered, Transfer
<1> SUFFICES ASSUME Kept(d) PROVE Kept(d)'
  BY <1>2
<1>3. ASSUME NEW a \in Depositors, ProcessDeposit(a) PROVE Kept(d)'
  <2>1. PICK t \in jobs : t.kind = "deposit" /\ Idle(a) /\ jobs' = jobs \ {t} /\ LooksAt(a, t)
    BY <1>3 DEF ProcessDeposit
  <2>2. PICK e \in Deposits : t = Transfer(e)
    BY <2>1, JobParts DEF SoundInv, ChainSound
  <2>3. t.row = <<e, 1>> /\ t.row[1] = e /\ a \in Actors
    BY <2>2, TransferParts, ChainAssumption
  <2>4. givenUp \subseteq givenUp' /\ \A b \in Actors : task[b].op = "insert" => task'[b] = task[b]
    <3>1. task \in [Actors -> Task]
      BY DEF SoundInv, RowsSound, RowTypeInv
    <3> QED BY <2>1, <2>3, <3>1 DEF LooksAt, GivesUp, Inserts, Idle
  <2>5. CASE t # Transfer(d)
    BY <1>2, <2>1, <2>4, <2>5 DEF Kept, Transfer
  <2>6. CASE t = Transfer(d)
    <3>1. e = d
      BY <2>2, <2>6, TransferInjective
    <3>2. CASE d \in Entered
      BY <1>2, <3>2 DEF Kept
    <3>3. CASE d \notin Entered /\ block[WalletOf(t.row)] = "all"
      <4>1. GivesUp({d})
        BY <2>1, <2>3, <3>1, <3>3 DEF LooksAt
      <4> QED BY <3>3, <4>1 DEF GivesUp, Kept
    <3>4. CASE d \notin Entered /\ block[WalletOf(t.row)] # "all"
      <4>1. Inserts(a, t)
        BY <2>1, <2>3, <3>1, <3>4 DEF LooksAt
      <4>2. task'[a].op = "insert" /\ task'[a].id = <<d, 1>>
        BY <2>3, <3>1, <4>1 DEF Inserts, SoundInv, RowsSound, RowTypeInv
      <4> QED BY <2>3, <4>2 DEF Kept
    <3> QED BY <3>2, <3>3, <3>4
  <2> QED BY <2>5, <2>6
<1>4. ASSUME JobDies PROVE Kept(d)'
  <2>1. PICK t \in jobs :
            /\ jobs' = jobs \ {t}
            /\ GivesUp(IF t.kind = "deposit" THEN {t.row[1]} ELSE {})
    BY <1>4 DEF JobDies
  <2>2. UNCHANGED task /\ givenUp \subseteq givenUp'
    BY <1>4 DEF JobDies, GivesUp
  <2>3. CASE t # Transfer(d)
    BY <1>2, <2>1, <2>2, <2>3 DEF Kept, Transfer
  <2>4. CASE t = Transfer(d)
    <3>1. GivesUp({d})
      BY <2>1, <2>4, TransferParts
    <3> QED BY <1>2, <3>1 DEF GivesUp, Kept
  <2> QED BY <2>3, <2>4
<1>5. ASSUME NEW a \in Actors, Administrate(a) \/ \E r \in Rows : BeginScore(a, r),
             UNCHANGED <<jobs, givenUp>>
      PROVE  Kept(d)'
  <2>1. task[a].op # "insert" /\ \A b \in Actors \ {a} : task'[b] = task[b]
    BY <1>5, BeginKeeps DEF SoundInv, Idle
  <2>2. \A b \in Actors : task[b].op = "insert" => task'[b] = task[b]
    BY <2>1
  <2> QED BY <1>2, <1>5, <2>2, KeptRests
<1>6. ASSUME NEW a \in Checkers, CheckDepositScoring(a) PROVE Kept(d)'
  <2>1. UNCHANGED <<jobs, givenUp>> /\ a \in Actors
    BY <1>6, ChainAssumption DEF CheckDepositScoring, scanVars
  <2>2. CASE \E r \in Rows : BeginScore(a, r)
    BY <1>5, <2>1, <2>2
  <2>3. CASE UNCHANGED task
    BY <1>2, <2>1, <2>3, KeptRests
  <2> QED BY <1>6, <2>2, <2>3 DEF CheckDepositScoring, SoundInv, ChainSound, rowVars, walletVars
<1>7. ASSUME NEW a \in Admins, AdminActs(a) PROVE Kept(d)'
  BY <1>5, <1>7, ChainAssumption DEF AdminActs, scanVars
<1> QED BY <1>3, <1>4, <1>6, <1>7

LEMMA KeptByHandlers ==
    ASSUME SoundInv, NEW d \in Deposits \ Failed, Covered(d) => Kept(d), NEW a \in Actors,
           RunHandler(a) \/ Crash(a)
    PROVE  Covered(d)' => Kept(d)'
<1>1. UNCHANGED <<blocks, last, jobs>> /\ givenUp \subseteq givenUp'
  BY DEF RunHandler, Crash, scanVars, GivesUp
<1>2. /\ \A b \in Actors \ {a} : task'[b] = task[b]
      /\ \A r \in Rows : Exists(r) => row'[r].state # "none"
  <2>1. CASE RunHandler(a)
    BY <2>1, HandleKeeps DEF RunHandler, SoundInv
  <2>2. CASE Crash(a)
    BY <2>2 DEF Crash, Die, Ends, SoundInv, RowsSound, RowTypeInv, Exists
  <2> QED BY <2>1, <2>2
<1>3. Entered \subseteq Entered' /\ (Covered(d)' => Covered(d))
  BY <1>1, <1>2, EnteredGrows DEF Covered, Transfer
<1> SUFFICES ASSUME Kept(d) PROVE Kept(d)'
  BY <1>3
<1>4. CASE ~(task[a].op = "insert" /\ task[a].id = <<d, 1>>)
  BY <1>1, <1>2, <1>3, <1>4 DEF Kept, Transfer
<1>5. CASE task[a].op = "insert" /\ task[a].id = <<d, 1>>
  <2>1. task[a].id[1] = d /\ task[a].step \in {"create", "check"} /\ <<d, 1>> \in Rows
    BY <1>5, SoundParts, TransferParts DEF SoundInv, Shaped, StepsOf
  <2>2. CASE Crash(a)
    <3>1. GivesUp({d})
      BY <1>5, <2>1, <2>2 DEF Crash
    <3> QED BY <1>3, <3>1 DEF GivesUp, Kept
  <2>3. CASE RunHandler(a) /\ task[a].step = "check"
    <3>1. Exists(<<d, 1>>)
      BY <1>5, <2>3, SoundParts DEF SoundInv, Working
    <3>2. d \in Entered
      BY <3>1, DepositAssumption DEF Entered
    <3> QED BY <1>3, <3>2 DEF Kept
  <2>4. CASE RunHandler(a) /\ task[a].step = "create"
    <3>1. InsertRow(a)
      BY <2>4 DEF RunHandler, Handle, CheckDeposit, Score, Topup, Credit, SaveRow, UnblockWallet, Revert
    <3>2. Copy(d) \in Rows /\ row'[Copy(d)] = Created
      BY <2>1, <3>1 DEF InsertRow, SoundInv, RowsSound, RowTypeInv
    <3>3. \E n \in 1 .. Copies : Copy(d) = <<d, n>>
      BY <3>2, RowParts DEF Copy
    <3>4. d \in Entered'
      BY <3>2, <3>3, Constants DEF Entered, Exists
    <3> QED BY <3>4 DEF Kept
  <2> QED BY <2>1, <2>2, <2>3, <2>4
<1> QED BY <1>4, <1>5

(* Unless a block is skipped or a backlog outgrows Delta ("loss"), every   *)
(* transfer of a processed block has a row, has its task queued or         *)
(* running, or was given up: with overlapping and dying scans, a lock that *)
(* is none, twin tasks and crashes. *)
THEOREM ScannedAreKeptAlways ==
    ASSUME "loss" \notin ChainRaces PROVE Spec => []ScannedAreKept
<1>1. ASSUME ChainInit PROVE ScannedAreKept
  BY <1>1 DEF ChainInit, ScannedAreKept
<1>2. ASSUME SoundInv, ScannedAreKept, [Next]_depositVars PROVE ScannedAreKept'
  <2>1. \A d \in Deposits \ Failed : Covered(d) => Kept(d)
    BY <1>2 DEF ScannedAreKept, Covered, Kept
  <2>2. ASSUME NEW d \in Deposits \ Failed PROVE Covered(d)' => Kept(d)'
    BY <1>2, <2>1, KeptByUsers, KeptByScans, KeptByTasks, KeptByHandlers DEF Next, Credits
  <2> QED BY <2>2 DEF ScannedAreKept, Covered, Kept
<1> QED BY <1>1, <1>2, Sound, PTL DEF Spec

-----------------------------------------------------------------------------
(* The refinement of DepositLedger. *)

LEMMA EnteredIsExisting == Entered = {d \in Deposits : \E n \in 1 .. Copies : <<d, n>> \in Existing}
BY DEF Entered, Existing, Rows

LEMMA EnteredNext ==
    Entered' = {d \in Deposits : \E n \in 1 .. Copies : <<d, n>> \in Existing'}
BY DEF Entered, Existing, Exists, Rows

LEMMA OnceCopy ==
    ASSUME OnceInv, NEW r \in Existing
    PROVE  r = <<r[1], 1>> /\ r[1] \in Entered
BY OnceRow, DepositAssumption DEF Entered, Existing

(* The deposits with one row are all that have a row where no other copy   *)
(* than the first exists. *)
LEMMA OneRow ==
    ASSUME \A r \in Rows : Exists(r) => r[2] = 1
    PROVE  EnteredOnce = Entered
<1>1. ASSUME NEW d \in Deposits, NEW n \in 1 .. Copies, Exists(<<d, n>>)
      PROVE  d \in EnteredOnce
  <2>1. \A m \in 1 .. Copies : Exists(<<d, m>>) => m = 1
    BY DEF Rows
  <2> QED BY <1>1, <2>1 DEF EnteredOnce
<1>2. ASSUME NEW d \in EnteredOnce PROVE d \in Entered
  BY <1>2 DEF EnteredOnce, Entered
<1> QED BY <1>1, <1>2 DEF EnteredOnce, Entered

LEMMA OneRowNext ==
    ASSUME \A r \in Rows : Exists(r)' => r[2] = 1
    PROVE  EnteredOnce' = Entered'
<1>1. ASSUME NEW d \in Deposits, NEW n \in 1 .. Copies, Exists(<<d, n>>)'
      PROVE  d \in EnteredOnce'
  <2>1. \A m \in 1 .. Copies : Exists(<<d, m>>)' => m = 1
    BY DEF Rows
  <2> QED BY <1>1, <2>1 DEF EnteredOnce
<1>2. ASSUME NEW d \in EnteredOnce' PROVE d \in Entered'
  BY <1>2 DEF EnteredOnce, Entered
<1> QED BY <1>1, <1>2 DEF EnteredOnce, Entered

LEMMA OnceIsEntered == OnceInv => EnteredOnce = Entered
BY OneRow DEF OnceInv, RowOnce, Exists

LEMMA OnceIsEnteredNext == OnceInv' => EnteredOnce' = Entered'
BY OneRowNext DEF OnceInv, RowOnce, Exists

(* As long as the rows are the same ones, so are the deposits with one. *)
LEMMA SameRows ==
    ASSUME Existing' = Existing PROVE EnteredOnce' = EnteredOnce
<1>1. \A r \in Rows : Exists(r)' <=> Exists(r)
  BY DEF Existing, Exists
<1> QED BY <1>1 DEF EnteredOnce, Exists, Rows

LEMMA RestRefines ==
    ASSUME LedgerRests, Arrived' = Arrived PROVE UNCHANGED Ledger!vars
<1>1. EnteredOnce' = EnteredOnce
  BY SameRows DEF LedgerRests
<1> QED BY <1>1 DEF LedgerRests, Ledger!vars

LEMMA EnterRefines ==
    ASSUME RowsSound, OnceInv, OnceInv', NEW r \in Rows, LedgerEnters(r), r[1] \in Arrived,
           Arrived' = Arrived
    PROVE  Ledger!Enter({r[1]})
<1>1. r \in Existing' /\ r \notin Existing /\ Existing' = Existing \cup {r}
  BY DEF LedgerEnters
<1>2. r[2] = 1 /\ r = <<r[1], 1>> /\ r[1] \in Deposits
  BY <1>1, RowParts DEF OnceInv, RowOnce, Existing, Exists
<1>3. r[1] \notin Entered
  <2> SUFFICES ASSUME NEW n \in 1 .. Copies, <<r[1], n>> \in Existing PROVE FALSE
    BY EnteredIsExisting
  <2>1. <<r[1], n>> = <<r[1], 1>>
    BY OnceCopy
  <2> QED BY <2>1, <1>1, <1>2
<1>4. Entered' = Entered \cup {r[1]}
  <2>1. 1 \in 1 .. Copies
    BY DepositAssumption
  <2> QED BY <1>1, <1>2, <2>1, EnteredIsExisting, EnteredNext
<1> QED BY <1>3, <1>4, OnceIsEntered, OnceIsEnteredNext DEF Ledger!Enter, LedgerEnters

LEMMA CreditRefines ==
    ASSUME RowsSound, OnceInv, NEW r, LedgerCredits(r), Arrived' = Arrived
    PROVE  \E d \in Deposits : Ledger!Credit(d)
<1>1. /\ r \in Existing /\ Existing' = Existing /\ r \in Rows /\ r = <<r[1], 1>> /\ r[1] \in Deposits
      /\ r[1] \notin {d \in Deposits : credits[<<d, 1>>] > 0}
      /\ {d \in Deposits : credits'[<<d, 1>>] > 0}
            = {d \in Deposits : credits[<<d, 1>>] > 0} \cup {r[1]}
  BY OnceRow, CreditsGrow DEF LedgerCredits
<1>2. EnteredOnce' = EnteredOnce /\ r[1] \in EnteredOnce
  BY <1>1, SameRows, OnceIsEntered, OnceCopy
<1>3. Ledger!Credit(r[1])
  BY <1>1, <1>2 DEF LedgerCredits, Ledger!Credit, WalletOf, AmountOf
<1> QED BY <1>1, <1>3

LEMMA ChargeRefines ==
    ASSUME RowsSound, OnceInv, NEW r, LedgerCharges(r), Arrived' = Arrived
    PROVE  \E d \in Deposits : Ledger!ChargeBack(d)
<1>1. /\ r \in Existing /\ Existing' = Existing /\ r \in Rows /\ r = <<r[1], 1>> /\ r[1] \in Deposits
      /\ r[1] \notin {d \in Deposits : charges[<<d, 1>>] > 0}
      /\ {d \in Deposits : charges'[<<d, 1>>] > 0}
            = {d \in Deposits : charges[<<d, 1>>] > 0} \cup {r[1]}
  BY OnceRow, ChargesGrow DEF LedgerCharges
<1>2. EnteredOnce' = EnteredOnce /\ r[1] \in EnteredOnce
  BY <1>1, SameRows, OnceIsEntered, OnceCopy
<1>3. Ledger!ChargeBack(r[1])
  BY <1>1, <1>2 DEF LedgerCharges, Ledger!ChargeBack, WalletOf, AmountOf
<1> QED BY <1>1, <1>3

LEMMA ArriveRefines ==
    ASSUME LedgerRests, NEW d \in Deposits \ Arrived, Arrived' = Arrived \cup {d}
    PROVE  Ledger!Arrive(d)
<1>1. EnteredOnce' = EnteredOnce
  BY SameRows DEF LedgerRests
<1> QED BY <1>1 DEF LedgerRests, Ledger!Arrive

LEMMA NextRefines ==
    ASSUME "together" \notin Races, "twins" \notin ChainRaces,
           SoundInv, OnceInv, [Next]_depositVars
    PROVE  OnceInv' /\ [Ledger!Next]_(Ledger!vars)
<1>1. OnceInv'
  BY NextSound
<1>2. CASE UserTransfers
  <2>1. PICK d \in Deposits \ Arrived : LedgerRests /\ Arrived' = Arrived \cup {d}
    BY <1>2, UserTransfersSteps
  <2> QED BY <2>1, <1>1, ArriveRefines DEF Ledger!Next
<1>3. CASE \E a \in Actors : RunHandler(a)
  <2>1. PICK a \in Actors : RunHandler(a)
    BY <1>3
  <2>2. /\ Arrived' = Arrived
        /\ \/ LedgerRests \/ LedgerCredits(task[a].id) \/ LedgerCharges(task[a].id)
           \/ LedgerEnters(task[a].id) /\ task[a].id[1] \in Arrived
    BY <2>1, RunHandlerSteps
  <2>3. CASE LedgerRests
    BY <2>2, <2>3, <1>1, RestRefines
  <2>4. CASE LedgerCredits(task[a].id)
    <3>1. \E d \in Deposits : Ledger!Credit(d)
      BY <2>2, <2>4, CreditRefines DEF SoundInv
    <3> QED BY <3>1, <1>1 DEF Ledger!Next
  <2>5. CASE LedgerCharges(task[a].id)
    <3>1. \E d \in Deposits : Ledger!ChargeBack(d)
      BY <2>2, <2>5, ChargeRefines DEF SoundInv
    <3> QED BY <3>1, <1>1 DEF Ledger!Next
  <2>6. CASE LedgerEnters(task[a].id) /\ task[a].id[1] \in Arrived
    <3>1. task[a].id \in Rows
      BY <2>6 DEF LedgerEnters
    <3>2. Ledger!Enter({task[a].id[1]}) /\ {task[a].id[1]} \in SUBSET Deposits
      BY <1>1, <2>2, <2>6, <3>1, EnterRefines, RowParts DEF SoundInv
    <3> QED BY <3>2, <1>1 DEF Ledger!Next
  <2> QED BY <2>2, <2>3, <2>4, <2>5, <2>6
<1>4. CASE ~UserTransfers /\ ~\E a \in Actors : RunHandler(a)
  <2>1. LedgerRests /\ Arrived' = Arrived
    BY <1>4, ScanSteps, ProcessDepositSteps, JobDiesSteps, ScoringSteps, OtherSteps,
       StutterSteps DEF Next, Credits
  <2> QED BY <2>1, <1>1, RestRefines
<1> QED BY <1>2, <1>3, <1>4

LEMMA LedgerStart == ChainInit => Ledger!Init
<1> SUFFICES ASSUME ChainInit PROVE Ledger!Init
  OBVIOUS
<1>1. Arrived = {} /\ EnteredOnce = {}
  <2>1. blocks = << >> /\ \A r \in Rows : ~Exists(r)
    BY Constants DEF ChainInit, RowInit, Exists
  <2>2. Range(blocks) = {}
    BY <2>1 DEF Range
  <2>3. EnteredOnce = Entered /\ Entered = {}
    BY <2>1, OneRow DEF Entered, Rows
  <2> QED BY <2>2, <2>3 DEF Arrived
<1>2. \A d \in Deposits : <<d, 1>> \in Rows
  BY DepositAssumption DEF Rows
<1> QED BY <1>1, <1>2 DEF ChainInit, RowInit, Ledger!Init

(* Unless a handler works on a row that another one has loaded, or two     *)
(* tasks look at one transfer, each transfer is entered, credited and      *)
(* charged back at most once: deposits on EVM chains implement             *)
(* DepositLedger, with every race of the scanner and with crashes. *)
THEOREM LedgerIsKept ==
    ASSUME "together" \notin Races, "twins" \notin ChainRaces
    PROVE  Spec => LedgerPromise
<1>1. ChainInit => Ledger!Init
  BY LedgerStart
<1>2. SoundInv /\ OnceInv /\ [Next]_depositVars => OnceInv' /\ [Ledger!Next]_(Ledger!vars)
  BY NextRefines
<1>3. ChainInit => OnceInv
  BY SoundStart
<1> QED BY <1>1, <1>2, <1>3, Sound, PTL DEF Spec, LedgerPromise, Ledger!Spec

-----------------------------------------------------------------------------
(***************************************************************************)
(* TLAPS proofs about EvmAccumulation: what the workers may do to rows and *)
(* transactions, that only money which may be moved is moved, that a row   *)
(* is accumulated only when its money left, and that accumulation keeps    *)
(* the promise of DepositLedger.                                           *)
(***************************************************************************)

-----------------------------------------------------------------------------
(* Transactions of ours.                                                   *)

LEMMA OurKinds ==
    ASSUME NEW t \in OurTxs
    PROVE  /\ t.kind \in TxKinds \ {"deposit"} /\ t.row \in Rows
           /\ t.nonce \in 0 .. MaxNonce /\ t.price \in 0 .. MaxPrice
BY DEF OurTxs, Tx

LEMMA OurTx ==
    ASSUME NEW k \in {"gas", "accumulate", "external", "dust"}, NEW r \in Rows,
           NEW n \in 0 .. MaxNonce, NEW p \in 0 .. MaxPrice,
           NEW t, t = [kind |-> k, row |-> r, nonce |-> n, price |-> p]
    PROVE  t \in OurTxs /\ t.kind = k /\ t.row = r /\ t.nonce = n /\ t.price = p
BY DEF OurTxs, Tx, TxKinds

(* How many transactions a sender has on the chain is a number. *)
LEMMA NonceParts ==
    ASSUME ChainSound
    PROVE  KeeperNonce \in Nat /\ \A w : WalletNonce(w) \in Nat
<1>1. Len(blocks) \in Nat /\ DOMAIN blocks = 1 .. Len(blocks)
  BY DEF ChainSound
<1>2. ASSUME NEW S \in SUBSET (DOMAIN blocks) PROVE Cardinality(S) \in Nat
  <2>1. IsFiniteSet(DOMAIN blocks)
    BY <1>1, FS_Interval
  <2> QED BY <2>1, FS_Subset, FS_CardinalityType
<1>3. KeeperNonce \in Nat
  BY <1>2 DEF KeeperNonce
<1>4. ASSUME NEW w PROVE WalletNonce(w) \in Nat
  BY <1>2 DEF WalletNonce
<1> QED BY <1>3, <1>4

-----------------------------------------------------------------------------
(* Workers.                                                                *)

LEMMA NoJobParts ==
    /\ NoJob \in AccumulatorJobs /\ NoJob \in GasJobs
    /\ \A kinds : JobSound(NoJob, kinds)
    /\ NoJob.row = NoId /\ NoJob.step = "idle"
BY DEF NoJob, AccumulatorJobs, GasJobs, JobSound

(* One accumulator goes on to x. *)
LEMMA AccumulatorStep ==
    ASSUME WorkSound, NEW a \in Accumulators, NEW x \in AccumulatorJobs, JobSound(x, OutKinds),
           Accumulates(a, x), UNCHANGED gasWorker
    PROVE  WorkSound' /\ AtWork' \subseteq AtWork \cup {x.row}
<1>1. /\ accumulator \in [Accumulators -> AccumulatorJobs]
      /\ accumulator' = [accumulator EXCEPT ![a] = x]
  BY DEF WorkSound, Accumulates
<1>2. accumulator'[a] = x /\ \A b \in Accumulators \ {a} : accumulator'[b] = accumulator[b]
  BY <1>1
<1>3. accumulator' \in [Accumulators -> AccumulatorJobs]
  BY <1>1
<1>4. \A b \in Accumulators : JobSound(accumulator'[b], OutKinds)
  BY <1>2 DEF WorkSound
<1> QED BY <1>2, <1>3, <1>4 DEF WorkSound, AtWork

(* The gas worker goes on to x. *)
LEMMA GasStep ==
    ASSUME WorkSound, NEW x \in GasJobs, JobSound(x, {"gas"}), Gases(x), UNCHANGED accumulator
    PROVE  WorkSound' /\ AtWork' \subseteq AtWork \cup {x.row}
BY DEF WorkSound, AtWork, Gases

LEMMA WorkersRest ==
    ASSUME WorkSound, UNCHANGED <<accumulator, gasWorker>>
    PROVE  WorkSound' /\ AtWork' = AtWork
BY DEF WorkSound, AtWork

LEMMA TouchedRows ==
    ASSUME WorkSound, CoinSound, NEW r \in Touched \ {NoId} PROVE r \in Rows
<1>1. \A t \in recorded : t.row \in Rows
  BY OurKinds DEF CoinSound
<1>2. \A a \in Accumulators : accumulator[a].row \in Rows \cup {NoId}
  BY DEF WorkSound, AccumulatorJobs
<1>3. gasWorker.row \in Rows \cup {NoId}
  BY DEF WorkSound, GasJobs
<1> QED BY <1>1, <1>2, <1>3 DEF Touched, AtWork, CoinSound

(* What a step touches that no worker or task was about. *)
LEMMA TouchedStep ==
    ASSUME NEW X, checks' \subseteq checks \cup X, toSend' \subseteq toSend \cup X,
           toGas' \subseteq toGas \cup X, \A t \in recorded' \ recorded : t.row \in X,
           AtWork' \subseteq AtWork \cup X
    PROVE  Touched' \subseteq Touched \cup X
BY DEF Touched

-----------------------------------------------------------------------------
(* What a step of the workers, the chain and our transactions' tasks does. *)

(* It writes one column of a row it is about, with a state beyond the      *)
(* early ones: "accumulated" only if money has left.                       *)
StepWrites ==
    \/ row' = row
    \/ /\ UNCHANGED troubles
       /\ \E r \in Touched \ {NoId}, s \in States \ Early :
              SetsState(r, s) /\ (SettledState(s) => Left(r, done))

(* It turns to rows beyond the early states. *)
StepTouches ==
    \A r \in Touched' :
        r \in Touched \cup {NoId} \/ (r \in Rows /\ row[r].state \notin Early)

(* It sends what it was about. *)
StepSends ==
    \A t \in pool' \cup Range(blocks)' :
        t.kind \in OutKinds => t \in pool \cup Range(blocks) \/ t.row \in Touched \ {NoId}

RowsAreLeft ==
    UNCHANGED <<transaction, balance, block, task, credits, charges, forced>>

RowsMove ==
    \A q \in Rows : row'[q] = row[q] \/ (q \in Touched \ {NoId} /\ row'[q].state \notin Early)

LEMMA Moves ==
    ASSUME MovingInv, RowsAreLeft, troubles' \in 0 .. MaxTroubles,
           ChainSound', Arrived' = Arrived, WorkSound', CoinSound', done \subseteq done',
           StepWrites, StepTouches, StepSends
    PROVE  /\ MovingInv' /\ LedgerRests /\ (OnceInv => OnceInv')
           /\ (LeftInv => LeftInv') /\ (ClearedInv => ClearedInv')
           /\ RowsMove /\ (TouchedLate => TouchedLate')
<1>1. /\ RowsSound' /\ (OnceInv => OnceInv') /\ LedgerRests
      /\ \A q \in Rows : \/ row'[q] = row[q]
                         \/ /\ q \in Touched \ {NoId} /\ row'[q].external = row[q].external
                            /\ row'[q].state \in States \ Early
                            /\ SettledState(row'[q].state) => Left(q, done)
  <2>1. CASE row' = row
    <3>1. RowsSound'
      BY <2>1 DEF MovingInv, SoundInv, RowsSound, RowTypeInv, RowsAreLeft, Exists
    <3>2. OnceInv => OnceInv'
      BY <2>1 DEF OnceInv, OneHandler, Idle, RowsAreLeft
    <3>3. LedgerRests
      BY <2>1, RestsIf DEF RowsAreLeft
    <3> QED BY <2>1, <3>1, <3>2, <3>3
  <2>2. CASE row' # row
    <3>1. PICK r \in Touched \ {NoId}, s \in States \ Early :
              SetsState(r, s) /\ (SettledState(s) => Left(r, done)) /\ UNCHANGED troubles
      BY <2>2 DEF StepWrites
    <3>2. r \in Rows /\ Exists(r)
      BY TouchedRows DEF MovingInv, TouchedExist
    <3>3. RowsSound /\ UNCHANGED <<transaction, balance, block, task, troubles, credits, charges, forced>>
      BY <3>1 DEF MovingInv, SoundInv, RowsAreLeft
    <3>4. /\ RowsSound' /\ (OnceInv => OnceInv') /\ LedgerRests
          /\ row'[r].state = s /\ row'[r].external = row[r].external
          /\ \A q \in Rows \ {r} : row'[q] = row[q]
      BY <3>1, <3>2, <3>3, SetsStateSteps
    <3> QED BY <3>1, <3>4
  <2> QED BY <2>1, <2>2
<1>2. InsertsSound'
  BY InsertsRest DEF MovingInv, SoundInv, RowsAreLeft
<1>3. TouchedExist'
  <2> SUFFICES ASSUME NEW r \in Touched', r # NoId PROVE row'[r].state # "none"
    BY DEF TouchedExist, Exists
  <2>1. r \in Rows /\ row[r].state # "none"
    <3>1. CASE r \in Touched
      BY <3>1, TouchedRows DEF MovingInv, TouchedExist, Exists
    <3>2. CASE r \notin Touched
      BY <3>2 DEF StepTouches, Early
    <3> QED BY <3>1, <3>2
  <2>2. "none" \notin States
    BY DEF States, ReadyStates, KytStates
  <2> QED BY <1>1, <2>1, <2>2
<1>4. MovingInv'
  BY <1>1, <1>2, <1>3 DEF MovingInv, SoundInv
<1>5. ASSUME LeftInv PROVE LeftInv'
  <2>1. ASSUME NEW r, Left(r, done) PROVE Left(r, done')
    BY <2>1 DEF Left
  <2>2. \A r \in Rows : SettledState(row'[r].state) => Left(r, done')
    BY <1>1, <1>5, <2>1 DEF LeftInv
  <2>3. \A a \in Actors :
            Working(task[a]) /\ SettledState(task[a].obj.state) => Left(task[a].id, done')
    BY <1>5, <2>1 DEF LeftInv
  <2> QED BY <2>2, <2>3 DEF LeftInv, RowsAreLeft
<1>6. ASSUME ClearedInv PROVE ClearedInv'
  <2>1. credits' = credits /\ task' = task
    BY DEF RowsAreLeft
  <2>2. \A q \in Rows : row'[q].external = row[q].external
    BY <1>1
  <2>3. ASSUME NEW q \in Rows, Cleared(q) PROVE Clear(row'[q], credits'[q])
    BY <2>1, <2>2, <2>3 DEF Cleared, Clear
  <2>4. \A q \in Rows : row'[q].state \in Early \/ Clear(row'[q], credits'[q])
    <3> SUFFICES ASSUME NEW q \in Rows PROVE row'[q].state \in Early \/ Clear(row'[q], credits'[q])
      OBVIOUS
    <3>1. CASE row'[q] = row[q]
      BY <1>6, <2>1, <3>1 DEF ClearedInv, RowsClear, Cleared
    <3>2. CASE q \in Touched \ {NoId}
      BY <1>6, <2>3, <3>2 DEF ClearedInv
    <3> QED BY <1>1, <3>1, <3>2
  <2>5. \A a \in Actors : Working(task'[a]) =>
               /\ CopyClear(task'[a], credits'[task'[a].id])
               /\ row'[task'[a].id].external => task'[a].obj.external
    <3> SUFFICES ASSUME NEW a \in Actors, Working(task[a])
                 PROVE  /\ CopyClear(task[a], credits[task[a].id])
                        /\ row'[task[a].id].external => task[a].obj.external
      BY <2>1
    <3>1. task[a].id \in Rows
      BY SoundParts DEF MovingInv, SoundInv, Idle, Working
    <3> QED BY <1>6, <2>2, <3>1 DEF ClearedInv, RowsClear
  <2>6. RowsClear'
    BY <2>4, <2>5 DEF RowsClear, Cleared
  <2>7. \A r \in Touched' \ {NoId} : Clear(row'[r], credits'[r])
    <3> SUFFICES ASSUME NEW r \in Touched', r # NoId PROVE Clear(row'[r], credits'[r])
      OBVIOUS
    <3>1. CASE r \in Touched
      <4>1. r \in Rows /\ Cleared(r)
        BY <1>6, <3>1, TouchedRows DEF MovingInv, ClearedInv
      <4> QED BY <2>3, <4>1
    <3>2. CASE r \notin Touched
      <4>1. r \in Rows /\ row[r].state \notin Early
        BY <3>2 DEF StepTouches
      <4>2. Cleared(r)
        BY <1>6, <4>1 DEF ClearedInv, RowsClear
      <4> QED BY <2>3, <4>1, <4>2
    <3> QED BY <3>1, <3>2
  <2>8. ASSUME NEW t \in pool' \cup Range(blocks)', t.kind \in OutKinds
        PROVE  Clear(row'[t.row], credits'[t.row])
    <3>1. CASE t \in pool \cup Range(blocks)
      <4>1. t \in OurTxs
        <5>1. t \in pool => t \in OurTxs
          BY DEF MovingInv, CoinSound
        <5>2. t \in Range(blocks) => t \in Transfers \cup OurTxs
          BY JobParts DEF MovingInv, SoundInv
        <5>3. t \notin Transfers
          BY <2>8, TransferParts DEF Transfers, OutKinds
        <5> QED BY <3>1, <5>1, <5>2, <5>3
      <4>2. t.row \in Rows /\ Cleared(t.row)
        BY <1>6, <2>8, <3>1, <4>1, OurKinds DEF ClearedInv
      <4> QED BY <2>3, <4>2
    <3>2. CASE t.row \in Touched \ {NoId}
      <4>1. t.row \in Rows /\ Cleared(t.row)
        BY <1>6, <3>2, TouchedRows DEF MovingInv, ClearedInv
      <4> QED BY <2>3, <4>1
    <3> QED BY <2>8, <3>1, <3>2 DEF StepSends
  <2> QED BY <2>6, <2>7, <2>8 DEF ClearedInv, Cleared
<1>7. RowsMove
  BY <1>1 DEF RowsMove
<1>8. ASSUME TouchedLate PROVE TouchedLate'
  <2> SUFFICES ASSUME NEW r \in Touched', r # NoId PROVE row'[r].state \notin Early
    BY DEF TouchedLate
  <2>1. r \in Rows /\ row[r].state \notin Early
    <3>1. CASE r \in Touched
      BY <1>8, <3>1, TouchedRows DEF MovingInv, TouchedLate
    <3>2. CASE r \notin Touched
      BY <3>2 DEF StepTouches
    <3> QED BY <3>1, <3>2
  <2> QED BY <1>7, <2>1 DEF RowsMove
<1> QED BY <1>1, <1>4, <1>5, <1>6, <1>7, <1>8

(* What all these steps do and keep. *)
MovesOn ==
    /\ MovingInv' /\ LedgerRests /\ Arrived' = Arrived /\ (OnceInv => OnceInv')
    /\ (LeftInv => LeftInv') /\ (ClearedInv => ClearedInv')
    /\ RowsAreLeft /\ RowsMove /\ (TouchedLate => TouchedLate')

(* A step of tasks and workers that sends nothing. *)
LEMMA MovesBeside ==
    ASSUME MovingInv, RowsAreLeft, troubles' \in 0 .. MaxTroubles,
           UNCHANGED <<blocks, last, lock, scanner, givenUp, pool, done>>, jobs' \subseteq jobs,
           scoring' \subseteq Rows, WorkSound',
           recorded' \subseteq {t \in OurTxs : t.kind # "dust"},
           checks' \subseteq Rows, toSend' \subseteq Rows, toGas' \subseteq Rows,
           StepWrites, StepTouches
    PROVE  MovesOn
<1>1. ChainSound' /\ Arrived' = Arrived
  BY ChainRests DEF MovingInv, SoundInv, ChainSound
<1>2. CoinSound'
  BY DEF MovingInv, CoinSound
<1>3. StepSends
  BY DEF StepSends
<1>4. done \subseteq done'
  OBVIOUS
<1> QED BY <1>1, <1>2, <1>3, <1>4, Moves DEF MovesOn

(* A step of tasks and workers that sends t, and writes no row. *)
LEMMA MovesBySending ==
    ASSUME MovingInv, UNCHANGED <<depositVars, done>>, WorkSound', CoinSound',
           NEW t, pool' \subseteq pool \cup {t},
           t.kind \in OutKinds => t.row \in Touched \ {NoId}, StepTouches
    PROVE  MovesOn
<1>1. /\ RowsAreLeft /\ UNCHANGED <<row, troubles>>
      /\ UNCHANGED <<blocks, last, lock, scanner, jobs, givenUp, scoring>>
  BY DEF depositVars, rowVars, walletVars, ledgerVars, scanVars, RowsAreLeft
<1>2. ChainSound' /\ Arrived' = Arrived
  BY <1>1, ChainRests DEF MovingInv, SoundInv, ChainSound
<1>3. troubles' \in 0 .. MaxTroubles
  BY <1>1 DEF MovingInv, SoundInv, RowsSound, RowTypeInv
<1>4. StepSends
  BY <1>1 DEF StepSends
<1>5. StepWrites /\ done \subseteq done'
  BY <1>1 DEF StepWrites
<1> QED BY <1>1, <1>2, <1>3, <1>4, <1>5, Moves DEF MovesOn

LEMMA TroublesAre ==
    ASSUME MovingInv PROVE troubles \in 0 .. MaxTroubles /\ MaxTroubles \in Nat
BY DepositAssumption DEF MovingInv, SoundInv, RowsSound, RowTypeInv

-----------------------------------------------------------------------------
(* One lemma per action.                                                   *)

LEMMA CheckBalancesMoves == ASSUME MovingInv, CheckBalances PROVE MovesOn
<1>1. PICK T \in OnePerWallet(ReadyForAccumulation) :
          checks' = checks \cup T \cup ExternalReady /\ scoring' = scoring \cup WaitingForKyt
  BY DEF CheckBalances
<1>2. UNCHANGED <<rowVars, scanVars, coinVars, toSend, toGas, workVars>>
  BY DEF CheckBalances
<1>3. RowsAreLeft /\ UNCHANGED <<row, troubles, blocks, last, lock, scanner, jobs, givenUp,
                                 pool, done, recorded, accumulator, gasWorker>>
  BY <1>2 DEF rowVars, walletVars, ledgerVars, scanVars, coinVars, workVars, RowsAreLeft
<1>4. \A r \in T \cup ExternalReady : r \in Rows /\ row[r].state \in ReadyStates
  BY DEF OnePerWallet, ReadyForAccumulation, ExternalReady, Ready
<1>5. ReadyStates \cap Early = {}
  BY DEF ReadyStates, Early, KytStates
<1>6. WorkSound' /\ AtWork' = AtWork
  BY <1>3, WorkersRest DEF MovingInv
<1>7. Touched' \subseteq Touched \cup T \cup ExternalReady
  <2>1. Touched' \subseteq Touched \cup (T \cup ExternalReady)
    BY <1>1, <1>2, <1>3, <1>6, TouchedStep
  <2> QED BY <2>1
<1>8. StepTouches
  BY <1>4, <1>5, <1>7 DEF StepTouches
<1>9. StepWrites
  BY <1>3 DEF StepWrites
<1>10. checks' \subseteq Rows /\ toSend' \subseteq Rows /\ toGas' \subseteq Rows
  BY <1>1, <1>2, <1>4 DEF MovingInv, CoinSound
<1>11. scoring' \subseteq Rows
  BY <1>1 DEF WaitingForKyt, MovingInv, SoundInv, ChainSound
<1>12. recorded' \subseteq {t \in OurTxs : t.kind # "dust"}
  BY <1>3 DEF MovingInv, CoinSound
<1> QED BY <1>3, <1>6, <1>8, <1>9, <1>10, <1>11, <1>12, TroublesAre, MovesBeside

(* A task or worker at row r writes the row, or not, and hands it on. *)
LEMMA HandsOn ==
    ASSUME MovingInv, NEW r \in Touched \ {NoId}, NEW s \in Onward,
           SetsState(r, s) \/ row' = row,
           UNCHANGED <<besideRow, blocks, last, lock, scanner, givenUp, scoring, pool, done>>,
           jobs' \subseteq jobs, WorkSound', AtWork' \subseteq AtWork \cup {r, NoId},
           recorded' \subseteq {t \in OurTxs : t.kind # "dust"},
           \A t \in recorded' \ recorded : t.row = r,
           checks' \subseteq checks \cup {r}, toSend' \subseteq toSend \cup {r},
           toGas' \subseteq toGas \cup {r}
    PROVE  MovesOn
<1>1. RowsAreLeft /\ UNCHANGED troubles
  BY DEF besideRow, ledgerVars, RowsAreLeft
<1>2. s \in States \ Early /\ ~SettledState(s)
  BY DEF Onward, SettledState
<1>3. StepWrites
  BY <1>1, <1>2 DEF StepWrites
<1>4. Touched' \subseteq Touched \cup {r, NoId}
  BY TouchedStep
<1>5. StepTouches
  BY <1>4 DEF StepTouches
<1>6. checks' \subseteq Rows /\ toSend' \subseteq Rows /\ toGas' \subseteq Rows
  BY TouchedRows DEF MovingInv, CoinSound
<1>7. scoring' \subseteq Rows
  BY DEF MovingInv, SoundInv, ChainSound
<1> QED BY <1>1, <1>3, <1>5, <1>6, <1>7, TroublesAre, MovesBeside

LEMMA InTask ==
    ASSUME MovingInv, NEW r, r \in checks \cup toSend \cup toGas PROVE r \in Touched \ {NoId}
BY RowParts DEF Touched, MovingInv, CoinSound

LEMMA AccumulatorAtWork ==
    ASSUME MovingInv, NEW a \in Accumulators, accumulator[a].step # "idle"
    PROVE  /\ accumulator[a].row \in Touched \ {NoId} /\ accumulator[a].tx \in OurTxs
           /\ accumulator[a].tx.row = accumulator[a].row /\ accumulator[a].tx.kind \in OutKinds
BY RowParts DEF Touched, AtWork, MovingInv, WorkSound, JobSound

LEMMA GasWorkerAtWork ==
    ASSUME MovingInv, gasWorker.step # "idle"
    PROVE  /\ gasWorker.row \in Touched \ {NoId} /\ gasWorker.tx \in OurTxs
           /\ gasWorker.tx.row = gasWorker.row /\ gasWorker.tx.kind = "gas"
BY RowParts DEF Touched, AtWork, MovingInv, WorkSound, JobSound

LEMMA MoveStates ==
    {"READY_FOR_ACCUMULATION", "GAS_REQUIRED", "GAS_PRICE_TOO_HIGH", "BALANCE_TOO_LOW",
     "ACCUMULATION_IN_PROGRESS", "WAITING_FOR_GAS"} \subseteq Onward
BY DEF Onward, States, ReadyStates, Early, KytStates

LEMMA CheckBalanceMoves == ASSUME MovingInv, CheckBalance PROVE MovesOn
<1>1. PICK r \in checks : checks' = checks \ {r} /\ Splits(r)
  BY DEF CheckBalance
<1>2. UNCHANGED <<besideRow, scanVars, scoring, coinVars, workVars>>
  BY DEF CheckBalance
<1>3. UNCHANGED <<blocks, last, lock, scanner, jobs, givenUp, pool, done, recorded, accumulator, gasWorker>>
  BY <1>2 DEF scanVars, coinVars, workVars
<1>4. r \in Touched \ {NoId}
  BY InTask
<1>5. PICK s \in {"GAS_REQUIRED", "READY_FOR_ACCUMULATION"} :
          /\ SetsState(r, s) /\ toSend' \subseteq toSend \cup {r} /\ toGas' \subseteq toGas \cup {r}
  BY <1>1 DEF Splits
<1>6. WorkSound' /\ AtWork' = AtWork
  BY <1>3, WorkersRest DEF MovingInv
<1>7. recorded' \subseteq {t \in OurTxs : t.kind # "dust"} /\ s \in Onward
  BY <1>3, MoveStates DEF MovingInv, CoinSound
<1> QED BY <1>1, <1>2, <1>3, <1>4, <1>5, <1>6, <1>7, HandsOn

LEMMA CoinNotSentMoves ==
    ASSUME MovingInv, NEW a \in Accumulators, CoinNotSent(a) PROVE MovesOn
<1>1. PICK r \in toSend :
          /\ toSend' = toSend \ {r}
          /\ SetsState(r, "GAS_PRICE_TOO_HIGH") \/ SetsState(r, "BALANCE_TOO_LOW")
  BY DEF CoinNotSent
<1>2. UNCHANGED <<besideRow, scanVars, scoring, coinVars, checks, toGas, accumulator, gasWorker>>
  BY DEF CoinNotSent
<1>3. UNCHANGED <<blocks, last, lock, scanner, jobs, givenUp, pool, done, recorded>>
  BY <1>2 DEF scanVars, coinVars
<1>4. r \in Touched \ {NoId}
  BY InTask
<1>5. PICK s \in Onward : SetsState(r, s)
  BY <1>1, MoveStates
<1>6. WorkSound' /\ AtWork' = AtWork
  BY <1>2, WorkersRest DEF MovingInv
<1>7. recorded' \subseteq {t \in OurTxs : t.kind # "dust"}
  BY <1>3 DEF MovingInv, CoinSound
<1> QED BY <1>1, <1>2, <1>3, <1>4, <1>5, <1>6, <1>7, HandsOn

LEMMA RecordAccumulationMoves ==
    ASSUME MovingInv, NEW a \in Accumulators, RecordAccumulation(a) PROVE MovesOn
<1> DEFINE j == accumulator[a]
           x == [j EXCEPT !.step = "mark"]
<1>1. j.step = "record" /\ recorded' = recorded \cup {j.tx} /\ Accumulates(a, x)
  BY DEF RecordAccumulation
<1>2. UNCHANGED <<depositVars, pool, done, queueVars, gasWorker>>
  BY DEF RecordAccumulation
<1>3. UNCHANGED <<row, besideRow, blocks, last, lock, scanner, jobs, givenUp, scoring,
                  checks, toSend, toGas>>
  BY <1>2 DEF depositVars, rowVars, walletVars, ledgerVars, scanVars, queueVars, besideRow
<1>4. j \in AccumulatorJobs /\ j.row \in Touched \ {NoId} /\ j.tx \in OurTxs
      /\ j.tx.row = j.row /\ j.tx.kind \in OutKinds
  BY <1>1, AccumulatorAtWork DEF MovingInv, WorkSound
<1>5. x \in AccumulatorJobs /\ x.row = j.row /\ x.tx = j.tx /\ x.step = "mark"
  BY <1>4 DEF AccumulatorJobs
<1>6. JobSound(x, OutKinds)
  BY <1>4, <1>5, OurKinds DEF JobSound
<1> HIDE DEF x
<1>7. WorkSound' /\ AtWork' \subseteq AtWork \cup {j.row}
  BY <1>1, <1>2, <1>5, <1>6, AccumulatorStep DEF MovingInv
<1>8. recorded' \subseteq {t \in OurTxs : t.kind # "dust"} /\ \A t \in recorded' \ recorded : t.row = j.row
  BY <1>1, <1>4 DEF MovingInv, CoinSound, OutKinds
<1>9. PICK s \in Onward : TRUE
  BY MoveStates
<1> HIDE DEF j
<1> QED BY <1>2, <1>3, <1>4, <1>7, <1>8, <1>9, HandsOn

LEMMA MarkInProgressMoves ==
    ASSUME MovingInv, NEW a \in Accumulators, MarkInProgress(a) PROVE MovesOn
<1>1. /\ accumulator[a].step = "mark" /\ Accumulates(a, NoJob)
      /\ SetsState(accumulator[a].row, "ACCUMULATION_IN_PROGRESS") \/ row' = row
  BY DEF MarkInProgress, Marks
<1>2. UNCHANGED <<besideRow, scanVars, scoring, coinVars, queueVars, gasWorker>>
  BY DEF MarkInProgress
<1>3. UNCHANGED <<blocks, last, lock, scanner, jobs, givenUp, pool, done, recorded, checks, toSend, toGas>>
  BY <1>2 DEF scanVars, coinVars, queueVars
<1>4. accumulator[a].row \in Touched \ {NoId}
  BY <1>1, AccumulatorAtWork
<1>5. WorkSound' /\ AtWork' \subseteq AtWork \cup {NoId}
  BY <1>1, <1>2, NoJobParts, AccumulatorStep DEF MovingInv
<1>6. recorded' \subseteq {t \in OurTxs : t.kind # "dust"} /\ "ACCUMULATION_IN_PROGRESS" \in Onward
  BY <1>3, MoveStates DEF MovingInv, CoinSound
<1> QED BY <1>1, <1>2, <1>3, <1>4, <1>5, <1>6, HandsOn

LEMMA WorkerDiesMoves == ASSUME MovingInv, WorkerDies PROVE MovesOn
<1>1. /\ troubles < MaxTroubles /\ troubles' = troubles + 1
      /\ \/ \E a \in Accumulators : Accumulates(a, NoJob) /\ UNCHANGED gasWorker
         \/ Gases(NoJob) /\ UNCHANGED accumulator
  BY DEF WorkerDies
<1>2. UNCHANGED <<row, transaction, balance, block, task, ledgerVars, scanVars, scoring,
                  coinVars, queueVars>>
  BY DEF WorkerDies
<1>3. /\ RowsAreLeft
      /\ UNCHANGED <<blocks, last, lock, scanner, jobs, givenUp, pool, done, recorded, checks, toSend, toGas>>
  BY <1>2 DEF ledgerVars, scanVars, coinVars, queueVars, RowsAreLeft
<1>4. WorkSound' /\ AtWork' \subseteq AtWork \cup {NoId}
  BY <1>1, NoJobParts, AccumulatorStep, GasStep DEF MovingInv
<1>5. Touched' \subseteq Touched \cup {NoId}
  BY <1>3, <1>4, TouchedStep
<1>6. StepTouches /\ StepWrites
  BY <1>2, <1>5 DEF StepTouches, StepWrites
<1>7. troubles' \in 0 .. MaxTroubles
  BY <1>1, TroublesAre
<1>8. /\ recorded' \subseteq {t \in OurTxs : t.kind # "dust"} /\ scoring' \subseteq Rows
      /\ checks' \subseteq Rows /\ toSend' \subseteq Rows /\ toGas' \subseteq Rows
  BY <1>2, <1>3 DEF MovingInv, CoinSound, SoundInv, ChainSound
<1> QED BY <1>3, <1>4, <1>6, <1>7, <1>8, MovesBeside

LEMMA SendAccumulationMoves ==
    ASSUME MovingInv, NEW a \in Accumulators, SendAccumulation(a) PROVE MovesOn
<1>1. PICK r \in toSend :
          LET w == WalletOf(r)
              t == [kind |-> IF row[r].external THEN "external" ELSE "accumulate", row |-> r,
                    nonce |-> WalletNonce(w), price |-> 1]
          IN  /\ toSend' = toSend \ {r}
              /\ \/ /\ t.nonce <= MaxNonce /\ pool' = pool \cup {t}
                    /\ Accumulates(a, [step |-> "record", row |-> r, tx |-> t, seen |-> row[r].state])
                 \/ UNCHANGED <<pool, accumulator>>
  BY DEF SendAccumulation
<1> DEFINE t == [kind |-> IF row[r].external THEN "external" ELSE "accumulate", row |-> r,
                 nonce |-> WalletNonce(WalletOf(r)), price |-> 1]
           x == [step |-> "record", row |-> r, tx |-> t, seen |-> row[r].state]
<1>2. /\ toSend' = toSend \ {r}
      /\ \/ t.nonce <= MaxNonce /\ pool' = pool \cup {t} /\ Accumulates(a, x)
         \/ UNCHANGED <<pool, accumulator>>
  BY <1>1
<1>3. UNCHANGED <<depositVars, done, recorded, checks, toGas, gasWorker>>
  BY DEF SendAccumulation
<1>4. r \in Touched \ {NoId} /\ r \in Rows
  BY InTask, TouchedRows DEF MovingInv
<1>5. ASSUME t.nonce <= MaxNonce PROVE t \in OurTxs /\ t.row = r /\ t.kind \in OutKinds
  <2>1. t.nonce \in 0 .. MaxNonce
    BY <1>5, NonceParts, ChainAssumption DEF MovingInv, SoundInv
  <2>2. 1 \in 0 .. MaxPrice
    BY AccumulationAssumption, ChainAssumption
  <2>3. t.kind \in {"accumulate", "external"} /\ t.row = r /\ t.price = 1
    OBVIOUS
  <2> QED BY <1>4, <2>1, <2>2, <2>3, OurTx DEF OutKinds
<1>6. x.step = "record" /\ x.row = r /\ x.tx = t
  OBVIOUS
<1>7. t.nonce <= MaxNonce => x \in AccumulatorJobs
  <2>1. row[r].state \in States \cup {"none"}
    BY <1>4 DEF MovingInv, SoundInv, RowsSound, RowTypeInv, Row, NoRow
  <2> HIDE DEF t
  <2> QED BY <1>4, <1>5, <2>1 DEF AccumulatorJobs
<1> HIDE DEF t, x
<1>8. WorkSound' /\ AtWork' \subseteq AtWork \cup {r}
  <2>1. CASE UNCHANGED accumulator
    BY <1>3, <2>1, WorkersRest DEF MovingInv
  <2>2. CASE t.nonce <= MaxNonce /\ Accumulates(a, x)
    <3>1. JobSound(x, OutKinds)
      BY <1>4, <1>5, <1>6, <2>2 DEF JobSound
    <3> QED BY <1>3, <1>6, <1>7, <2>2, <3>1, AccumulatorStep DEF MovingInv
  <2> QED BY <1>2, <2>1, <2>2
<1>9. Touched' \subseteq Touched \cup {r}
  BY <1>2, <1>3, <1>8, TouchedStep
<1>10. StepTouches
  BY <1>4, <1>9 DEF StepTouches
<1>11. pool' \subseteq pool \cup {t} /\ (pool' # pool => t \in OurTxs)
  BY <1>2, <1>5
<1>12. CoinSound'
  BY <1>2, <1>3, <1>11 DEF MovingInv, CoinSound, depositVars, scanVars
<1>13. CASE t.nonce <= MaxNonce
  BY <1>3, <1>4, <1>5, <1>8, <1>10, <1>11, <1>12, <1>13, MovesBySending
<1>14. CASE UNCHANGED pool
  <2> DEFINE u == NoTx
  <2>1. u.kind \notin OutKinds /\ pool' \subseteq pool \cup {u}
    BY <1>14 DEF NoTx, OutKinds
  <2> HIDE DEF u
  <2> QED BY <1>3, <1>8, <1>10, <1>12, <2>1, MovesBySending
<1> QED BY <1>2, <1>13, <1>14

(* The gas worker sends a transaction, to record it next. *)
LEMMA GasSent ==
    ASSUME MovingInv, NEW r \in Touched \ {NoId}, NEW n \in 0 .. MaxNonce, NEW p \in 0 .. MaxPrice,
           NEW t, t = [kind |-> "gas", row |-> r, nonce |-> n, price |-> p],
           NEW x, x = [step |-> "record", row |-> r, tx |-> t, seen |-> row[r].state],
           pool' = pool \cup {t}, Gases(x), toGas' \subseteq toGas,
           UNCHANGED <<depositVars, done, recorded, checks, toSend, accumulator>>
    PROVE  MovesOn
<1>1. r \in Rows
  BY TouchedRows DEF MovingInv
<1>2. t \in OurTxs /\ t.kind = "gas" /\ t.row = r
  BY <1>1, OurTx
<1>3. row[r].state \in States \cup {"none"}
  BY <1>1 DEF MovingInv, SoundInv, RowsSound, RowTypeInv, Row, NoRow
<1>4. x \in GasJobs /\ x.row = r /\ x.tx = t
  BY <1>1, <1>2, <1>3 DEF GasJobs
<1>5. JobSound(x, {"gas"})
  BY <1>1, <1>2, <1>4 DEF JobSound
<1>6. WorkSound' /\ AtWork' \subseteq AtWork \cup {r}
  BY <1>4, <1>5, GasStep DEF MovingInv
<1>7. Touched' \subseteq Touched \cup {r}
  BY <1>6, TouchedStep
<1>8. StepTouches
  BY <1>7 DEF StepTouches
<1>9. CoinSound'
  BY <1>2 DEF MovingInv, CoinSound, depositVars, scanVars
<1>10. t.kind \notin OutKinds
  BY <1>2 DEF OutKinds
<1> QED BY <1>6, <1>8, <1>9, <1>10, MovesBySending

LEMMA SendGasMoves == ASSUME MovingInv, SendGas PROVE MovesOn
<1>1. PICK r \in toGas, p \in 1 .. MaxPrice :
          LET t == [kind |-> "gas", row |-> r, nonce |-> KeeperNonce, price |-> p]
          IN  /\ toGas' = toGas \ {r}
              /\ \/ /\ t.nonce <= MaxNonce /\ pool' = pool \cup {t}
                    /\ Gases([step |-> "record", row |-> r, tx |-> t, seen |-> row[r].state])
                    /\ UNCHANGED checks
                 \/ checks' = checks \cup {r} /\ UNCHANGED <<pool, gasWorker>>
  BY DEF SendGas
<1>2. UNCHANGED <<depositVars, done, recorded, toSend, accumulator>>
  BY DEF SendGas
<1>3. r \in Touched \ {NoId} /\ toGas' \subseteq toGas
  BY <1>1, InTask
<1> DEFINE t == [kind |-> "gas", row |-> r, nonce |-> KeeperNonce, price |-> p]
           x == [step |-> "record", row |-> r, tx |-> t, seen |-> row[r].state]
<1>4. CASE t.nonce <= MaxNonce /\ pool' = pool \cup {t} /\ Gases(x) /\ UNCHANGED checks
  <2>1. t.nonce = KeeperNonce
    OBVIOUS
  <2>2. KeeperNonce \in 0 .. MaxNonce
    BY <1>4, <2>1, NonceParts, ChainAssumption DEF MovingInv, SoundInv
  <2>3. p \in 0 .. MaxPrice
    BY ChainAssumption
  <2>4. pool' = pool \cup {t} /\ Gases(x) /\ UNCHANGED checks
    BY <1>4
  <2>5. t = [kind |-> "gas", row |-> r, nonce |-> KeeperNonce, price |-> p]
    OBVIOUS
  <2>6. x = [step |-> "record", row |-> r, tx |-> t, seen |-> row[r].state]
    OBVIOUS
  <2> HIDE DEF t, x
  <2> QED BY <1>2, <1>3, <2>2, <2>3, <2>4, <2>5, <2>6, GasSent
<1>5. CASE checks' = checks \cup {r} /\ UNCHANGED <<pool, gasWorker>>
  <2>1. UNCHANGED <<row, besideRow, blocks, last, lock, scanner, jobs, givenUp, scoring>>
    BY <1>2 DEF depositVars, rowVars, walletVars, ledgerVars, scanVars, besideRow
  <2>2. WorkSound' /\ AtWork' = AtWork
    BY <1>2, <1>5, WorkersRest DEF MovingInv
  <2>3. recorded' \subseteq {u \in OurTxs : u.kind # "dust"}
    BY <1>2 DEF MovingInv, CoinSound
  <2>4. PICK s \in Onward : TRUE
    BY MoveStates
  <2> QED BY <1>2, <1>3, <1>5, <2>1, <2>2, <2>3, <2>4, HandsOn
<1>6. \/ t.nonce <= MaxNonce /\ pool' = pool \cup {t} /\ Gases(x) /\ UNCHANGED checks
      \/ checks' = checks \cup {r} /\ UNCHANGED <<pool, gasWorker>>
  BY <1>1
<1> QED BY <1>4, <1>5, <1>6

LEMMA GasNotSentMoves == ASSUME MovingInv, GasNotSent PROVE MovesOn
<1>1. UNCHANGED <<besideRow, blocks, last, lock, scanner, jobs, givenUp, scoring,
                  pool, done, recorded, checks, toSend, accumulator>>
  BY DEF GasNotSent, scanVars, coinVars
<1>2. recorded' \subseteq {t \in OurTxs : t.kind # "dust"} /\ "GAS_PRICE_TOO_HIGH" \in Onward
  BY <1>1, MoveStates DEF MovingInv, CoinSound
<1>3. CASE \E r \in toGas :
               toGas' = toGas \ {r} /\ SetsState(r, "GAS_PRICE_TOO_HIGH") /\ UNCHANGED gasWorker
  <2>1. PICK r \in toGas :
             toGas' = toGas \ {r} /\ SetsState(r, "GAS_PRICE_TOO_HIGH") /\ UNCHANGED gasWorker
    BY <1>3
  <2>2. r \in Touched \ {NoId}
    BY InTask
  <2>3. WorkSound' /\ AtWork' = AtWork
    BY <1>1, <2>1, WorkersRest DEF MovingInv
  <2> QED BY <1>1, <1>2, <2>1, <2>2, <2>3, HandsOn
<1>4. CASE /\ gasWorker.step = "receipt" /\ SetsState(gasWorker.row, "GAS_PRICE_TOO_HIGH")
           /\ Gases(NoJob) /\ UNCHANGED toGas
  <2>1. gasWorker.row \in Touched \ {NoId}
    BY <1>4, GasWorkerAtWork
  <2>2. WorkSound' /\ AtWork' \subseteq AtWork \cup {NoId}
    BY <1>1, <1>4, NoJobParts, GasStep DEF MovingInv
  <2> QED BY <1>1, <1>2, <1>4, <2>1, <2>2, HandsOn
<1> QED BY <1>3, <1>4 DEF GasNotSent

LEMMA RecordGasMoves == ASSUME MovingInv, RecordGas PROVE MovesOn
<1> DEFINE x == [gasWorker EXCEPT !.step = "receipt"]
<1>1. /\ gasWorker.step = "record" /\ recorded' = recorded \cup {gasWorker.tx} /\ Gases(x)
      /\ SetsState(gasWorker.row, "WAITING_FOR_GAS") \/ row' = row
  BY DEF RecordGas, Marks
<1>2. UNCHANGED <<besideRow, blocks, last, lock, scanner, jobs, givenUp, scoring,
                  pool, done, checks, toSend, toGas, accumulator>>
  BY DEF RecordGas, scanVars, queueVars
<1>3. /\ gasWorker \in GasJobs /\ gasWorker.row \in Touched \ {NoId} /\ gasWorker.tx \in OurTxs
      /\ gasWorker.tx.row = gasWorker.row /\ gasWorker.tx.kind = "gas"
  BY <1>1, GasWorkerAtWork DEF MovingInv, WorkSound
<1>4. x \in GasJobs /\ x.row = gasWorker.row /\ x.tx = gasWorker.tx
  BY <1>3 DEF GasJobs
<1>5. JobSound(x, {"gas"})
  BY <1>3, <1>4, OurKinds DEF JobSound
<1> HIDE DEF x
<1>6. WorkSound' /\ AtWork' \subseteq AtWork \cup {gasWorker.row}
  BY <1>1, <1>2, <1>4, <1>5, GasStep DEF MovingInv
<1>7. /\ recorded' \subseteq {t \in OurTxs : t.kind # "dust"}
      /\ \A t \in recorded' \ recorded : t.row = gasWorker.row
  BY <1>1, <1>3 DEF MovingInv, CoinSound
<1>8. "WAITING_FOR_GAS" \in Onward
  BY MoveStates
<1> QED BY <1>1, <1>2, <1>3, <1>6, <1>7, <1>8, HandsOn

LEMMA GasReceiptMoves == ASSUME MovingInv, GasReceipt PROVE MovesOn
<1>1. /\ gasWorker.step = "receipt" /\ SetsState(gasWorker.row, "READY_FOR_ACCUMULATION")
      /\ toSend' = toSend \cup {gasWorker.row} /\ Gases(NoJob)
  BY DEF GasReceipt
<1>2. UNCHANGED <<besideRow, blocks, last, lock, scanner, jobs, givenUp, scoring,
                  pool, done, recorded, checks, toGas, accumulator>>
  BY DEF GasReceipt, scanVars
<1>3. gasWorker.row \in Touched \ {NoId}
  BY <1>1, GasWorkerAtWork
<1>4. WorkSound' /\ AtWork' \subseteq AtWork \cup {NoId}
  BY <1>1, <1>2, NoJobParts, GasStep DEF MovingInv
<1>5. recorded' \subseteq {t \in OurTxs : t.kind # "dust"} /\ "READY_FOR_ACCUMULATION" \in Onward
  BY <1>2, MoveStates DEF MovingInv, CoinSound
<1> QED BY <1>1, <1>2, <1>3, <1>4, <1>5, HandsOn

LEMMA Replaced ==
    ASSUME NEW g \in GasJobs, NEW t, NEW s
    PROVE  [g EXCEPT !.step = "record", !.tx = t, !.seen = s]
               = [step |-> "record", row |-> g.row, tx |-> t, seen |-> s]
<1>1. g = [step |-> g.step, row |-> g.row, tx |-> g.tx, seen |-> g.seen]
  BY DEF GasJobs
<1> DEFINE u == [g EXCEPT !.step = "record"]
           v == [u EXCEPT !.tx = t]
           x == [v EXCEPT !.seen = s]
<1>2. u = [step |-> "record", row |-> g.row, tx |-> g.tx, seen |-> g.seen]
  BY <1>1
<1>3. v = [step |-> "record", row |-> g.row, tx |-> t, seen |-> g.seen]
  <2> HIDE DEF u
  <2> QED BY <1>2
<1>4. x = [step |-> "record", row |-> g.row, tx |-> t, seen |-> s]
  <2> HIDE DEF v
  <2> QED BY <1>3
<1>5. [g EXCEPT !.step = "record", !.tx = t, !.seen = s] = x
  OBVIOUS
<1> QED BY <1>4, <1>5

LEMMA GasTimeoutMoves == ASSUME MovingInv, GasTimeout PROVE MovesOn
<1>1. UNCHANGED <<depositVars, done, recorded, checks, toSend, toGas, accumulator>>
  BY DEF GasTimeout, queueVars
<1>2. gasWorker.step = "receipt"
  BY DEF GasTimeout
<1>3. /\ gasWorker \in GasJobs /\ gasWorker.row \in Touched \ {NoId} /\ gasWorker.tx \in OurTxs
      /\ gasWorker.tx.row = gasWorker.row /\ gasWorker.tx.kind = "gas"
  BY <1>2, GasWorkerAtWork DEF MovingInv, WorkSound
<1>4. CASE Gases(NoJob) /\ UNCHANGED pool
  <2>1. WorkSound' /\ AtWork' \subseteq AtWork \cup {NoId}
    BY <1>1, <1>4, NoJobParts, GasStep DEF MovingInv
  <2>2. UNCHANGED <<row, besideRow, blocks, last, lock, scanner, jobs, givenUp, scoring>>
    BY <1>1 DEF depositVars, rowVars, walletVars, ledgerVars, scanVars, besideRow
  <2>3. recorded' \subseteq {t \in OurTxs : t.kind # "dust"}
    BY <1>1 DEF MovingInv, CoinSound
  <2>4. PICK s \in Onward : TRUE
    BY MoveStates
  <2> QED BY <1>1, <1>3, <1>4, <2>1, <2>2, <2>3, <2>4, HandsOn
<1> DEFINE t == [gasWorker.tx EXCEPT !.price = @ + 1]
           x == [gasWorker EXCEPT !.step = "record", !.tx = t,
                                  !.seen = row[gasWorker.row].state]
<1>5. CASE t.price <= MaxPrice /\ pool' = pool \cup {t} /\ Gases(x)
  <2>1. /\ gasWorker.tx \in Tx /\ gasWorker.tx.nonce \in 0 .. MaxNonce
        /\ gasWorker.tx.price \in 0 .. MaxPrice
    BY <1>3 DEF OurTxs, Tx
  <2>2. t = [kind |-> "gas", row |-> gasWorker.row, nonce |-> gasWorker.tx.nonce,
             price |-> gasWorker.tx.price + 1]
    BY <1>3, <2>1 DEF Tx
  <2>3. gasWorker.tx.price + 1 \in 0 .. MaxPrice
    <3>1. t.price = gasWorker.tx.price + 1
      BY <2>2
    <3> HIDE DEF t
    <3> QED BY <1>5, <2>1, <3>1, ChainAssumption
  <2>4. x = [step |-> "record", row |-> gasWorker.row, tx |-> t, seen |-> row[gasWorker.row].state]
    <3> HIDE DEF t
    <3> QED BY <1>3, Replaced
  <2>5. pool' = pool \cup {t} /\ Gases(x)
    BY <1>5
  <2> HIDE DEF t, x
  <2> QED BY <1>1, <1>3, <2>1, <2>2, <2>3, <2>4, <2>5, GasSent
<1> QED BY <1>4, <1>5 DEF GasTimeout

LEMMA SettlesParts ==
    ASSUME NEW r, SetsAccumulated(r)
    PROVE  row' = row \/ \E s \in States \ Early : SetsState(r, s)
BY DEF SetsAccumulated, Accumulated, States, Early, KytStates

LEMMA ProcessAccumulationMoves ==
    ASSUME MovingInv, NEW a \in Depositors, ProcessAccumulation(a) PROVE MovesOn
<1>1. PICK t \in jobs :
          /\ t.kind = "accumulate" /\ jobs' = jobs \ {t}
          /\ \/ /\ t \in recorded /\ t \in done
                /\ \/ SetsAccumulated(t.row) /\ UNCHANGED troubles
                   \/ troubles < MaxTroubles /\ troubles' = troubles + 1 /\ UNCHANGED row
             \/ UNCHANGED <<row, troubles>>
  BY DEF ProcessAccumulation, ToComplete, TakesJob
<1>2. UNCHANGED <<transaction, balance, block, task, ledgerVars, blocks, last, lock, scanner,
                  givenUp, scoring, pool, done, recorded, queueVars, workVars>>
  BY DEF ProcessAccumulation
<1>3. /\ RowsAreLeft /\ UNCHANGED <<checks, toSend, toGas, accumulator, gasWorker>>
      /\ jobs' \subseteq jobs
  BY <1>1, <1>2 DEF ledgerVars, queueVars, workVars, RowsAreLeft
<1>4. WorkSound' /\ AtWork' = AtWork
  BY <1>3, WorkersRest DEF MovingInv
<1>5. Touched' = Touched
  BY <1>2, <1>3, <1>4 DEF Touched
<1>6. StepTouches
  BY <1>5 DEF StepTouches
<1>7. StepWrites
  <2>1. CASE row' = row
    BY <2>1 DEF StepWrites
  <2>2. CASE row' # row
    <3>1. t \in recorded /\ t \in done /\ SetsAccumulated(t.row) /\ UNCHANGED troubles
      BY <1>1, <2>2
    <3>2. t.row \in Touched \ {NoId}
      BY <3>1, OurKinds, RowParts DEF Touched, MovingInv, CoinSound
    <3>3. Left(t.row, done)
      BY <1>1, <3>1 DEF Left, OutKinds
    <3>4. \E s \in States \ Early : SetsState(t.row, s)
      BY <2>2, <3>1, SettlesParts
    <3> QED BY <3>1, <3>2, <3>3, <3>4 DEF StepWrites
  <2> QED BY <2>1, <2>2
<1>8. troubles' \in 0 .. MaxTroubles
  BY <1>1, TroublesAre
<1>9. /\ recorded' \subseteq {u \in OurTxs : u.kind # "dust"} /\ scoring' \subseteq Rows
      /\ checks' \subseteq Rows /\ toSend' \subseteq Rows /\ toGas' \subseteq Rows
  BY <1>2, <1>3 DEF MovingInv, CoinSound, SoundInv, ChainSound
<1> QED BY <1>2, <1>3, <1>4, <1>6, <1>7, <1>8, <1>9, MovesBeside

(* A step of tasks that leaves workers, rows and transactions alone. *)
LEMMA NothingMoves ==
    ASSUME MovingInv, UNCHANGED <<row, besideRow, blocks, last, lock, scanner, givenUp, scoring,
                                  pool, done, recorded, queueVars, workVars>>,
           jobs' \subseteq jobs
    PROVE  MovesOn
<1>1. /\ RowsAreLeft /\ UNCHANGED <<troubles, checks, toSend, toGas, accumulator, gasWorker>>
  BY DEF besideRow, ledgerVars, queueVars, workVars, RowsAreLeft
<1>2. WorkSound' /\ AtWork' = AtWork
  BY <1>1, WorkersRest DEF MovingInv
<1>3. Touched' = Touched
  BY <1>1, <1>2 DEF Touched
<1>4. StepTouches /\ StepWrites
  BY <1>3 DEF StepTouches, StepWrites
<1>5. /\ recorded' \subseteq {u \in OurTxs : u.kind # "dust"} /\ scoring' \subseteq Rows
      /\ checks' \subseteq Rows /\ toSend' \subseteq Rows /\ toGas' \subseteq Rows
  BY <1>1 DEF MovingInv, CoinSound, SoundInv, ChainSound
<1> QED BY <1>1, <1>2, <1>4, <1>5, TroublesAre, MovesBeside

LEMMA ProcessGasMoves ==
    ASSUME MovingInv, NEW a \in Depositors, ProcessGas(a) PROVE MovesOn
<1>1. PICK t \in jobs :
          /\ t.kind = "gas" /\ jobs' = jobs \ {t}
          /\ \/ /\ t \in recorded /\ SetsState(t.row, "READY_FOR_ACCUMULATION")
                /\ toSend' = toSend \cup {t.row}
             \/ UNCHANGED <<row, toSend>>
  BY DEF ProcessGas, TakesJob
<1>2. UNCHANGED <<besideRow, blocks, last, lock, scanner, givenUp, scoring,
                  pool, done, recorded, checks, toGas, workVars>>
  BY DEF ProcessGas
<1>3. jobs' \subseteq jobs /\ UNCHANGED <<accumulator, gasWorker>>
  BY <1>1, <1>2 DEF workVars
<1>4. CASE UNCHANGED <<row, toSend>>
  BY <1>2, <1>3, <1>4, NothingMoves DEF queueVars
<1>5. CASE /\ t \in recorded /\ SetsState(t.row, "READY_FOR_ACCUMULATION")
           /\ toSend' = toSend \cup {t.row}
  <2>1. t.row \in Touched \ {NoId}
    BY <1>5, OurKinds, RowParts DEF Touched, MovingInv, CoinSound
  <2>2. WorkSound' /\ AtWork' = AtWork
    BY <1>3, WorkersRest DEF MovingInv
  <2>3. recorded' \subseteq {u \in OurTxs : u.kind # "dust"} /\ "READY_FOR_ACCUMULATION" \in Onward
    BY <1>2, MoveStates DEF MovingInv, CoinSound
  <2> QED BY <1>2, <1>3, <1>5, <2>1, <2>2, <2>3, HandsOn
<1> QED BY <1>1, <1>4, <1>5

LEMMA ProcessDustMoves ==
    ASSUME MovingInv, NEW a \in Depositors, ProcessDust(a) PROVE MovesOn
<1>1. jobs' \subseteq jobs /\ UNCHANGED <<rowVars, blocks, last, lock, scanner, givenUp, scoring,
                                         coinVars, queueVars, workVars>>
  BY DEF ProcessDust, TakesJob
<1>2. UNCHANGED <<row, besideRow, pool, done, recorded>>
  BY <1>1 DEF rowVars, walletVars, ledgerVars, coinVars, besideRow
<1> QED BY <1>1, <1>2, NothingMoves

LEMMA SweepDustMoves == ASSUME MovingInv, SweepDust PROVE MovesOn
<1>1. PICK r \in Rows :
          /\ WalletNonce(WalletOf(r)) <= MaxNonce
          /\ pool' = pool \cup {[kind |-> "dust", row |-> r, nonce |-> WalletNonce(WalletOf(r)),
                                 price |-> 0]}
  BY DEF SweepDust
<1> DEFINE t == [kind |-> "dust", row |-> r, nonce |-> WalletNonce(WalletOf(r)), price |-> 0]
<1>2. UNCHANGED <<depositVars, done, recorded, checks, toSend, toGas, accumulator, gasWorker>>
  BY DEF SweepDust, queueVars, workVars
<1>3. WalletNonce(WalletOf(r)) \in 0 .. MaxNonce /\ 0 \in 0 .. MaxPrice
  BY <1>1, NonceParts, ChainAssumption DEF MovingInv, SoundInv
<1>4. t \in OurTxs /\ t.kind = "dust"
  BY <1>3, OurTx
<1>5. pool' = pool \cup {t}
  BY <1>1
<1> HIDE DEF t
<1>6. WorkSound' /\ AtWork' = AtWork
  BY <1>2, WorkersRest DEF MovingInv
<1>7. Touched' = Touched
  BY <1>2, <1>6 DEF Touched
<1>8. StepTouches
  BY <1>7 DEF StepTouches
<1>9. CoinSound'
  BY <1>2, <1>4, <1>5 DEF MovingInv, CoinSound, depositVars, scanVars
<1>10. t.kind \notin OutKinds
  BY <1>4 DEF OutKinds
<1> QED BY <1>2, <1>5, <1>6, <1>8, <1>9, <1>10, MovesBySending

(* A transaction of ours in a block is no transfer. *)
LEMMA ChainAppend ==
    ASSUME ChainSound, NEW t \in OurTxs, Len(blocks) < MaxBlocks, blocks' = Append(blocks, t),
           UNCHANGED <<last, lock, scanner, jobs, givenUp, scoring>>
    PROVE  ChainSound' /\ Arrived' = Arrived /\ Range(blocks)' = Range(blocks) \cup {t}
<1>1. Range(blocks') = Range(blocks) \cup {t}
  BY RangeAppend DEF ChainSound
<1>2. Arrived' = Arrived
  <2>1. \A d \in Deposits : Transfer(d) # t
    BY TransferParts, OurKinds
  <2> QED BY <1>1, <2>1 DEF Arrived
<1>3. blocks' \in Seq(Transfers \cup OurTxs) /\ Len(blocks') = Len(blocks) + 1
  <2>1. blocks \in Seq(Transfers \cup OurTxs) /\ t \in Transfers \cup OurTxs
    BY DEF ChainSound
  <2> HIDE DEF Transfers, OurTxs
  <2> QED BY <2>1
<1>4. Len(blocks) \in Nat /\ MaxBlocks \in Nat
  BY ChainAssumption DEF ChainSound
<1>5. \A s \in Scanners : scanner[s].on => scanner[s].to <= Len(blocks')
  BY <1>3, <1>4 DEF ChainSound, Scan
<1>6. last \in 0 .. Len(blocks') /\ Len(blocks') <= MaxBlocks
  BY <1>3, <1>4 DEF ChainSound
<1>7. jobs' \subseteq Range(blocks')
  BY <1>1 DEF ChainSound
<1> QED BY <1>1, <1>2, <1>3, <1>5, <1>6, <1>7 DEF ChainSound, Transfers, OurTxs

LEMMA MineMoves == ASSUME MovingInv, Mine PROVE MovesOn
<1>1. PICK t \in pool :
          /\ Len(blocks) < MaxBlocks /\ blocks' = Append(blocks, t)
          /\ pool' \subseteq pool /\ done \subseteq done' /\ done' \subseteq done \cup {t}
  BY DEF Mine
<1>2. UNCHANGED <<rowVars, last, lock, scanner, jobs, givenUp, scoring, recorded, queueVars, workVars>>
  BY DEF Mine
<1>3. /\ RowsAreLeft
      /\ UNCHANGED <<row, troubles, checks, toSend, toGas, accumulator, gasWorker>>
  BY <1>2 DEF rowVars, walletVars, ledgerVars, queueVars, workVars, RowsAreLeft
<1>4. t \in OurTxs
  BY DEF MovingInv, CoinSound
<1>5. ChainSound' /\ Arrived' = Arrived /\ Range(blocks)' = Range(blocks) \cup {t}
  BY <1>1, <1>2, <1>4, ChainAppend DEF MovingInv, SoundInv
<1>6. WorkSound' /\ AtWork' = AtWork
  BY <1>3, WorkersRest DEF MovingInv
<1>7. Touched' = Touched
  BY <1>2, <1>3, <1>6 DEF Touched
<1>8. StepTouches /\ StepWrites
  BY <1>3, <1>7 DEF StepTouches, StepWrites
<1>9. StepSends
  BY <1>1, <1>5 DEF StepSends
<1>10. CoinSound'
  BY <1>1, <1>2, <1>3, <1>4, <1>5 DEF MovingInv, CoinSound
<1>11. troubles' \in 0 .. MaxTroubles
  BY <1>3, TroublesAre
<1> QED BY <1>1, <1>3, <1>5, <1>6, <1>8, <1>9, <1>10, <1>11, Moves DEF MovesOn

(* All of them. *)
LEMMA WorkMoves ==
    ASSUME MovingInv, AccumulationNext, ~(Credits /\ UNCHANGED accumulationVars)
    PROVE  MovesOn
BY CheckBalancesMoves, CheckBalanceMoves, SendAccumulationMoves, CoinNotSentMoves,
   RecordAccumulationMoves, MarkInProgressMoves, WorkerDiesMoves, SendGasMoves, GasNotSentMoves,
   RecordGasMoves, GasReceiptMoves, GasTimeoutMoves, ProcessAccumulationMoves, ProcessGasMoves,
   ProcessDustMoves, MineMoves, SweepDustMoves
DEF AccumulationNext

-----------------------------------------------------------------------------
(* Deposits go on as in EvmDeposits.                                       *)

(* A step of EvmDeposits is one of a handler at its row, the first one of  *)
(* a handler, or leaves rows and copies alone.                             *)
LEMMA DepositSteps ==
    ASSUME SoundInv, [Next]_depositVars
    PROVE  \/ \E a \in Actors : Handle(a)
           \/ \E a \in Actors : Administrate(a) \/ \E r \in Rows : BeginScore(a, r)
           \/ /\ UNCHANGED <<row, credits>>
              /\ \A b \in Actors : task'[b] = task[b] \/ ~Working(task'[b])
<1> DEFINE Beside == /\ UNCHANGED <<row, credits>>
                     /\ \A b \in Actors : task'[b] = task[b] \/ ~Working(task'[b])
<1>1. task \in [Actors -> Task] /\ Depositors \subseteq Actors /\ Checkers \subseteq Actors
      /\ Admins \subseteq Actors
  BY ChainAssumption DEF SoundInv, RowsSound, RowTypeInv
<1>2. CASE UserTransfers \/ CheckScores \/ UNCHANGED depositVars
  BY <1>2 DEF UserTransfers, CheckScores, depositVars, rowVars, walletVars, ledgerVars
<1>3. CASE \E s \in Scanners : StartScan(s) \/ ProcessBlocks(s) \/ ScanDies(s)
  BY <1>3 DEF StartScan, ProcessBlocks, ScanDies, rowVars, walletVars, ledgerVars
<1>4. CASE \E a \in Depositors : ProcessDeposit(a)
  <2>1. PICK a \in Depositors, t \in jobs : LooksAt(a, t)
    BY <1>4 DEF ProcessDeposit
  <2>2. UNCHANGED <<row, credits>>
    BY <1>4 DEF ProcessDeposit, ledgerVars
  <2>3. CASE UNCHANGED task
    BY <2>2, <2>3
  <2>4. CASE Inserts(a, t)
    <3>1. task'[a].step = "create" /\ \A b \in Actors \ {a} : task'[b] = task[b]
      BY <1>1, <2>4 DEF Inserts
    <3> QED BY <2>2, <3>1 DEF Working
  <2> QED BY <2>1, <2>3, <2>4 DEF LooksAt
<1>5. CASE JobDies \/ WalletBlocks
  BY <1>5 DEF JobDies, WalletBlocks, BlockWallet, LiftBlock, ledgerVars
<1>6. CASE \E a \in Checkers : CheckDepositScoring(a)
  <2>1. PICK a \in Checkers, r \in scoring :
            BeginScore(a, r) \/ UNCHANGED rowVars
    BY <1>6 DEF CheckDepositScoring
  <2>2. r \in Rows /\ a \in Actors
    BY <1>1 DEF SoundInv, ChainSound
  <2> QED BY <2>1, <2>2 DEF rowVars, walletVars, ledgerVars
<1>7. CASE \E a \in Admins : AdminActs(a)
  BY <1>1, <1>7 DEF AdminActs
<1>8. CASE \E a \in Actors : RunHandler(a)
  BY <1>8 DEF RunHandler
<1>9. CASE \E a \in Actors : Crash(a)
  <2>1. PICK a \in Actors : Die(a)
    BY <1>9 DEF Crash
  <2>2. UNCHANGED <<row, credits>> /\ task'[a] = NoTask /\ \A b \in Actors \ {a} : task'[b] = task[b]
    BY <1>1, <2>1 DEF Die, Ends, ledgerVars
  <2> QED BY <2>2, Constants
<1> QED BY <1>2, <1>3, <1>4, <1>5, <1>6, <1>7, <1>8, <1>9 DEF Next, Credits

LEMMA RowsStay ==
    ASSUME SoundInv, [Next]_depositVars, NEW r \in Rows, Exists(r)
    PROVE  row'[r].state # "none"
<1>1. ASSUME NEW a \in Actors, Handle(a) PROVE row'[r].state # "none"
  BY <1>1, HandleKeeps DEF SoundInv
<1>2. ASSUME row' = row PROVE row'[r].state # "none"
  BY <1>2 DEF Exists
<1> QED BY <1>1, <1>2, DepositSteps, BeginKeeps DEF SoundInv

(* Only transfers are added to the chain. *)
LEMMA ChainGrows ==
    ASSUME SoundInv, [Next]_depositVars
    PROVE  Range(blocks) \subseteq Range(blocks)' /\ Range(blocks)' \subseteq Range(blocks) \cup Transfers
<1>1. CASE UserTransfers
  <2>1. PICK d \in Deposits : blocks' = Append(blocks, Transfer(d))
    BY <1>1 DEF UserTransfers
  <2>2. Range(blocks') = Range(blocks) \cup {Transfer(d)}
    BY <2>1, RangeAppend DEF SoundInv, ChainSound
  <2> QED BY <2>2, TransferParts
<1>2. CASE UNCHANGED blocks
  BY <1>2
<1> QED BY <1>1, <1>2 DEF Next, Credits, StartScan, ProcessBlocks, ScanDies, ProcessDeposit, JobDies,
          CheckDepositScoring, AdminActs, RunHandler, Crash, WalletBlocks, CheckScores, depositVars,
          scanVars

LEMMA CreditsMove ==
    ASSUME MovingInv, [Next]_depositVars, UNCHANGED accumulationVars
    PROVE  MovingInv' /\ Touched' = Touched
<1>1. UNCHANGED <<pool, done, recorded, checks, toSend, toGas, accumulator, gasWorker>>
  BY DEF accumulationVars, coinVars, queueVars, workVars
<1>2. SoundInv'
  BY NextSound DEF MovingInv
<1>3. WorkSound' /\ AtWork' = AtWork
  BY <1>1, WorkersRest DEF MovingInv
<1>4. Touched' = Touched
  BY <1>1, <1>3 DEF Touched
<1>5. CoinSound'
  BY <1>1, ChainGrows DEF MovingInv, CoinSound
<1>6. TouchedExist'
  <2> SUFFICES ASSUME NEW r \in Touched, r # NoId PROVE row'[r].state # "none"
    BY <1>4 DEF TouchedExist, Exists
  <2>1. r \in Rows /\ Exists(r)
    BY TouchedRows DEF MovingInv, TouchedExist
  <2> QED BY <2>1, RowsStay DEF MovingInv
<1> QED BY <1>2, <1>3, <1>4, <1>5, <1>6 DEF MovingInv

(* A handler that inserts a row settles nothing. *)
LEMMA InsertLeaves ==
    ASSUME RowsSound, NEW a \in Actors, Handle(a), task[a].op = "insert"
    PROVE  /\ \A r \in Rows : row'[r] = row[r] \/ ~SettledState(row'[r].state)
           /\ ~Working(task'[a]) \/ ~SettledState(task'[a].obj.state)
<1>1. row \in [Rows -> Row \cup {NoRow}] /\ task \in [Actors -> Task] /\ Shaped(task[a])
  BY DEF RowsSound, RowTypeInv
<1>2. task[a].step \in {"create", "check"}
  BY <1>1 DEF Shaped, StepsOf
<1>3. Created.state = "CREATED" /\ ~SettledState("CREATED")
  BY Constants DEF SettledState
<1>4. CASE InsertRow(a)
  <2> DEFINE r == Copy(task[a].id[1])
  <2>1. /\ row' = [row EXCEPT ![r] = Created]
        /\ task' = [task EXCEPT ![a] = [op |-> "insert", id |-> r, obj |-> Created, step |-> "check"]]
    BY <1>4 DEF InsertRow
  <2>2. task'[a].obj = Created
    BY <1>1, <2>1
  <2> HIDE DEF r
  <2>3. \A q \in Rows : row'[q] = row[q] \/ row'[q] = Created
    BY <1>1, <2>1
  <2> QED BY <1>3, <2>2, <2>3
<1>5. CASE CheckDeposit(a)
  <2>1. task' = [task EXCEPT ![a] = NoTask]
    BY <1>5 DEF CheckDeposit, Ends
  <2>2. task[a].obj = Created
    BY <1>1, <1>5 DEF CheckDeposit, Shaped
  <2>3. \E s \in {"VERIFICATION_FAILED", "WAITING_FOR_KYT_APPROVE"} :
            row' = row \/ row' = [row EXCEPT ![task[a].id] = [Created EXCEPT !.state = s]]
    BY <1>5, <2>2 DEF CheckDeposit
  <2>4. PICK s \in {"VERIFICATION_FAILED", "WAITING_FOR_KYT_APPROVE"} :
            row' = row \/ row' = [row EXCEPT ![task[a].id] = [Created EXCEPT !.state = s]]
    BY <2>3
  <2>5. [Created EXCEPT !.state = s].state = s
    BY DEF Created
  <2>6. ~SettledState(s)
    BY DEF SettledState
  <2>7. \A r \in Rows : row'[r] = row[r] \/ ~SettledState(row'[r].state)
    BY <1>1, <2>4, <2>5, <2>6
  <2>8. ~Working(task'[a])
    BY <1>1, <2>1, Constants
  <2> QED BY <2>7, <2>8
<1> QED BY <1>2, <1>4, <1>5 DEF Handle, Score, Topup, Credit, SaveRow, UnblockWallet, Revert

LEMMA CreditsLeave ==
    ASSUME MovingInv, LeftInv, [Next]_depositVars, UNCHANGED accumulationVars
    PROVE  LeftInv'
<1>1. done' = done /\ RowsSound
  BY DEF accumulationVars, coinVars, MovingInv, SoundInv
<1> SUFFICES /\ \A r \in Rows : SettledState(row'[r].state) => Left(r, done)
             /\ \A a \in Actors : Working(task'[a]) /\ SettledState(task'[a].obj.state)
                                      => Left(task'[a].id, done)
  BY <1>1 DEF LeftInv
<1>2. ASSUME NEW s \in Unsettled PROVE ~SettledState(s)
  BY DEF Unsettled, SettledState
<1>3. ASSUME NEW a \in Actors, Handle(a)
      PROVE  /\ \A r \in Rows : SettledState(row'[r].state) => Left(r, done)
             /\ Working(task'[a]) /\ SettledState(task'[a].obj.state) => Left(task'[a].id, done)
             /\ \A b \in Actors \ {a} : task'[b] = task[b]
  <2>1. \A b \in Actors \ {a} : task'[b] = task[b]
    BY <1>1, <1>3, HandleKeeps
  <2>2. CASE task[a].op = "insert"
    BY <1>1, <1>3, <2>1, <2>2, InsertLeaves DEF LeftInv
  <2>3. CASE task[a].op # "insert"
    <3> DEFINE r == task[a].id
    <3>1. /\ r \in Rows /\ Working(task[a]) /\ \A q \in Rows \ {r} : row'[q] = row[q]
          /\ row'[r] = row[r] \/ row'[r].state \in Unsettled \cup {task[a].obj.state}
          /\ \/ task'[a] = NoTask
             \/ task'[a].id = r /\ task'[a].obj.state \in Unsettled \cup {task[a].obj.state}
      BY <1>1, <1>3, <2>3, HandleCopies
    <3>2. SettledState(task[a].obj.state) => Left(r, done)
      BY <3>1 DEF LeftInv
    <3>3. SettledState(row'[r].state) => Left(r, done)
      BY <1>2, <3>1, <3>2 DEF LeftInv
    <3>4. \A q \in Rows : SettledState(row'[q].state) => Left(q, done)
      BY <3>1, <3>3 DEF LeftInv
    <3>5. Working(task'[a]) /\ SettledState(task'[a].obj.state) => Left(task'[a].id, done)
      BY <1>2, <3>1, <3>2, Constants
    <3> QED BY <2>1, <3>4, <3>5
  <2> QED BY <2>2, <2>3
<1>4. ASSUME NEW a \in Actors, Administrate(a) \/ \E r \in Rows : BeginScore(a, r)
      PROVE  /\ row' = row /\ \A b \in Actors \ {a} : task'[b] = task[b]
             /\ SettledState(task'[a].obj.state) => Left(task'[a].id, done)
  <2>1. row' = row /\ \A b \in Actors \ {a} : task'[b] = task[b]
    BY <1>1, <1>4, BeginKeeps
  <2>2. /\ task'[a].id \in Rows
        /\ task'[a].obj = row[task'[a].id] \/ task'[a].obj.state = "WAITING_FOR_ACCUMULATION"
    BY <1>1, <1>4, BeginCopies
  <2> QED BY <2>1, <2>2 DEF LeftInv, SettledState
<1>5. CASE \E a \in Actors : Handle(a)
  BY <1>3, <1>5 DEF LeftInv
<1>6. CASE \E a \in Actors : Administrate(a) \/ \E r \in Rows : BeginScore(a, r)
  BY <1>4, <1>6 DEF LeftInv
<1>7. CASE /\ UNCHANGED <<row, credits>>
           /\ \A b \in Actors : task'[b] = task[b] \/ ~Working(task'[b])
  BY <1>7 DEF LeftInv
<1> QED BY <1>5, <1>6, <1>7, DepositSteps DEF MovingInv

LEMMA CreditsClear ==
    ASSUME MovingInv, OnceInv, ClearedInv, [Next]_depositVars, UNCHANGED accumulationVars
    PROVE  ClearedInv'
<1>1. RowsSound /\ RowsClear /\ pool' = pool
  BY DEF accumulationVars, coinVars, MovingInv, SoundInv, ClearedInv
<1>2. RowsClear' /\ \A q \in Rows : Cleared(q) => Clear(row'[q], credits'[q])
  <2>1. CASE \E a \in Actors : Handle(a)
    BY <1>1, <2>1, HandleClears
  <2>2. CASE \E a \in Actors : Administrate(a) \/ \E r \in Rows : BeginScore(a, r)
    <3>1. RowsClear' /\ row' = row /\ credits' = credits
      BY <1>1, <2>2, BeginClears
    <3> QED BY <3>1 DEF Cleared
  <2>3. CASE /\ UNCHANGED <<row, credits>>
             /\ \A b \in Actors : task'[b] = task[b] \/ ~Working(task'[b])
    BY <1>1, <2>3 DEF RowsClear, Cleared
  <2> QED BY <2>1, <2>2, <2>3, DepositSteps DEF MovingInv
<1>3. \A r \in Touched' \ {NoId} : Clear(row'[r], credits'[r])
  BY <1>2, CreditsMove, TouchedRows DEF MovingInv, ClearedInv
<1>4. ASSUME NEW t \in pool' \cup Range(blocks)', t.kind \in OutKinds
      PROVE  Clear(row'[t.row], credits'[t.row])
  <2>1. t \notin Transfers
    BY <1>4, TransferParts DEF Transfers, OutKinds
  <2>2. t \in pool \cup Range(blocks)
    BY <1>1, <2>1, ChainGrows DEF MovingInv
  <2>3. t \in OurTxs
    BY <2>1, <2>2, JobParts DEF MovingInv, CoinSound, SoundInv
  <2>4. t.row \in Rows /\ Cleared(t.row)
    BY <1>4, <2>2, <2>3, OurKinds DEF ClearedInv
  <2> QED BY <1>2, <2>4
<1> QED BY <1>2, <1>3, <1>4 DEF ClearedInv, Cleared

-----------------------------------------------------------------------------
(* One row of a wallet at a time.                                          *)

(* Nothing gets a row on its way that was not before. *)
NothingStarts ==
    /\ \A r \in Rows : InProgress(row'[r]) => InProgress(row[r]) \/ AtTask(r)
    /\ \A r \in Rows : AtTask(r)' => AtTask(r) \/ GasUnderWay(r)
    /\ \A t \in recorded' \ completed' :
           t.kind = "gas" /\ t \in pool' \cup Range(blocks)' => AtTask(t.row) \/ GasUnderWay(t.row)

LEMMA OneStays ==
    ASSUME OnePerWalletMoves, NothingStarts PROVE OnePerWalletMoves'
<1>1. ASSUME NEW r \in Rows, OnItsWay(r)' PROVE OnItsWay(r)
  <2>1. CASE InProgress(row'[r])
    BY <2>1 DEF NothingStarts, OnItsWay
  <2>2. CASE AtTask(r)'
    BY <2>2 DEF NothingStarts, OnItsWay
  <2>3. CASE GasUnderWay(r)'
    BY <2>3 DEF NothingStarts, OnItsWay, GasUnderWay
  <2> QED BY <1>1, <2>1, <2>2, <2>3 DEF OnItsWay
<1> QED BY <1>1 DEF OnePerWalletMoves

(* A row's state is written. *)
LEMMA WritesState ==
    ASSUME RowsSound, NEW r \in Rows, NEW s, SetsState(r, s)
    PROVE  \A q \in Rows :
               /\ row'[q].external = row[q].external
               /\ InProgress(row'[q]) => InProgress(row[q]) \/ (q = r /\ s = "ACCUMULATION_IN_PROGRESS")
<1> DEFINE x == [row[r] EXCEPT !.state = s]
<1>1. row[r] \in Row \cup {NoRow}
  BY DEF RowsSound, RowTypeInv
<1>2. x.state = s /\ x.external = row[r].external
  BY <1>1 DEF Row, NoRow
<1>3. row' = [row EXCEPT ![r] = x]
  BY DEF SetsState
<1> HIDE DEF x
<1>4. row'[r] = x /\ \A q \in Rows \ {r} : row'[q] = row[q]
  BY <1>3 DEF RowsSound, RowTypeInv
<1> QED BY <1>2, <1>4 DEF InProgress

(* Where the gas worker goes from: it sends with the keeper's next nonce   *)
(* what no block holds.                                                    *)
GasWorkerFollows ==
    \/ gasWorker' = gasWorker
    \/ gasWorker'.step = "idle"
    \/ /\ gasWorker'.tx.nonce <= KeeperNonce
       /\ gasWorker'.step = "record" => gasWorker'.tx \notin Range(blocks)

(* Tasks and workers, of which no gas transfer is lost. *)
GasIsKept ==
    /\ GasWorkerFollows
    /\ completed \subseteq completed'
    /\ \A t \in jobs \ jobs' : t.kind = "gas" => t \notin recorded' \ completed'
    /\ \A t \in recorded' \ recorded : t.kind = "gas" => t \notin Range(blocks)
    /\ \A t \in pool' \ pool : t.kind = "gas" => t.nonce <= KeeperNonce

LEMMA GasRests ==
    ASSUME GasFollowed, UNCHANGED <<blocks, last>>, GasIsKept PROVE GasFollowed'
<1>1. KeeperNonce' = KeeperNonce /\ \A t : Unscanned(t)' <=> Unscanned(t)
  BY DEF KeeperNonce, Unscanned
<1>2. ASSUME NEW t \in recorded' \ completed', t.kind = "gas", t \in Range(blocks)'
      PROVE  t \in jobs' \/ Unscanned(t)'
  <2>1. t \in recorded \ completed
    BY <1>2 DEF GasIsKept
  <2>2. t \in jobs \/ Unscanned(t)
    BY <1>2, <2>1 DEF GasFollowed
  <2> QED BY <1>1, <1>2, <2>2 DEF GasIsKept
<1>3. \A t \in pool' : t.kind = "gas" => t.nonce <= KeeperNonce'
  BY <1>1 DEF GasFollowed, GasIsKept
<1>4. \A t \in Range(blocks)' : t.kind = "gas" => t.nonce < KeeperNonce'
  BY <1>1 DEF GasFollowed
<1>5. /\ gasWorker'.step # "idle" => gasWorker'.tx.nonce <= KeeperNonce'
      /\ gasWorker'.step = "record" => gasWorker'.tx \notin Range(blocks)'
  BY <1>1 DEF GasFollowed, GasIsKept, GasWorkerFollows
<1> QED BY <1>2, <1>3, <1>4, <1>5 DEF GasFollowed

LEMMA PlainStays ==
    ASSUME PlainRows, task' = task, \A q \in Rows : row'[q].external = row[q].external
    PROVE  PlainRows'
BY DEF PlainRows

(* Tasks and workers hand on the rows X, which are on their way, and write *)
(* rows. *)
LEMMA OneHandsOn ==
    ASSUME MovingInv, OneInv, NEW X, \A x \in X : AtTask(x) \/ GasUnderWay(x),
           UNCHANGED <<task, blocks, last>>, GasIsKept,
           \A q \in Rows : /\ row'[q].external = row[q].external
                           /\ InProgress(row'[q]) => InProgress(row[q]) \/ AtTask(q),
           checks' \subseteq checks \cup X, toSend' \subseteq toSend \cup X, toGas' \subseteq toGas \cup X,
           AtWork' \subseteq AtWork \cup X \cup {NoId},
           \A t \in recorded' \ recorded : t.kind = "gas" => t.row \in X,
           \A t \in pool' \ pool : t.kind = "gas" => t.row \in X
    PROVE  OneInv'
<1>1. ASSUME NEW r \in Rows, AtTask(r)' PROVE AtTask(r) \/ GasUnderWay(r)
  <2>1. r # NoId
    BY RowParts
  <2>2. r \in checks \cup toSend \cup toGas \cup AtWork \cup X
    BY <1>1, <2>1 DEF AtTask
  <2> QED BY <2>2 DEF AtTask
<1>2. ASSUME NEW t \in recorded' \ completed', t.kind = "gas", t \in pool' \cup Range(blocks)'
      PROVE  AtTask(t.row) \/ GasUnderWay(t.row)
  <2>1. CASE t \in recorded /\ t \in pool \cup Range(blocks)
    BY <1>2, <2>1 DEF GasIsKept, GasUnderWay
  <2>2. CASE t.row \in X
    BY <2>2
  <2> QED BY <1>2, <2>1, <2>2
<1>3. NothingStarts
  BY <1>1, <1>2 DEF NothingStarts
<1> QED BY <1>3, OneStays, GasRests, PlainStays DEF OneInv

LEMMA AtTasks ==
    /\ \A r \in checks \cup toSend \cup toGas : AtTask(r)
    /\ \A a \in Accumulators : AtTask(accumulator[a].row)
    /\ AtTask(gasWorker.row)
BY DEF AtTask, AtWork

(* Where nothing is about gas. *)
LEMMA GasAlone ==
    ASSUME UNCHANGED <<gasWorker, completed>>, \A t \in jobs \ jobs' : t.kind # "gas",
           \A t \in recorded' \ recorded : t.kind # "gas", \A t \in pool' \ pool : t.kind # "gas"
    PROVE  GasIsKept
BY DEF GasIsKept, GasWorkerFollows

LEMMA OneCheckBalance == ASSUME MovingInv, OneInv, CheckBalance PROVE OneInv'
<1>1. PICK r \in checks : checks' = checks \ {r} /\ Splits(r)
  BY DEF CheckBalance
<1>2. UNCHANGED <<task, blocks, last, jobs, pool, recorded, completed, accumulator, gasWorker>>
  BY DEF CheckBalance, besideRow, scanVars, coinVars, workVars
<1>3. PICK s \in {"GAS_REQUIRED", "READY_FOR_ACCUMULATION"} :
          /\ SetsState(r, s) /\ toSend' \subseteq toSend \cup {r} /\ toGas' \subseteq toGas \cup {r}
  BY <1>1 DEF Splits
<1>4. r \in Rows /\ AtTask(r)
  BY AtTasks DEF MovingInv, CoinSound
<1>5. \A q \in Rows : /\ row'[q].external = row[q].external
                      /\ InProgress(row'[q]) => InProgress(row[q])
  BY <1>3, <1>4, WritesState DEF MovingInv, SoundInv
<1>6. GasIsKept
  BY <1>2, GasAlone
<1>7. AtWork' = AtWork
  BY <1>2 DEF AtWork
<1> DEFINE X == {r}
<1>8. /\ \A x \in X : AtTask(x) \/ GasUnderWay(x)
      /\ checks' \subseteq checks \cup X /\ toSend' \subseteq toSend \cup X /\ toGas' \subseteq toGas \cup X
      /\ AtWork' \subseteq AtWork \cup X \cup {NoId}
      /\ \A t \in recorded' \ recorded : t.kind = "gas" => t.row \in X
      /\ \A t \in pool' \ pool : t.kind = "gas" => t.row \in X
  BY <1>1, <1>2, <1>3, <1>4, <1>7
<1> HIDE DEF X
<1> QED BY <1>2, <1>5, <1>6, <1>8, OneHandsOn

(* A step of an accumulator that is at row r, or turns to it. *)
LEMMA OneAccumulator ==
    ASSUME MovingInv, OneInv, NEW a \in Accumulators, NEW r, AtTask(r), NEW x,
           Accumulates(a, x) \/ UNCHANGED accumulator, x.row \in {r, NoId},
           UNCHANGED <<task, blocks, last, jobs, completed, checks, toGas, gasWorker>>,
           \A q \in Rows : /\ row'[q].external = row[q].external
                           /\ InProgress(row'[q]) => InProgress(row[q]) \/ q = r,
           toSend' \subseteq toSend, \A t \in recorded' \ recorded : t.kind # "gas",
           \A t \in pool' \ pool : t.kind # "gas"
    PROVE  OneInv'
<1>1. GasIsKept
  BY GasAlone
<1>2. AtWork' \subseteq AtWork \cup {r, NoId}
  <2>1. CASE UNCHANGED accumulator
    BY <2>1 DEF AtWork
  <2>2. CASE Accumulates(a, x)
    <3>1. \A b \in Accumulators : accumulator'[b] \in {x, accumulator[b]}
      BY <2>2 DEF Accumulates, MovingInv, WorkSound
    <3> QED BY <3>1 DEF AtWork
  <2> QED BY <2>1, <2>2
<1> DEFINE X == {r}
<1>3. /\ \A y \in X : AtTask(y) \/ GasUnderWay(y)
      /\ checks' \subseteq checks \cup X /\ toSend' \subseteq toSend \cup X /\ toGas' \subseteq toGas \cup X
      /\ AtWork' \subseteq AtWork \cup X \cup {NoId}
      /\ \A t \in recorded' \ recorded : t.kind = "gas" => t.row \in X
      /\ \A t \in pool' \ pool : t.kind = "gas" => t.row \in X
  BY <1>2
<1> HIDE DEF X
<1>4. \A q \in Rows : /\ row'[q].external = row[q].external
                      /\ InProgress(row'[q]) => InProgress(row[q]) \/ AtTask(q)
  OBVIOUS
<1> QED BY <1>1, <1>3, <1>4, OneHandsOn

LEMMA OneSendAccumulation ==
    ASSUME MovingInv, OneInv, NEW a \in Accumulators, SendAccumulation(a) PROVE OneInv'
<1>1. PICK r \in toSend :
          LET w == WalletOf(r)
              t == [kind |-> IF row[r].external THEN "external" ELSE "accumulate", row |-> r,
                    nonce |-> WalletNonce(w), price |-> 1]
          IN  /\ toSend' = toSend \ {r}
              /\ \/ /\ pool' = pool \cup {t}
                    /\ Accumulates(a, [step |-> "record", row |-> r, tx |-> t, seen |-> row[r].state])
                 \/ UNCHANGED <<pool, accumulator>>
  BY DEF SendAccumulation
<1> DEFINE t == [kind |-> IF row[r].external THEN "external" ELSE "accumulate", row |-> r,
                 nonce |-> WalletNonce(WalletOf(r)), price |-> 1]
           x == [step |-> "record", row |-> r, tx |-> t, seen |-> row[r].state]
<1>2. /\ toSend' \subseteq toSend
      /\ \/ pool' = pool \cup {t} /\ Accumulates(a, x)
         \/ UNCHANGED <<pool, accumulator>>
  BY <1>1
<1>3. UNCHANGED <<row, task, blocks, last, jobs, recorded, completed, checks, toGas, gasWorker>>
  BY DEF SendAccumulation, depositVars, rowVars, walletVars, scanVars
<1>4. AtTask(r) /\ x.row \in {r, NoId} /\ t.kind # "gas"
  BY AtTasks
<1> HIDE DEF t, x
<1>5. Accumulates(a, x) \/ UNCHANGED accumulator
  BY <1>2
<1>6. \A u \in pool' \ pool : u.kind # "gas"
  BY <1>2, <1>4
<1> QED BY <1>2, <1>3, <1>4, <1>5, <1>6, OneAccumulator

LEMMA OneCoinNotSent ==
    ASSUME MovingInv, OneInv, NEW a \in Accumulators, CoinNotSent(a) PROVE OneInv'
<1>1. PICK r \in toSend :
          /\ toSend' = toSend \ {r}
          /\ SetsState(r, "GAS_PRICE_TOO_HIGH") \/ SetsState(r, "BALANCE_TOO_LOW")
  BY DEF CoinNotSent
<1>2. UNCHANGED <<task, blocks, last, jobs, pool, recorded, completed, checks, toGas, accumulator, gasWorker>>
  BY DEF CoinNotSent, besideRow, scanVars, coinVars
<1>3. r \in Rows /\ AtTask(r)
  BY AtTasks DEF MovingInv, CoinSound
<1>4. \A q \in Rows : /\ row'[q].external = row[q].external
                      /\ InProgress(row'[q]) => InProgress(row[q])
  BY <1>1, <1>3, WritesState DEF MovingInv, SoundInv
<1> QED BY <1>1, <1>2, <1>3, <1>4, NoJobParts, OneAccumulator

LEMMA OneRecordAccumulation ==
    ASSUME MovingInv, OneInv, NEW a \in Accumulators, RecordAccumulation(a) PROVE OneInv'
<1> DEFINE r == accumulator[a].row
           x == [accumulator[a] EXCEPT !.step = "mark"]
<1>1. accumulator[a].step = "record" /\ recorded' = recorded \cup {accumulator[a].tx} /\ Accumulates(a, x)
  BY DEF RecordAccumulation
<1>2. UNCHANGED <<row, task, blocks, last, jobs, pool, completed, checks, toSend, toGas, gasWorker>>
  BY DEF RecordAccumulation, depositVars, rowVars, walletVars, scanVars, queueVars
<1>3. accumulator[a].tx.kind # "gas" /\ accumulator[a] \in AccumulatorJobs
  BY <1>1, AccumulatorAtWork DEF OutKinds, MovingInv, WorkSound
<1>4. x.row = r
  BY <1>3 DEF AccumulatorJobs
<1>5. AtTask(r)
  BY AtTasks
<1> HIDE DEF x, r
<1>6. \A t \in recorded' \ recorded : t.kind # "gas"
  BY <1>1, <1>3
<1> QED BY <1>1, <1>2, <1>4, <1>5, <1>6, OneAccumulator

LEMMA OneMarkInProgress ==
    ASSUME MovingInv, OneInv, NEW a \in Accumulators, MarkInProgress(a) PROVE OneInv'
<1> DEFINE r == accumulator[a].row
<1>1. /\ accumulator[a].step = "mark" /\ Accumulates(a, NoJob)
      /\ SetsState(r, "ACCUMULATION_IN_PROGRESS") \/ row' = row
  BY DEF MarkInProgress, Marks
<1>2. UNCHANGED <<task, blocks, last, jobs, pool, recorded, completed, checks, toSend, toGas, gasWorker>>
  BY DEF MarkInProgress, besideRow, scanVars, coinVars, queueVars
<1>3. AtTask(r) /\ r \in Rows
  BY <1>1, AtTasks, AccumulatorAtWork, TouchedRows DEF MovingInv
<1> HIDE DEF r
<1>4. \A q \in Rows : /\ row'[q].external = row[q].external
                      /\ InProgress(row'[q]) => InProgress(row[q]) \/ q = r
  BY <1>1, <1>3, WritesState DEF MovingInv, SoundInv
<1>5. NoJob.row \in {r, NoId}
  BY NoJobParts
<1> QED BY <1>1, <1>2, <1>3, <1>4, <1>5, OneAccumulator

(* A step of the gas worker that is at row r, or turns to it. *)
LEMMA OneGasWorker ==
    ASSUME MovingInv, OneInv, NEW r \in Rows, AtTask(r),
           NEW x, Gases(x) \/ UNCHANGED gasWorker, x.row \in {r, NoId},
           \/ x.step = "idle"
           \/ /\ x.tx.nonce <= KeeperNonce
              /\ x.step = "record" => x.tx \notin Range(blocks),
           UNCHANGED <<task, blocks, last, jobs, accumulator>>, completed \subseteq completed',
           row' = row \/ \E s \in States \ {"ACCUMULATION_IN_PROGRESS"} : SetsState(r, s),
           checks' \subseteq checks \cup {r}, toSend' \subseteq toSend \cup {r}, toGas' \subseteq toGas,
           \A t \in recorded' \ recorded : t.kind = "gas" => t.row = r /\ t \notin Range(blocks),
           \A t \in pool' \ pool : t.kind = "gas" => t.row = r /\ t.nonce <= KeeperNonce
    PROVE  OneInv'
<1>1. GasIsKept
  BY DEF GasIsKept, GasWorkerFollows, Gases
<1>2. AtWork' \subseteq AtWork \cup {r, NoId}
  BY DEF AtWork, Gases
<1>3. \A q \in Rows : /\ row'[q].external = row[q].external
                      /\ InProgress(row'[q]) => InProgress(row[q]) \/ AtTask(q)
  BY WritesState DEF MovingInv, SoundInv
<1> DEFINE X == {r}
<1>4. /\ \A y \in X : AtTask(y) \/ GasUnderWay(y)
      /\ checks' \subseteq checks \cup X /\ toSend' \subseteq toSend \cup X /\ toGas' \subseteq toGas \cup X
      /\ AtWork' \subseteq AtWork \cup X \cup {NoId}
      /\ \A t \in recorded' \ recorded : t.kind = "gas" => t.row \in X
      /\ \A t \in pool' \ pool : t.kind = "gas" => t.row \in X
  BY <1>2
<1> HIDE DEF X
<1> QED BY <1>1, <1>3, <1>4, OneHandsOn

LEMMA OneSendGas == ASSUME MovingInv, OneInv, SendGas PROVE OneInv'
<1>1. PICK r \in toGas, p \in 1 .. MaxPrice :
          LET t == [kind |-> "gas", row |-> r, nonce |-> KeeperNonce, price |-> p]
          IN  /\ toGas' = toGas \ {r}
              /\ \/ /\ pool' = pool \cup {t}
                    /\ Gases([step |-> "record", row |-> r, tx |-> t, seen |-> row[r].state])
                    /\ UNCHANGED checks
                 \/ checks' = checks \cup {r} /\ UNCHANGED <<pool, gasWorker>>
  BY DEF SendGas
<1> DEFINE t == [kind |-> "gas", row |-> r, nonce |-> KeeperNonce, price |-> p]
           x == [step |-> "record", row |-> r, tx |-> t, seen |-> row[r].state]
<1>2. /\ toGas' \subseteq toGas
      /\ \/ pool' = pool \cup {t} /\ Gases(x) /\ UNCHANGED checks
         \/ checks' = checks \cup {r} /\ UNCHANGED <<pool, gasWorker>>
  BY <1>1
<1>3. UNCHANGED <<row, task, blocks, last, jobs, recorded, completed, toSend, accumulator>>
  BY DEF SendGas, depositVars, rowVars, walletVars, scanVars
<1>4. r \in Rows /\ AtTask(r)
  BY AtTasks DEF MovingInv, CoinSound
<1>5. t.kind = "gas" /\ t.row = r /\ t.nonce = KeeperNonce /\ x.row = r /\ x.tx = t
  OBVIOUS
<1> HIDE DEF t, x
<1>6. KeeperNonce \in Nat
  BY NonceParts DEF MovingInv, SoundInv
<1>7. t \notin Range(blocks)
  BY <1>5, <1>6 DEF OneInv, GasFollowed
<1>8. t.nonce <= KeeperNonce
  BY <1>5, <1>6
<1>9. Gases(x) \/ UNCHANGED gasWorker
  BY <1>2
<1>10. \A u \in pool' \ pool : u.kind = "gas" => u.row = r /\ u.nonce <= KeeperNonce
  BY <1>2, <1>5, <1>8
<1>11. checks' \subseteq checks \cup {r}
  BY <1>2
<1> QED BY <1>2, <1>3, <1>4, <1>5, <1>7, <1>8, <1>9, <1>10, <1>11, OneGasWorker

LEMMA OneGasNotSent == ASSUME MovingInv, OneInv, GasNotSent PROVE OneInv'
<1>1. UNCHANGED <<task, blocks, last, jobs, pool, recorded, completed, checks, toSend, accumulator>>
  BY DEF GasNotSent, besideRow, scanVars, coinVars
<1>2. PICK r \in Rows : /\ AtTask(r) /\ SetsState(r, "GAS_PRICE_TOO_HIGH") /\ toGas' \subseteq toGas
                        /\ Gases(NoJob) \/ UNCHANGED gasWorker
  <2>1. CASE gasWorker.step = "receipt" /\ SetsState(gasWorker.row, "GAS_PRICE_TOO_HIGH")
             /\ Gases(NoJob) /\ UNCHANGED toGas
    <3>1. gasWorker.row \in Rows
      BY <2>1, GasWorkerAtWork, TouchedRows DEF MovingInv
    <3> QED BY <2>1, <3>1, AtTasks
  <2>2. CASE \E r \in toGas :
               toGas' = toGas \ {r} /\ SetsState(r, "GAS_PRICE_TOO_HIGH") /\ UNCHANGED gasWorker
    <3>1. PICK r \in toGas :
               toGas' = toGas \ {r} /\ SetsState(r, "GAS_PRICE_TOO_HIGH") /\ UNCHANGED gasWorker
      BY <2>2
    <3>2. r \in Rows /\ AtTask(r) /\ toGas' \subseteq toGas
      BY <3>1, AtTasks DEF MovingInv, CoinSound
    <3> QED BY <3>1, <3>2
  <2> QED BY <2>1, <2>2 DEF GasNotSent
<1>3. "GAS_PRICE_TOO_HIGH" \in States \ {"ACCUMULATION_IN_PROGRESS"}
  BY DEF States, ReadyStates
<1> QED BY <1>1, <1>2, <1>3, NoJobParts, OneGasWorker

LEMMA OneRecordGas == ASSUME MovingInv, OneInv, RecordGas PROVE OneInv'
<1> DEFINE x == [gasWorker EXCEPT !.step = "receipt"]
           r == gasWorker.row
<1>1. /\ gasWorker.step = "record" /\ recorded' = recorded \cup {gasWorker.tx} /\ Gases(x)
      /\ SetsState(r, "WAITING_FOR_GAS") \/ row' = row
  BY DEF RecordGas, Marks
<1>2. UNCHANGED <<task, blocks, last, jobs, pool, completed, checks, toSend, toGas, accumulator>>
  BY DEF RecordGas, besideRow, scanVars, queueVars
<1>3. /\ gasWorker \in GasJobs /\ r \in Rows /\ gasWorker.tx.row = r /\ gasWorker.tx.kind = "gas"
      /\ AtTask(r)
  BY <1>1, GasWorkerAtWork, TouchedRows, AtTasks DEF MovingInv, WorkSound
<1>4. x.step = "receipt" /\ x.row = r /\ x.tx = gasWorker.tx
  BY <1>3 DEF GasJobs
<1>5. gasWorker.tx.nonce <= KeeperNonce /\ gasWorker.tx \notin Range(blocks)
  BY <1>1 DEF OneInv, GasFollowed
<1> HIDE DEF x, r
<1>6. "WAITING_FOR_GAS" \in States \ {"ACCUMULATION_IN_PROGRESS"}
  BY DEF States, ReadyStates
<1>7. row' = row \/ \E s \in States \ {"ACCUMULATION_IN_PROGRESS"} : SetsState(r, s)
  BY <1>1, <1>6
<1>8. \A t \in recorded' \ recorded : t.kind = "gas" => t.row = r /\ t \notin Range(blocks)
  BY <1>1, <1>3, <1>5
<1> QED BY <1>1, <1>2, <1>3, <1>4, <1>5, <1>7, <1>8, OneGasWorker

LEMMA OneGasReceipt == ASSUME MovingInv, OneInv, GasReceipt PROVE OneInv'
<1> DEFINE r == gasWorker.row
<1>1. /\ gasWorker.step = "receipt" /\ SetsState(r, "READY_FOR_ACCUMULATION")
      /\ completed' = completed \cup {gasWorker.tx}
      /\ toSend' = toSend \cup {r} /\ Gases(NoJob)
  BY DEF GasReceipt
<1>2. UNCHANGED <<task, blocks, last, jobs, pool, recorded, checks, toGas, accumulator>>
  BY DEF GasReceipt, besideRow, scanVars
<1>3. r \in Rows /\ AtTask(r)
  BY <1>1, GasWorkerAtWork, TouchedRows, AtTasks DEF MovingInv
<1> HIDE DEF r
<1>4. "READY_FOR_ACCUMULATION" \in States \ {"ACCUMULATION_IN_PROGRESS"}
  BY DEF States, ReadyStates
<1>5. row' = row \/ \E s \in States \ {"ACCUMULATION_IN_PROGRESS"} : SetsState(r, s)
  BY <1>1, <1>4
<1>6. completed \subseteq completed' /\ toSend' \subseteq toSend \cup {r}
  BY <1>1
<1> QED BY <1>1, <1>2, <1>3, <1>5, <1>6, NoJobParts, OneGasWorker

LEMMA OneGasTimeout == ASSUME MovingInv, OneInv, GasTimeout PROVE OneInv'
<1> DEFINE r == gasWorker.row
           t == [gasWorker.tx EXCEPT !.price = @ + 1]
           x == [gasWorker EXCEPT !.step = "record", !.tx = t, !.seen = row[r].state]
<1>1. UNCHANGED <<row, task, blocks, last, jobs, recorded, completed, checks, toSend, toGas, accumulator>>
  BY DEF GasTimeout, depositVars, rowVars, walletVars, scanVars, queueVars
<1>2. gasWorker.step = "receipt"
  BY DEF GasTimeout
<1>3. /\ gasWorker \in GasJobs /\ r \in Rows /\ gasWorker.tx \in OurTxs
      /\ gasWorker.tx.row = r /\ gasWorker.tx.kind = "gas" /\ AtTask(r)
  BY <1>2, GasWorkerAtWork, TouchedRows, AtTasks DEF MovingInv, WorkSound
<1>4. CASE Gases(NoJob) /\ UNCHANGED pool
  <2> HIDE DEF r
  <2> QED BY <1>1, <1>3, <1>4, NoJobParts, OneGasWorker
<1>5. CASE ~(gasWorker.tx.nonce < KeeperNonce) /\ pool' = pool \cup {t} /\ Gases(x)
  <2>1. t.kind = "gas" /\ t.row = r /\ t.nonce = gasWorker.tx.nonce
    BY <1>3 DEF OurTxs, Tx
  <2>2. x.step = "record" /\ x.row = r /\ x.tx = t
    <3>1. gasWorker \in GasJobs
      BY <1>3
    <3>2. x = [step |-> "record", row |-> gasWorker.row, tx |-> t, seen |-> row[gasWorker.row].state]
      <4> HIDE DEF t
      <4> QED BY <3>1, Replaced, Zenon
    <3> HIDE DEF x, t
    <3> QED BY <3>2
  <2>3. Gases(x) /\ pool' = pool \cup {t} /\ ~(gasWorker.tx.nonce < KeeperNonce)
    BY <1>5
  <2> HIDE DEF t, x, r
  <2>4. KeeperNonce \in Nat /\ gasWorker.tx.nonce \in Nat
    BY <1>3, OurKinds, NonceParts, ChainAssumption DEF MovingInv, SoundInv
  <2>5. gasWorker.tx.nonce <= KeeperNonce
    BY <1>2 DEF OneInv, GasFollowed
  <2>6. t.nonce <= KeeperNonce
    BY <2>1, <2>5
  <2>7. t \notin Range(blocks)
    BY <2>1, <2>3, <2>4 DEF OneInv, GasFollowed
  <2>8. \A u \in pool' \ pool : u.kind = "gas" => u.row = r /\ u.nonce <= KeeperNonce
    BY <2>1, <2>3, <2>6
  <2> QED BY <1>1, <1>3, <2>2, <2>3, <2>6, <2>7, <2>8, OneGasWorker
<1> QED BY <1>4, <1>5 DEF GasTimeout

(* A task of the deposits queue looks at t. *)
LEMMA OneProcesses ==
    ASSUME MovingInv, OneInv, NEW t \in jobs, jobs' = jobs \ {t},
           UNCHANGED <<task, blocks, last, pool, recorded, checks, toGas, accumulator, gasWorker>>,
           completed \subseteq completed', t.kind = "gas" => t \notin recorded \ completed',
           row' = row \/ \E r \in Rows, s \in States \ {"ACCUMULATION_IN_PROGRESS"} : SetsState(r, s),
           NEW X, \A x \in X : GasUnderWay(x), toSend' \subseteq toSend \cup X
    PROVE  OneInv'
<1>1. GasIsKept
  BY DEF GasIsKept, GasWorkerFollows
<1>2. \A q \in Rows : /\ row'[q].external = row[q].external
                      /\ InProgress(row'[q]) => InProgress(row[q]) \/ AtTask(q)
  BY WritesState DEF MovingInv, SoundInv
<1>3. AtWork' = AtWork
  BY DEF AtWork
<1> QED BY <1>1, <1>2, <1>3, OneHandsOn

LEMMA OneProcessAccumulation ==
    ASSUME MovingInv, OneInv, NEW a \in Depositors, ProcessAccumulation(a) PROVE OneInv'
<1>1. PICK t \in jobs :
          /\ t.kind = "accumulate" /\ jobs' = jobs \ {t} /\ completed \subseteq completed'
          /\ (SetsAccumulated(t.row) /\ t \in recorded) \/ row' = row
  BY DEF ProcessAccumulation, ToComplete, TakesJob
<1>2. UNCHANGED <<task, blocks, last, pool, recorded, checks, toSend, toGas, accumulator, gasWorker>>
  BY DEF ProcessAccumulation, queueVars, workVars
<1>3. row' = row \/ \E r \in Rows, s \in States \ {"ACCUMULATION_IN_PROGRESS"} : SetsState(r, s)
  <2>1. CASE row' = row
    BY <2>1
  <2>2. CASE row' # row
    <3>1. t.row \in Rows
      BY <1>1, <2>2, OurKinds DEF MovingInv, CoinSound
    <3>2. \E s \in States \ {"ACCUMULATION_IN_PROGRESS"} : SetsState(t.row, s)
      <4>1. {"ACCUMULATED", "EXTERNAL_ACCUMULATED"} \subseteq States \ {"ACCUMULATION_IN_PROGRESS"}
        BY DEF States
      <4> QED BY <1>1, <2>2, <4>1 DEF SetsAccumulated, Accumulated
    <3> QED BY <3>1, <3>2
  <2> QED BY <2>1, <2>2
<1>4. t.kind # "gas"
  BY <1>1
<1> DEFINE X == {}
<1>5. (\A x \in X : GasUnderWay(x)) /\ toSend' \subseteq toSend \cup X
  BY <1>2
<1> HIDE DEF X
<1> QED BY <1>1, <1>2, <1>3, <1>4, <1>5, OneProcesses

LEMMA OneProcessGas ==
    ASSUME MovingInv, OneInv, NEW a \in Depositors, ProcessGas(a) PROVE OneInv'
<1>1. PICK t \in jobs :
          /\ t.kind = "gas" /\ jobs' = jobs \ {t}
          /\ IF t \in recorded \ completed
             THEN /\ completed' = completed \cup {t} /\ SetsState(t.row, "READY_FOR_ACCUMULATION")
                  /\ toSend' = toSend \cup {t.row}
             ELSE UNCHANGED <<completed, row, toSend>>
  BY DEF ProcessGas, TakesJob
<1>2. UNCHANGED <<task, blocks, last, pool, recorded, checks, toGas, accumulator, gasWorker>>
  BY DEF ProcessGas, besideRow, workVars
<1>3. t \notin recorded \ completed' /\ completed \subseteq completed'
  BY <1>1
<1>4. CASE t \in recorded \ completed
  <2>1. t.row \in Rows /\ t \in Range(blocks)
    BY <1>4, OurKinds DEF MovingInv, CoinSound, SoundInv, ChainSound
  <2>2. "READY_FOR_ACCUMULATION" \in States \ {"ACCUMULATION_IN_PROGRESS"}
    BY DEF States, ReadyStates
  <2>3. row' = row \/ \E r \in Rows, s \in States \ {"ACCUMULATION_IN_PROGRESS"} : SetsState(r, s)
    BY <1>1, <1>4, <2>1, <2>2
  <2> DEFINE X == {t.row}
  <2>4. (\A x \in X : GasUnderWay(x)) /\ toSend' \subseteq toSend \cup X
    BY <1>1, <1>4, <2>1 DEF GasUnderWay
  <2> HIDE DEF X
  <2> QED BY <1>1, <1>2, <1>3, <2>3, <2>4, OneProcesses
<1>5. CASE t \notin recorded \ completed
  <2> DEFINE X == {}
  <2>1. (\A x \in X : GasUnderWay(x)) /\ toSend' \subseteq toSend \cup X /\ row' = row
    BY <1>1, <1>5
  <2> HIDE DEF X
  <2> QED BY <1>1, <1>2, <1>3, <2>1, OneProcesses
<1> QED BY <1>4, <1>5

LEMMA OneProcessDust ==
    ASSUME MovingInv, OneInv, NEW a \in Depositors, ProcessDust(a) PROVE OneInv'
<1>1. PICK t \in jobs : t.kind = "dust" /\ jobs' = jobs \ {t}
  BY DEF ProcessDust, TakesJob
<1>2. UNCHANGED <<row, task, blocks, last, pool, recorded, completed, checks, toSend, toGas,
                  accumulator, gasWorker>>
  BY DEF ProcessDust, rowVars, walletVars, coinVars, queueVars, workVars
<1> DEFINE X == {}
<1>3. (\A x \in X : GasUnderWay(x)) /\ toSend' \subseteq toSend \cup X
  BY <1>2
<1> HIDE DEF X
<1>4. t.kind # "gas" /\ completed \subseteq completed'
  BY <1>1, <1>2
<1> QED BY <1>1, <1>2, <1>3, <1>4, OneProcesses

LEMMA OneSweepDust == ASSUME MovingInv, OneInv, SweepDust PROVE OneInv'
<1>1. PICK t : t.kind = "dust" /\ pool' = pool \cup {t}
  <2>1. PICK r : pool' = pool \cup {[kind |-> "dust", row |-> r, nonce |-> WalletNonce(WalletOf(r)),
                                     price |-> 0]}
    BY DEF SweepDust
  <2>2. [kind |-> "dust", row |-> r, nonce |-> WalletNonce(WalletOf(r)), price |-> 0].kind = "dust"
    OBVIOUS
  <2> QED BY <2>1, <2>2
<1>2. UNCHANGED <<row, task, blocks, last, jobs, recorded, completed, checks, toSend, toGas,
                  accumulator, gasWorker>>
  BY DEF SweepDust, depositVars, rowVars, walletVars, scanVars, queueVars, workVars
<1>3. GasIsKept
  BY <1>1, <1>2, GasAlone
<1> DEFINE X == {}
<1>4. /\ \A x \in X : AtTask(x) \/ GasUnderWay(x)
      /\ checks' \subseteq checks \cup X /\ toSend' \subseteq toSend \cup X /\ toGas' \subseteq toGas \cup X
      /\ AtWork' \subseteq AtWork \cup X \cup {NoId}
      /\ \A u \in recorded' \ recorded : u.kind = "gas" => u.row \in X
      /\ \A u \in pool' \ pool : u.kind = "gas" => u.row \in X
  BY <1>1, <1>2 DEF AtWork
<1> HIDE DEF X
<1> QED BY <1>2, <1>3, <1>4, OneHandsOn

(* The keeper's nonce counts its transactions in blocks. *)
LEMMA NonceAppend ==
    ASSUME ChainSound, NEW t, blocks' = Append(blocks, t)
    PROVE  KeeperNonce' = IF t.kind = "gas" THEN KeeperNonce + 1 ELSE KeeperNonce
<1> DEFINE S == {i \in DOMAIN blocks : blocks[i].kind = "gas"}
           z == Len(blocks) + 1
<1>1. /\ Len(blocks) \in Nat /\ DOMAIN blocks = 1 .. Len(blocks) /\ DOMAIN blocks' = 1 .. z
      /\ blocks'[z] = t /\ \A i \in 1 .. Len(blocks) : blocks'[i] = blocks[i]
  BY DEF ChainSound
<1>2. IsFiniteSet(S) /\ z \notin S
  <2>1. IsFiniteSet(DOMAIN blocks) /\ S \subseteq DOMAIN blocks
    BY <1>1, FS_Interval
  <2>2. z \notin DOMAIN blocks
    BY <1>1
  <2> QED BY <2>1, <2>2, FS_Subset
<1>3. {i \in DOMAIN blocks' : blocks'[i].kind = "gas"} = IF t.kind = "gas" THEN S \cup {z} ELSE S
  BY <1>1
<1>4. Cardinality(S \cup {z}) = Cardinality(S) + 1
  <2> HIDE DEF S, z
  <2> QED BY <1>2, FS_AddElement
<1> QED BY <1>3, <1>4 DEF KeeperNonce

(* A block with t is added. *)
LEMMA GasAppend ==
    ASSUME ChainSound, GasFollowed, NEW t, blocks' = Append(blocks, t),
           UNCHANGED <<last, jobs, recorded, completed, gasWorker>>, pool' \subseteq pool,
           t.kind = "gas" => t.nonce <= KeeperNonce /\ t.nonce \in Nat,
           gasWorker.step = "record" => gasWorker.tx # t,
           \A u \in pool' : u.kind = "gas" => u.nonce \in Nat,
           \A u \in Range(blocks) : u.kind = "gas" => u.nonce \in Nat,
           gasWorker.step # "idle" => gasWorker.tx.nonce \in Nat
    PROVE  GasFollowed'
<1>1. KeeperNonce \in Nat /\ KeeperNonce' = IF t.kind = "gas" THEN KeeperNonce + 1 ELSE KeeperNonce
  BY NonceParts, NonceAppend
<1>2. Range(blocks') = Range(blocks) \cup {t}
  BY RangeAppend DEF ChainSound
<1>3. /\ Len(blocks) \in Nat /\ Len(blocks') = Len(blocks) + 1 /\ last \in 0 .. Len(blocks)
      /\ blocks'[Len(blocks) + 1] = t /\ \A i \in 1 .. Len(blocks) : blocks'[i] = blocks[i]
  BY DEF ChainSound
<1>4. Unscanned(t)' /\ \A u : Unscanned(u) => Unscanned(u)'
  BY <1>3 DEF Unscanned
<1>5. \A u \in recorded' \ completed' :
          u.kind = "gas" /\ u \in Range(blocks)' => u \in jobs' \/ Unscanned(u)'
  BY <1>2, <1>4 DEF GasFollowed
<1>6. \A u \in pool' : u.kind = "gas" => u.nonce <= KeeperNonce'
  BY <1>1 DEF GasFollowed
<1>7. \A u \in Range(blocks)' : u.kind = "gas" => u.nonce < KeeperNonce'
  BY <1>1, <1>2 DEF GasFollowed
<1>8. /\ gasWorker'.step # "idle" => gasWorker'.tx.nonce <= KeeperNonce'
      /\ gasWorker'.step = "record" => gasWorker'.tx \notin Range(blocks)'
  BY <1>1, <1>2 DEF GasFollowed
<1> QED BY <1>5, <1>6, <1>7, <1>8 DEF GasFollowed

LEMMA GasNonces ==
    ASSUME MovingInv
    PROVE  /\ \A u \in pool \cup Range(blocks) : u.kind = "gas" => u.nonce \in Nat
           /\ gasWorker.step # "idle" => gasWorker.tx.nonce \in Nat
<1>1. ASSUME NEW u \in OurTxs PROVE u.nonce \in Nat
  BY OurKinds, ChainAssumption
<1>2. \A u \in pool : u \in OurTxs
  BY DEF MovingInv, CoinSound
<1>3. ASSUME NEW u \in Range(blocks), u.kind = "gas" PROVE u \in OurTxs
  <2>1. u \notin Transfers
    BY <1>3, TransferParts DEF Transfers
  <2> QED BY <2>1, JobParts DEF MovingInv, SoundInv
<1>4. gasWorker.step # "idle" => gasWorker.tx \in OurTxs
  BY GasWorkerAtWork
<1> QED BY <1>1, <1>2, <1>3, <1>4

LEMMA OneMine ==
    ASSUME MovingInv, OneInv, Mine, "early" \notin ChainRaces PROVE OneInv'
<1>1. PICK t \in pool : /\ IsWritten(t) /\ blocks' = Append(blocks, t) /\ pool' \subseteq pool
  BY DEF Mine
<1>2. UNCHANGED <<row, task, last, jobs, recorded, completed, checks, toSend, toGas,
                  accumulator, gasWorker>>
  BY DEF Mine, rowVars, walletVars, queueVars, workVars
<1>3. Range(blocks') = Range(blocks) \cup {t}
  BY <1>1, RangeAppend DEF MovingInv, SoundInv, ChainSound
<1>4. gasWorker.step = "record" => gasWorker.tx # t
  BY <1>1, GasWorkerAtWork DEF IsWritten
<1>5. t.kind = "gas" => t.nonce <= KeeperNonce /\ t.nonce \in Nat
  BY GasNonces DEF OneInv, GasFollowed
<1>6. GasFollowed'
  BY <1>1, <1>2, <1>4, <1>5, GasNonces, GasAppend DEF OneInv, MovingInv, SoundInv
<1>7. NothingStarts
  <2>1. \A r \in Rows : AtTask(r)' <=> AtTask(r)
    BY <1>2 DEF AtTask, AtWork
  <2>2. \A u \in recorded' \ completed' :
            u.kind = "gas" /\ u \in pool' \cup Range(blocks)' => GasUnderWay(u.row)
    BY <1>1, <1>2, <1>3 DEF GasUnderWay
  <2> QED BY <1>2, <2>1, <2>2 DEF NothingStarts
<1> QED BY <1>2, <1>6, <1>7, OneStays, PlainStays DEF OneInv

(* check_balances takes one row of each wallet that has no row in progress *)
(* and that no task is at.                                                 *)
LEMMA OneCheckBalances ==
    ASSUME MovingInv, OneInv, CheckBalances, "overdue" \notin ChainRaces, IsFiniteSet(Deposits)
    PROVE  OneInv'
<1>1. PICK T \in OnePerWallet(ReadyForAccumulation) :
          /\ \A r \in T \cup ExternalReady, q \in Rows : WalletOf(q) = WalletOf(r) => Quiet(q)
          /\ checks' = checks \cup T \cup ExternalReady
  BY DEF CheckBalances
<1>2. UNCHANGED <<row, task, blocks, last, jobs, pool, recorded, completed, toSend, toGas,
                  accumulator, gasWorker>>
  BY DEF CheckBalances, rowVars, walletVars, scanVars, coinVars, workVars
<1>3. ExternalReady = {}
  BY DEF ExternalReady, OneInv, PlainRows
<1>4. checks' = checks \cup T
  BY <1>1, <1>3
<1>5. T \subseteq ReadyForAccumulation /\ ReadyForAccumulation \subseteq Rows
  BY DEF OnePerWallet, ReadyForAccumulation
<1>6. ASSUME NEW q \in T, NEW r \in T, WalletOf(q) = WalletOf(r) PROVE q = r
  <2> DEFINE S == {x \in T : WalletOf(x) = WalletOf(r)}
  <2>1. Cardinality(S) = 1
    BY <1>5 DEF OnePerWallet
  <2>2. IsFiniteSet(S)
    <3>1. IsFiniteSet(Rows)
      <4>1. IsFiniteSet(1 .. Copies)
        BY FS_Interval, DepositAssumption
      <4> QED BY <4>1, FS_Product DEF Rows
    <3> QED BY <1>5, <3>1, FS_Subset
  <2>3. q \in S /\ r \in S
    BY <1>6
  <2> HIDE DEF S
  <2> QED BY <2>1, <2>2, <2>3, FS_Singleton
<1>7. ASSUME NEW q \in T, NEW r \in Rows, WalletOf(r) = WalletOf(q) PROVE ~OnItsWay(r)
  <2>1. Quiet(r)
    BY <1>1, <1>7
  <2>2. ~InProgress(row[r])
    BY <1>5, <1>7 DEF ReadyForAccumulation, NotReady, InProgress
  <2>3. ~AtTask(r)
    BY <2>1, RowParts DEF Quiet, AtTask, AtWork
  <2>4. ~GasUnderWay(r)
    <3> SUFFICES ASSUME NEW t \in recorded \ completed, t.kind = "gas", t.row = r,
                        t \in pool \cup Range(blocks)
                 PROVE  FALSE
      BY DEF GasUnderWay
    <3>1. t \in pool \cup jobs \/ Unscanned(t)
      BY DEF OneInv, GasFollowed
    <3> QED BY <2>1, <3>1 DEF Quiet, Unscanned, OutKinds
  <2> QED BY <2>2, <2>3, <2>4 DEF OnItsWay
<1>8. ASSUME NEW r \in Rows, OnItsWay(r)' PROVE OnItsWay(r) \/ r \in T
  BY <1>2, <1>4, <1>8 DEF OnItsWay, AtTask, AtWork, GasUnderWay
<1>9. OnePerWalletMoves'
  <2> SUFFICES ASSUME NEW q \in Rows, NEW r \in Rows, OnItsWay(q)', OnItsWay(r)',
                      WalletOf(q) = WalletOf(r)
               PROVE  q = r
    BY DEF OnePerWalletMoves
  <2>1. CASE q \in T /\ r \in T
    BY <1>6, <2>1
  <2>2. CASE q \notin T /\ r \notin T
    BY <1>8, <2>2 DEF OneInv, OnePerWalletMoves
  <2>3. CASE q \in T /\ r \notin T
    BY <1>7, <1>8, <2>3
  <2>4. CASE q \notin T /\ r \in T
    BY <1>7, <1>8, <2>4
  <2> QED BY <2>1, <2>2, <2>3, <2>4
<1>10. GasIsKept
  BY <1>2, GasAlone
<1> QED BY <1>2, <1>9, <1>10, GasRests, PlainStays DEF OneInv

(* Handlers of rows that no administrator redirects or reverts put no row  *)
(* in progress. *)
LEMMA InsertPlain ==
    ASSUME RowsSound, NEW a \in Actors, Handle(a), task[a].op = "insert"
    PROVE  /\ \A r \in Rows : row'[r] = row[r] \/ (~InProgress(row'[r]) /\ ~row'[r].external)
           /\ ~Working(task'[a]) \/ PlainHandler(task'[a])
<1>1. row \in [Rows -> Row \cup {NoRow}] /\ task \in [Actors -> Task] /\ Shaped(task[a])
  BY DEF RowsSound, RowTypeInv
<1>2. task[a].step \in {"create", "check"}
  BY <1>1 DEF Shaped, StepsOf
<1>3. ~InProgress(Created) /\ ~Created.external
  BY DEF Created, InProgress
<1>4. CASE InsertRow(a)
  <2> DEFINE r == Copy(task[a].id[1])
             t == [op |-> "insert", id |-> r, obj |-> Created, step |-> "check"]
  <2>1. row' = [row EXCEPT ![r] = Created] /\ task' = [task EXCEPT ![a] = t]
    BY <1>4 DEF InsertRow
  <2>2. t.op = "insert" /\ t.obj = Created
    OBVIOUS
  <2> HIDE DEF r, t
  <2>3. task'[a] = t
    BY <1>1, <2>1
  <2>4. \A q \in Rows : row'[q] = row[q] \/ row'[q] = Created
    BY <1>1, <2>1
  <2> QED BY <1>3, <2>2, <2>3, <2>4 DEF PlainHandler
<1>5. CASE CheckDeposit(a)
  <2>1. task' = [task EXCEPT ![a] = NoTask]
    BY <1>5 DEF CheckDeposit, Ends
  <2>2. task[a].obj = Created
    BY <1>1, <1>5 DEF CheckDeposit, Shaped
  <2>3. \E s \in {"VERIFICATION_FAILED", "WAITING_FOR_KYT_APPROVE"} :
            row' = row \/ row' = [row EXCEPT ![task[a].id] = [Created EXCEPT !.state = s]]
    BY <1>5, <2>2 DEF CheckDeposit
  <2>4. PICK s \in {"VERIFICATION_FAILED", "WAITING_FOR_KYT_APPROVE"} :
            row' = row \/ row' = [row EXCEPT ![task[a].id] = [Created EXCEPT !.state = s]]
    BY <2>3
  <2> DEFINE x == [Created EXCEPT !.state = s]
  <2>5. ~InProgress(x) /\ ~x.external
    BY DEF Created, InProgress
  <2>6. row' = row \/ row' = [row EXCEPT ![task[a].id] = x]
    BY <2>4
  <2> HIDE DEF x
  <2>7. \A r \in Rows : row'[r] = row[r] \/ row'[r] = x
    BY <1>1, <2>6
  <2>8. ~Working(task'[a])
    BY <1>1, <2>1, Constants
  <2> QED BY <2>5, <2>7, <2>8
<1> QED BY <1>2, <1>4, <1>5 DEF Handle, Score, Topup, Credit, SaveRow, UnblockWallet, Revert

LEMMA ForcePlain ==
    ASSUME RowsSound, NEW a \in Actors, Handle(a), task[a].op = "force"
    PROVE  \A r \in Rows : row'[r] = row[r] \/ ~InProgress(row'[r])
<1>1. row \in [Rows -> Row \cup {NoRow}] /\ task[a].step \in {"topup", "credit", "unblock"}
      /\ task[a].obj \in Row
  BY SoundParts, HandlerParts DEF RowsSound, RowTypeInv, StepsOf, Working
<1>2. CASE Topup(a)
  <2> DEFINE x == [task[a].obj EXCEPT !.state = "WAITING_FOR_ACCUMULATION"]
  <2>1. x.state = "WAITING_FOR_ACCUMULATION"
    BY <1>1 DEF Row
  <2>2. row' = row \/ row' = [row EXCEPT ![task[a].id] = x]
    BY <1>2 DEF Topup
  <2> HIDE DEF x
  <2>3. \A r \in Rows : row'[r] = row[r] \/ row'[r] = x
    BY <1>1, <2>2
  <2> QED BY <2>1, <2>3 DEF InProgress
<1>3. CASE Credit(a) \/ UnblockWallet(a)
  BY <1>3 DEF Credit, UnblockWallet
<1> QED BY <1>1, <1>2, <1>3
     DEF Handle, InsertRow, CheckDeposit, Score, SaveRow, Revert

LEMMA HandlePlain ==
    ASSUME RowsSound, PlainRows, NEW a \in Actors, Handle(a)
    PROVE  PlainRows' /\ \A r \in Rows : InProgress(row'[r]) => InProgress(row[r])
<1>1. \A b \in Actors \ {a} : task'[b] = task[b]
  BY HandleKeeps
<1> SUFFICES /\ \A r \in Rows : row'[r] = row[r] \/ (~InProgress(row'[r]) /\ ~row'[r].external)
             /\ Working(task'[a]) => PlainHandler(task'[a])
  BY <1>1 DEF PlainRows
<1>2. CASE task[a].op = "insert"
  BY <1>2, InsertPlain
<1>3. CASE task[a].op # "insert"
  <2> DEFINE r == task[a].id
             t == task[a]
  <2>1. /\ r \in Rows /\ Working(t) /\ \A q \in Rows \ {r} : row'[q] = row[q]
        /\ \/ row'[r] = row[r]
           \/ /\ row'[r].external = t.obj.external
              /\ row'[r].state \in HandlerStates \cup {t.obj.state}
        /\ \/ task'[a] = NoTask
           \/ /\ task'[a].op = t.op
              /\ task'[a].obj.external = t.obj.external
              /\ task'[a].obj.state \in HandlerStates \cup {t.obj.state}
    BY <1>3, HandleWrites
  <2>2. PlainHandler(t)
    BY <2>1 DEF PlainRows
  <2>3. t.op \in {"score", "force"}
    <3>1. t.op \in Ops
      BY SoundParts, HandlerParts
    <3> QED BY <1>3, <2>1, <2>2, <3>1 DEF PlainHandler, Working, Ops
  <2>4. "ACCUMULATION_IN_PROGRESS" \notin HandlerStates
    BY DEF HandlerStates
  <2>5. Working(task'[a]) => PlainHandler(task'[a])
    BY <2>1, <2>2, <2>4, Constants DEF PlainHandler, InProgress
  <2>6. row'[r] = row[r] \/ (~InProgress(row'[r]) /\ ~row'[r].external)
    <3>1. CASE t.op = "score"
      BY <2>1, <2>2, <2>4, <3>1 DEF PlainHandler, InProgress
    <3>2. CASE t.op = "force"
      BY <2>1, <2>2, <3>2, ForcePlain DEF PlainHandler
    <3> QED BY <2>3, <3>1, <3>2
  <2> QED BY <2>1, <2>5, <2>6
<1> QED BY <1>2, <1>3

LEMMA BeginPlain ==
    ASSUME RowsSound, PlainRows, {"external", "revert"} \cap AdminOps = {}, NEW a \in Actors,
           Administrate(a) \/ \E r \in Rows : BeginScore(a, r)
    PROVE  PlainRows' /\ row' = row
<1>1. row' = row /\ \A b \in Actors \ {a} : task'[b] = task[b]
  BY BeginKeeps
<1>2. PICK r \in Rows, op \in {"score", "force"}, step \in Steps :
          Load(a, op, r, step) /\ (op = "score" => row[r].state \in KytStates)
  <2>1. "score" \in Steps /\ "topup" \in Steps
    BY DEF Steps
  <2>2. CASE \E r \in Rows : BeginScore(a, r)
    BY <2>1, <2>2 DEF BeginScore
  <2>3. CASE \E r \in Rows : BeginForce(a, r)
    BY <2>1, <2>3 DEF BeginForce
  <2> QED BY <2>2, <2>3 DEF Administrate
<1>3. /\ task \in [Actors -> Task]
      /\ task' = [task EXCEPT ![a] = [op |-> op, id |-> r, obj |-> row[r], step |-> step]]
  BY <1>2 DEF Load, RowsSound, RowTypeInv
<1>4. task'[a].op = op /\ task'[a].obj = row[r]
  <2> DEFINE t == [op |-> op, id |-> r, obj |-> row[r], step |-> step]
  <2>1. t.op = op /\ t.obj = row[r] /\ task' = [task EXCEPT ![a] = t]
    BY <1>3
  <2> HIDE DEF t
  <2> QED BY <1>3, <2>1
<1>5. PlainHandler(task'[a])
  <2>1. "ACCUMULATION_IN_PROGRESS" \notin KytStates
    BY DEF KytStates
  <2> QED BY <1>2, <1>4, <2>1 DEF PlainHandler, PlainRows, InProgress
<1> QED BY <1>1, <1>5 DEF PlainRows

LEMMA DepositsPlain ==
    ASSUME SoundInv, PlainRows, {"external", "revert"} \cap AdminOps = {}, [Next]_depositVars
    PROVE  PlainRows' /\ \A r \in Rows : InProgress(row'[r]) => InProgress(row[r])
<1>1. RowsSound
  BY DEF SoundInv
<1>2. CASE \E a \in Actors : Handle(a)
  BY <1>1, <1>2, HandlePlain
<1>3. CASE \E a \in Actors : Administrate(a) \/ \E r \in Rows : BeginScore(a, r)
  BY <1>1, <1>3, BeginPlain
<1>4. CASE /\ UNCHANGED <<row, credits>>
           /\ \A b \in Actors : task'[b] = task[b] \/ ~Working(task'[b])
  BY <1>4 DEF PlainRows
<1> QED BY <1>2, <1>3, <1>4, DepositSteps

(* A scan that skips no block enqueues the transactions in those it passes. *)
LEMMA ScanFollows ==
    ASSUME ChainSound, "loss" \notin ChainRaces, NEW s \in Scanners, ProcessBlocks(s)
    PROVE  /\ jobs \subseteq jobs'
           /\ \A t : t.kind # "external" /\ Unscanned(t) => t \in jobs' \/ Unscanned(t)'
<1>1. /\ scanner[s].on /\ scanner[s].to - scanner[s].from < Delta
      /\ jobs' = jobs \cup JobsOf(ToProcess(s)) /\ blocks' = blocks
      /\ last' = IF last < scanner[s].to THEN scanner[s].to ELSE last
  <2>1. PICK skipped \in SUBSET ToProcess(s) :
            /\ scanner[s].on /\ skipped = {} /\ scanner[s].to - scanner[s].from < Delta
            /\ jobs' = jobs \cup JobsOf(ToProcess(s) \ skipped) /\ blocks' = blocks
            /\ last' = IF last < scanner[s].to THEN scanner[s].to ELSE last
    BY DEF ProcessBlocks
  <2>2. ToProcess(s) \ skipped = ToProcess(s)
    BY <2>1
  <2> QED BY <2>1, <2>2
<1>2. /\ scanner[s].from \in Nat /\ scanner[s].to \in Nat /\ Delta \in Nat
      /\ scanner[s].from <= last /\ last \in Nat /\ Len(blocks) \in Nat
  BY <1>1, ChainAssumption DEF ChainSound, Scan
<1>3. ToProcess(s) = scanner[s].from .. scanner[s].to
  <2> DEFINE n == scanner[s].to
             m == scanner[s].from
  <2>1. n \in Nat /\ m \in Nat /\ n - m < Delta
    BY <1>1, <1>2
  <2> HIDE DEF n, m
  <2>2. Delta \in Nat
    BY <1>2
  <2>3. ~(n < m + Delta - 1) => n = m + Delta - 1
    BY <2>1, <2>2
  <2>4. (IF n < m + Delta - 1 THEN n ELSE m + Delta - 1) = n
    BY <2>3
  <2> QED BY <2>4 DEF ToProcess, n, m
<1>4. ASSUME NEW t, t.kind # "external", Unscanned(t) PROVE t \in jobs' \/ Unscanned(t)'
  <2>1. PICK i \in last + 1 .. Len(blocks) : blocks[i] = t
    BY <1>4 DEF Unscanned
  <2>2. CASE i <= scanner[s].to
    <3>1. i \in ToProcess(s) \ {0}
      BY <1>2, <1>3, <2>1, <2>2
    <3>2. t \in JobsOf(ToProcess(s))
      BY <1>4, <2>1, <3>1 DEF JobsOf
    <3> QED BY <1>1, <3>2
  <2>3. CASE ~(i <= scanner[s].to)
    BY <1>1, <1>2, <2>1, <2>3 DEF Unscanned
  <2> QED BY <2>2, <2>3
<1> QED BY <1>1, <1>4

LEMMA DepositsFollowGas ==
    ASSUME MovingInv, GasFollowed, "loss" \notin ChainRaces, "crash" \notin Races,
           [Next]_depositVars, UNCHANGED accumulationVars
    PROVE  GasFollowed'
<1>1. UNCHANGED <<pool, recorded, completed, gasWorker>>
  BY DEF accumulationVars, coinVars, workVars
<1>2. GasWorkerFollows
  BY <1>1 DEF GasWorkerFollows
<1>3. ASSUME UNCHANGED <<blocks, last>>, \A t \in jobs \ jobs' : t.kind # "gas" PROVE GasFollowed'
  BY <1>1, <1>3, GasAlone, GasRests
<1>4. CASE UserTransfers
  <2>1. PICK d \in Deposits : blocks' = Append(blocks, Transfer(d)) /\ UNCHANGED <<last, jobs>>
    BY <1>4 DEF UserTransfers
  <2>2. Transfer(d).kind = "deposit"
    BY TransferParts
  <2>3. gasWorker.step = "record" => gasWorker.tx # Transfer(d)
    BY <2>2, GasWorkerAtWork
  <2>4. pool' \subseteq pool /\ \A u \in pool' : u.kind = "gas" => u.nonce \in Nat
    BY <1>1, GasNonces
  <2> QED BY <1>1, <2>1, <2>2, <2>3, <2>4, GasNonces, GasAppend DEF MovingInv, SoundInv
<1>5. CASE \E s \in Scanners : ProcessBlocks(s)
  <2>1. PICK s \in Scanners : ProcessBlocks(s)
    BY <1>5
  <2>2. /\ blocks' = blocks /\ jobs \subseteq jobs'
        /\ \A t : t.kind = "gas" /\ Unscanned(t) => t \in jobs' \/ Unscanned(t)'
    BY <2>1, ScanFollows DEF ProcessBlocks, MovingInv, SoundInv
  <2>3. KeeperNonce' = KeeperNonce
    BY <2>2 DEF KeeperNonce
  <2>4. \A t \in recorded' \ completed' :
            t.kind = "gas" /\ t \in Range(blocks)' => t \in jobs' \/ Unscanned(t)'
    BY <1>1, <2>2 DEF GasFollowed
  <2> QED BY <1>1, <2>2, <2>3, <2>4 DEF GasFollowed
<1>6. CASE \E s \in Scanners : StartScan(s) \/ ScanDies(s)
  <2>1. UNCHANGED <<blocks, last>> /\ jobs \subseteq jobs'
    BY <1>6 DEF StartScan, ScanDies
  <2> QED BY <1>3, <2>1
<1>7. CASE \E a \in Depositors : ProcessDeposit(a)
  <2>1. UNCHANGED <<blocks, last>> /\ \E t \in jobs : t.kind = "deposit" /\ jobs' = jobs \ {t}
    BY <1>7 DEF ProcessDeposit
  <2> QED BY <1>3, <2>1
<1>8. CASE JobDies
  BY <1>8 DEF JobDies
<1>9. CASE UNCHANGED <<blocks, last, jobs>>
  BY <1>3, <1>9
<1> QED BY <1>4, <1>5, <1>6, <1>7, <1>8, <1>9
     DEF Next, Credits, CheckDepositScoring, AdminActs, RunHandler, Crash, WalletBlocks, CheckScores,
         depositVars, scanVars

LEMMA OneDeposits ==
    ASSUME MovingInv, OneInv, Undisturbed, [Next]_depositVars, UNCHANGED accumulationVars
    PROVE  OneInv'
<1>1. /\ "loss" \notin ChainRaces /\ "crash" \notin Races
      /\ {"external", "revert"} \cap AdminOps = {}
  BY DEF Undisturbed
<1>2. UNCHANGED <<pool, recorded, completed, checks, toSend, toGas, accumulator, gasWorker>>
  BY DEF accumulationVars, coinVars, queueVars, workVars
<1>3. PlainRows' /\ \A r \in Rows : InProgress(row'[r]) => InProgress(row[r])
  BY <1>1, DepositsPlain DEF MovingInv, OneInv
<1>4. GasFollowed'
  BY <1>1, DepositsFollowGas DEF OneInv
<1>5. \A t \in Range(blocks)' : t.kind = "gas" => t \in Range(blocks)
  BY ChainGrows, TransferParts DEF MovingInv, Transfers
<1>6. NothingStarts
  <2>1. \A r \in Rows : AtTask(r)' <=> AtTask(r)
    BY <1>2 DEF AtTask, AtWork
  <2>2. \A t \in recorded' \ completed' :
            t.kind = "gas" /\ t \in pool' \cup Range(blocks)' => GasUnderWay(t.row)
    BY <1>2, <1>5 DEF GasUnderWay
  <2> QED BY <1>3, <2>1, <2>2 DEF NothingStarts
<1> QED BY <1>3, <1>4, <1>6, OneStays DEF OneInv

LEMMA OneNext ==
    ASSUME MovingInv, OneInv, Undisturbed, [AccumulationNext]_vars PROVE OneInv'
<1>1. /\ "overdue" \notin ChainRaces /\ "early" \notin ChainRaces /\ "crash" \notin Races
      /\ IsFiniteSet(Deposits)
  BY DEF Undisturbed
<1>2. CASE (Credits /\ UNCHANGED accumulationVars) \/ UNCHANGED vars
  <2>1. [Next]_depositVars /\ UNCHANGED accumulationVars
    BY <1>2 DEF Next, vars, accumulationVars
  <2> QED BY <2>1, OneDeposits
<1>3. ~WorkerDies
  BY <1>1 DEF WorkerDies
<1> QED BY <1>1, <1>2, <1>3, OneCheckBalances, OneCheckBalance, OneSendAccumulation, OneCoinNotSent,
         OneRecordAccumulation, OneMarkInProgress, OneSendGas, OneGasNotSent, OneRecordGas,
         OneGasReceipt, OneGasTimeout, OneProcessAccumulation, OneProcessGas, OneProcessDust,
         OneMine, OneSweepDust
      DEF AccumulationNext

LEMMA OneStart == AccumulationInit => OneInv
<1> SUFFICES ASSUME AccumulationInit PROVE OneInv
  OBVIOUS
<1>1. /\ pool = {} /\ recorded = {} /\ checks = {} /\ toSend = {} /\ toGas = {}
      /\ accumulator = [a \in Accumulators |-> NoJob] /\ gasWorker = NoJob
      /\ row = [r \in Rows |-> NoRow] /\ task = [a \in Actors |-> NoTask] /\ blocks = << >>
  BY DEF AccumulationInit, ChainInit, RowInit
<1>2. ASSUME NEW r \in Rows PROVE ~OnItsWay(r)
  <2>1. r \notin AtWork
    BY <1>1, NoJobParts, RowParts DEF AtWork
  <2>2. ~InProgress(row[r])
    BY <1>1, Constants DEF InProgress
  <2> QED BY <1>1, <2>1, <2>2 DEF OnItsWay, AtTask, GasUnderWay
<1>3. OnePerWalletMoves
  BY <1>2 DEF OnePerWalletMoves
<1>4. Range(blocks) = {}
  BY <1>1 DEF Range
<1>5. GasFollowed
  BY <1>1, <1>4, NoJobParts DEF GasFollowed
<1>6. PlainRows
  <2>1. NoRow.external = FALSE
    BY DEF NoRow
  <2> QED BY <1>1, <2>1, Constants DEF PlainRows
<1> QED BY <1>3, <1>5, <1>6 DEF OneInv

-----------------------------------------------------------------------------
(* The theorems. *)

LEMMA MovingStart == AccumulationInit => MovingInv /\ LeftInv /\ ClearedInv /\ OnceInv
<1> SUFFICES ASSUME AccumulationInit PROVE MovingInv /\ LeftInv /\ ClearedInv /\ OnceInv
  OBVIOUS
<1>1. SoundInv /\ OnceInv
  BY SoundStart DEF AccumulationInit
<1>2. /\ pool = {} /\ done = {} /\ recorded = {} /\ checks = {} /\ toSend = {} /\ toGas = {}
      /\ accumulator = [a \in Accumulators |-> NoJob] /\ gasWorker = NoJob
      /\ row = [r \in Rows |-> NoRow] /\ task = [a \in Actors |-> NoTask] /\ blocks = << >>
  BY DEF AccumulationInit, ChainInit, RowInit
<1>3. WorkSound
  BY <1>2, NoJobParts DEF WorkSound
<1>4. CoinSound
  BY <1>2 DEF CoinSound
<1>5. Touched \subseteq {NoId}
  BY <1>2, NoJobParts DEF Touched, AtWork
<1>6. TouchedExist
  BY <1>5 DEF TouchedExist
<1>7. (\A r \in Rows : row[r].state = "none") /\ \A a \in Actors : ~Working(task[a])
  BY <1>2, Constants
<1>8. LeftInv
  BY <1>7 DEF LeftInv, SettledState
<1>9. Range(blocks) = {}
  BY <1>2 DEF Range
<1>10. ClearedInv
  BY <1>2, <1>5, <1>7, <1>9 DEF ClearedInv, RowsClear, Early
<1> QED BY <1>1, <1>3, <1>4, <1>6, <1>8, <1>10 DEF MovingInv

LEMMA MovingNext ==
    ASSUME MovingInv, [AccumulationNext]_vars
    PROVE  /\ MovingInv' /\ (LeftInv => LeftInv')
           /\ "together" \notin Races /\ "twins" \notin ChainRaces /\ OnceInv
                => /\ OnceInv' /\ (ClearedInv => ClearedInv')
                   /\ [Ledger!Next]_(Ledger!vars)
<1>1. CASE (Credits /\ UNCHANGED accumulationVars) \/ UNCHANGED vars
  <2>1. [Next]_depositVars /\ UNCHANGED accumulationVars
    BY <1>1 DEF Next, vars, accumulationVars
  <2> QED BY <2>1, CreditsMove, CreditsLeave, CreditsClear, NextRefines DEF MovingInv
<1>2. CASE MovesOn
  BY <1>2, RestRefines DEF MovesOn
<1> QED BY <1>1, <1>2, WorkMoves

(* Workers, queues and transactions keep their shape: each is about a row  *)
(* that is there, whatever races, dies or comes late (check_balances,      *)
(* accumulate_coin, accumulate_tokens, send_gas, process_block). *)
THEOREM MovingSound == AccumulationSpec => []MovingInv
<1>1. AccumulationInit => MovingInv
  BY MovingStart
<1>2. MovingInv /\ [AccumulationNext]_vars => MovingInv'
  BY MovingNext
<1> QED BY <1>1, <1>2, PTL DEF AccumulationSpec

(* A row is accumulated only after a transaction for it was mined and did  *)
(* not fail, under every race of the chain, the workers and the            *)
(* administrators and with crashes: no assumption on Races or ChainRaces   *)
(* (AccumulationTransaction.complete, process_coin_deposit,                *)
(* process_tokens_deposit). *)
THEOREM AccumulatedLeftAlways == AccumulationSpec => []AccumulatedLeft
<1>1. AccumulationInit => LeftInv
  BY MovingStart
<1>2. MovingInv /\ LeftInv /\ [AccumulationNext]_vars => LeftInv'
  BY MovingNext
<1>3. MovingInv /\ LeftInv => AccumulatedLeft
  <2> SUFFICES ASSUME MovingInv, LeftInv, NEW r \in Rows, Settled(r)
               PROVE  Sent(r) \cap done # {}
    BY DEF AccumulatedLeft
  <2>1. PICK t \in done : t.kind \in OutKinds /\ t.row = r
    BY DEF LeftInv, Settled, SettledState, Left
  <2>2. t \in Range(blocks)
    BY DEF MovingInv, CoinSound
  <2> QED BY <2>1, <2>2 DEF Sent
<1> QED BY <1>1, <1>2, <1>3, MovingSound, PTL DEF AccumulationSpec

(* Unless a handler works on a row that another one has loaded, or two     *)
(* tasks look at one transfer, only money that was credited, or that an    *)
(* administrator redirected, is moved on; with every other race and with   *)
(* crashes (get_ready_for_accumulation, check_scoring, topup_tx).          *)
THEOREM OnlyCreditedMoveAlways ==
    ASSUME "together" \notin Races, "twins" \notin ChainRaces
    PROVE  AccumulationSpec => []OnlyCreditedMove
<1>1. AccumulationInit => OnceInv /\ ClearedInv
  BY MovingStart
<1>2. MovingInv /\ OnceInv /\ ClearedInv /\ [AccumulationNext]_vars => OnceInv' /\ ClearedInv'
  BY MovingNext
<1>3. ClearedInv => OnlyCreditedMove
  <2> SUFFICES ASSUME ClearedInv, NEW r \in Rows, Sent(r) # {}, ~row[r].external
               PROVE  credits[r] > 0
    BY DEF OnlyCreditedMove
  <2>1. PICK t \in pool \cup Range(blocks) : t.kind \in OutKinds /\ t.row = r
    BY DEF Sent
  <2> QED BY <2>1 DEF ClearedInv, Cleared, Clear
<1> QED BY <1>1, <1>2, <1>3, MovingSound, PTL DEF AccumulationSpec

(* Accumulating does not disturb the ledger: deposits on EVM chains with   *)
(* their accumulation still implement DepositLedger.                       *)
THEOREM AccumulationKeepsLedger ==
    ASSUME "together" \notin Races, "twins" \notin ChainRaces
    PROVE  AccumulationSpec => LedgerPromise
<1>1. AccumulationInit => Ledger!Init
  BY LedgerStart DEF AccumulationInit
<1>2. AccumulationInit => OnceInv
  BY MovingStart
<1>3. /\ MovingInv /\ OnceInv /\ [AccumulationNext]_vars
      => OnceInv' /\ [Ledger!Next]_(Ledger!vars)
  BY MovingNext
<1> QED BY <1>1, <1>2, <1>3, MovingSound, PTL DEF AccumulationSpec, LedgerPromise, Ledger!Spec

(* At most one row of a wallet is in progress, for every number of         *)
(* wallets, deposits, workers and scanners, while accumulations overlap,   *)
(* gas transfers are replaced, late or swept away, scans overlap, die and  *)
(* are repeated, and administrators recheck, force and block - unless      *)
(* something disturbs it: each condition of Undisturbed but the finiteness *)
(* is needed (get_ready_for_accumulation, check_balance, send_gas,         *)
(* process_new_blocks).                                                    *)
THEOREM OneAtATimeAlways ==
    ASSUME Undisturbed
    PROVE  AccumulationSpec => []OneAtATime
<1>1. AccumulationInit => OneInv
  BY OneStart
<1>2. MovingInv /\ OneInv /\ [AccumulationNext]_vars => OneInv'
  BY OneNext
<1>3. OneInv => OneAtATime
  BY DEF OneInv, OnePerWalletMoves, OnItsWay, InProgress, OneAtATime
<1> QED BY <1>1, <1>2, <1>3, MovingSound, PTL DEF AccumulationSpec

-----------------------------------------------------------------------------
(***************************************************************************)
(* That each accumulation in progress is followed: rows beyond the early   *)
(* states are left to tasks and workers, each row is sent once, what waits *)
(* is mined and does not fail, and the scanner meets it.                   *)
(***************************************************************************)

-----------------------------------------------------------------------------
(* Handlers write early rows only.                                         *)

LEMMA HandleEarly ==
    ASSUME RowsSound, OnceInv, RowsClear, PlainRows, NEW a \in Actors, Handle(a),
           NEW r, r = task[a].id,
           \A q \in Rows : row[q].state \in KytStates => transaction[q] # "none",
           Working(task[a]) =>
               /\ task[a].op = "insert" => row[r].state = "CREATED"
               /\ task[a].op = "score" => row[r].state \in KytStates
    PROVE  /\ r \in Rows /\ ~Idle(a)
           /\ \A q \in Rows \ {r} : row'[q] = row[q] /\ transaction'[q] = transaction[q]
           /\ row'[r] = row[r] \/ row[r].state \in Early
           /\ row'[r].state \in KytStates => transaction'[r] # "none"
           /\ Working(task'[a]) =>
                  /\ task'[a].id = r
                  /\ task'[a].op = "insert" => row'[r].state = "CREATED"
                  /\ task'[a].op = "score" => row'[r].state \in KytStates
           /\ row'[r].state # "none" => Exists(r) \/ Inserting(task[a])
<1>1. /\ row \in [Rows -> Row \cup {NoRow}] /\ task \in [Actors -> Task]
      /\ transaction \in [Rows -> {"none", "PENDING", "COMPLETED"}]
      /\ task[a] \in Task /\ Shaped(task[a])
  BY DEF RowsSound, RowTypeInv
<1>2. Working(task[a]) => PlainHandler(task[a]) /\ Exists(r)
  BY SoundParts DEF PlainRows
<1>3. "CREATED" \in Early /\ "none" \in Early /\ KytStates \subseteq Early /\ "CREATED" \notin KytStates
      /\ "WAITING_FOR_ACCUMULATION" \notin KytStates /\ "VERIFICATION_FAILED" \notin KytStates
  BY DEF Early, KytStates
<1>4. CASE InsertRow(a)
  <2> DEFINE t == [op |-> "insert", id |-> Copy(task[a].id[1]), obj |-> Created, step |-> "check"]
  <2>1. /\ row' = [row EXCEPT ![Copy(task[a].id[1])] = Created] /\ task' = [task EXCEPT ![a] = t]
        /\ task[a].op = "insert" /\ task[a].step = "create" /\ transaction' = transaction
    BY <1>4 DEF InsertRow
  <2>2. t.op = "insert" /\ t.id = Copy(task[a].id[1])
    OBVIOUS
  <2> HIDE DEF t
  <2>3. task'[a] = t
    BY <1>1, <2>1
  <2>4. t.id = r /\ LedgerEnters(r)
    BY <1>4, <2>3, InsertRowOnce
  <2>5. r \in Rows /\ ~Exists(r) /\ row[r].state = "none"
    BY <2>4 DEF LedgerEnters, Existing, Exists
  <2>6. row'[r] = Created /\ \A q \in Rows \ {r} : row'[q] = row[q]
    BY <1>1, <2>1, <2>2, <2>4, <2>5
  <2> QED BY <1>3, <2>1, <2>2, <2>3, <2>4, <2>5, <2>6, Constants DEF Idle, Inserting
<1>5. CASE CheckDeposit(a)
  <2>1. task[a].op = "insert" /\ task[a].step = "check" /\ task' = [task EXCEPT ![a] = NoTask]
    BY <1>5 DEF CheckDeposit, Ends
  <2>2. task[a].obj = Created /\ r \in Rows /\ ~Idle(a) /\ Working(task[a])
    BY <1>1, <2>1, HandlerParts DEF Shaped, Idle, Working
  <2>3. row[r].state = "CREATED" /\ Exists(r)
    BY <1>2, <2>1, <2>2
  <2>4. PICK s \in {"VERIFICATION_FAILED", "WAITING_FOR_KYT_APPROVE"} :
            \/ UNCHANGED <<row, transaction>>
            \/ /\ row' = [row EXCEPT ![r] = [Created EXCEPT !.state = s]]
               /\ \/ s = "VERIFICATION_FAILED" /\ UNCHANGED transaction
                  \/ transaction' = [transaction EXCEPT ![r] = "PENDING"]
    BY <1>5, <2>2 DEF CheckDeposit
  <2> DEFINE x == [Created EXCEPT !.state = s]
  <2>5. x.state = s
    BY DEF Created
  <2>6. \/ UNCHANGED <<row, transaction>>
        \/ /\ row' = [row EXCEPT ![r] = x]
           /\ \/ s = "VERIFICATION_FAILED" /\ UNCHANGED transaction
              \/ transaction' = [transaction EXCEPT ![r] = "PENDING"]
    BY <2>4
  <2> HIDE DEF x
  <2>7. ~Working(task'[a])
    BY <1>1, <2>1, Constants
  <2>8. /\ \A q \in Rows \ {r} : row'[q] = row[q] /\ transaction'[q] = transaction[q]
        /\ row'[r].state \in KytStates => transaction'[r] # "none"
    BY <1>1, <1>3, <2>2, <2>3, <2>5, <2>6
  <2> QED BY <1>3, <2>2, <2>3, <2>7, <2>8
<1>6. CASE task[a].op # "insert"
  <2>1. /\ r \in Rows /\ Working(task[a]) /\ \A q \in Rows \ {r} : row'[q] = row[q]
        /\ task'[a] = NoTask \/ (task'[a].op = task[a].op /\ task'[a].id = r)
    BY <1>6, HandleWrites
  <2>2. ~Idle(a) /\ Exists(r) /\ PlainHandler(task[a])
    BY <1>2, <2>1 DEF Working, Idle
  <2>3. Working(task'[a]) => task'[a].op = task[a].op /\ task'[a].id = r
    BY <2>1, Constants
  <2>4. row[r].state \in KytStates => transaction[r] # "none"
    BY <2>1
  <2>5. CASE UNCHANGED <<row, transaction>>
    BY <1>6, <2>1, <2>2, <2>3, <2>4, <2>5
  <2>6. CASE Credit(a)
    <3>1. row' = row /\ transaction' = [transaction EXCEPT ![r] = "COMPLETED"]
      BY <2>6 DEF Credit, CreditsRow
    <3> QED BY <1>1, <1>6, <2>1, <2>2, <2>3, <3>1
  <2>7. CASE SaveRow(a)
    <3>1. row' = [row EXCEPT ![r] = task[a].obj] /\ transaction' = transaction /\ task' = [task EXCEPT ![a] = NoTask]
      BY <2>7 DEF SaveRow, Ends
    <3>2. task[a].op = "score"
      <4>1. task[a].op \in {"score", "external"}
        BY <1>1, <2>7, HandlerParts DEF SaveRow
      <4> QED BY <2>2, <4>1 DEF PlainHandler
    <3>3. row[r].state \in KytStates
      BY <2>1, <3>2
    <3>4. ~Working(task'[a])
      BY <1>1, <3>1, Constants
    <3> QED BY <1>3, <2>1, <2>2, <2>4, <3>1, <3>3, <3>4
  <2>8. CASE Topup(a) /\ transaction[r] = "none"
    <3> DEFINE x == [task[a].obj EXCEPT !.state = "WAITING_FOR_ACCUMULATION"]
    <3>1. task[a].step = "topup" /\ row' = [row EXCEPT ![r] = x]
          /\ transaction' = [transaction EXCEPT ![r] = "COMPLETED"]
      BY <2>8 DEF Topup, CreditsRow
    <3>2. row[r].state \notin KytStates
      BY <2>4, <2>8
    <3>3. task[a].op # "score"
      BY <2>1, <3>2
    <3>4. row[r].state \in Early
      <4>1. credits[r] = 0
        BY <2>1, <2>8 DEF OnceInv, RowOnce
      <4>2. ~row[r].external
        BY <2>1 DEF PlainRows
      <4> QED BY <2>1, <4>1, <4>2 DEF RowsClear, Cleared, Clear
    <3> HIDE DEF x
    <3>5. \A q \in Rows \ {r} : row'[q] = row[q] /\ transaction'[q] = transaction[q]
      BY <1>1, <3>1
    <3>6. transaction'[r] # "none"
      BY <1>1, <2>1, <3>1
    <3> QED BY <1>6, <2>1, <2>2, <2>3, <3>3, <3>4, <3>5, <3>6
  <2>9. CASE Topup(a) /\ transaction[r] # "none"
    <3>1. UNCHANGED <<row, transaction>>
      BY <2>9 DEF Topup
    <3> QED BY <2>5, <3>1
  <2>10. ~Revert(a)
    BY <1>1, <2>2, HandlerParts DEF Revert, PlainHandler
  <2>11. Score(a) \/ UnblockWallet(a) => UNCHANGED <<row, transaction>>
    BY DEF Score, UnblockWallet
  <2> QED BY <1>6, <2>5, <2>6, <2>7, <2>8, <2>9, <2>10, <2>11 DEF Handle, InsertRow, CheckDeposit
<1>7. CASE task[a].op = "insert" /\ ~InsertRow(a) /\ ~CheckDeposit(a)
  <2>1. task[a].step \in {"create", "check"}
    BY <1>1, <1>7 DEF Shaped, StepsOf
  <2> QED BY <1>7, <2>1 DEF Handle, Score, Topup, Credit, SaveRow, UnblockWallet, Revert
<1> QED BY <1>4, <1>5, <1>6, <1>7

LEMMA BeginEarly ==
    ASSUME RowsSound, {"external", "revert"} \cap AdminOps = {}, NEW a \in Actors,
           Administrate(a) \/ \E r \in Rows : BeginScore(a, r)
    PROVE  /\ UNCHANGED <<row, transaction>> /\ task'[a].op # "insert"
           /\ task'[a].op = "score" => row[task'[a].id].state \in KytStates
<1>1. row' = row /\ task'[a].op # "insert"
  BY BeginKeeps
<1>2. PICK r \in Rows, op \in {"score", "force"}, step \in Steps :
          Load(a, op, r, step) /\ (op = "score" => row[r].state \in KytStates)
  <2>1. "score" \in Steps /\ "topup" \in Steps
    BY DEF Steps
  <2>2. CASE \E r \in Rows : BeginScore(a, r)
    BY <2>1, <2>2 DEF BeginScore
  <2>3. CASE \E r \in Rows : BeginForce(a, r)
    BY <2>1, <2>3 DEF BeginForce
  <2> QED BY <2>2, <2>3 DEF Administrate
<1> DEFINE t == [op |-> op, id |-> r, obj |-> row[r], step |-> step]
<1>3. task \in [Actors -> Task] /\ task' = [task EXCEPT ![a] = t] /\ transaction' = transaction
  BY <1>2 DEF Load, RowsSound, RowTypeInv
<1>4. t.op = op /\ t.id = r
  OBVIOUS
<1> HIDE DEF t
<1> QED BY <1>1, <1>2, <1>3, <1>4

LEMMA TransactionsStay ==
    ASSUME [Next]_depositVars, ~(\E a \in Actors : Handle(a)),
           ~(\E a \in Actors : Administrate(a) \/ \E r \in Rows : BeginScore(a, r)),
           SoundInv
    PROVE  UNCHANGED transaction
<1>1. Depositors \subseteq Actors /\ Checkers \subseteq Actors /\ Admins \subseteq Actors
  BY ChainAssumption
<1>2. \A a \in Checkers : CheckDepositScoring(a) => UNCHANGED transaction
  BY <1>1 DEF CheckDepositScoring, rowVars, walletVars, SoundInv, ChainSound
<1>3. \A a \in Admins : ~AdminActs(a)
  BY <1>1 DEF AdminActs
<1>4. \A a \in Actors : ~RunHandler(a)
  BY DEF RunHandler
<1> QED BY <1>2, <1>3, <1>4 DEF Next, Credits, UserTransfers, StartScan, ProcessBlocks, ScanDies,
        ProcessDeposit, JobDies, Crash, Die, WalletBlocks, BlockWallet, LiftBlock, CheckScores,
        depositVars, rowVars, walletVars

(* Deposits go on beside accumulations. *)
LEMMA EarlyDeposits ==
    ASSUME MovingInv, OnceInv, ClearedInv, OneInv, EarlyInv, Undisturbed,
           [Next]_depositVars, UNCHANGED accumulationVars
    PROVE  /\ EarlyInv'
           /\ \A r \in Rows : row'[r] = row[r] \/ (row[r].state \in Early /\ ~InProgress(row'[r]))
<1>1. /\ SoundInv /\ RowsSound /\ RowsClear /\ PlainRows /\ {"external", "revert"} \cap AdminOps = {}
      /\ InsertsSound
  BY DEF MovingInv, SoundInv, ClearedInv, OneInv, Undisturbed
<1>2. Arrived \subseteq Arrived'
  BY <1>1, ChainGrows DEF Arrived
<1> DEFINE Kyt == \A r \in Rows : row'[r].state \in KytStates => transaction'[r] # "none"
           Tasks == \A b \in Actors : Working(task'[b]) =>
                       /\ task'[b].op = "insert" => row'[task'[b].id].state = "CREATED"
                       /\ task'[b].op = "score" => row'[task'[b].id].state \in KytStates
           Is == \A r \in Rows : row'[r].state # "none" => r[2] = 1 /\ r[1] \in Arrived' \ Failed
           Beyond == \A r \in Rows : row'[r] = row[r] \/ row[r].state \in Early
<1>3. ASSUME \E a \in Actors : Handle(a)
      PROVE  Kyt /\ Tasks /\ Is /\ Beyond
  <2>1. PICK a \in Actors : Handle(a)
    BY <1>3
  <2> DEFINE r == task[a].id
  <2>2. /\ \A q \in Rows : row[q].state \in KytStates => transaction[q] # "none"
        /\ Working(task[a]) =>
               /\ task[a].op = "insert" => row[r].state = "CREATED"
               /\ task[a].op = "score" => row[r].state \in KytStates
    BY DEF EarlyInv
  <2>3. /\ r \in Rows /\ ~Idle(a)
        /\ \A q \in Rows \ {r} : row'[q] = row[q] /\ transaction'[q] = transaction[q]
        /\ row'[r] = row[r] \/ row[r].state \in Early
        /\ row'[r].state \in KytStates => transaction'[r] # "none"
        /\ Working(task'[a]) =>
               /\ task'[a].id = r
               /\ task'[a].op = "insert" => row'[r].state = "CREATED"
               /\ task'[a].op = "score" => row'[r].state \in KytStates
        /\ row'[r].state # "none" => Exists(r) \/ Inserting(task[a])
    BY <1>1, <2>1, <2>2, HandleEarly
  <2>4. \A b \in Actors \ {a} : task'[b] = task[b]
    BY <1>1, <2>1, HandleKeeps
  <2>5. \A b \in Actors \ {a} : Working(task[b]) => task[b].id \in Rows \ {r}
    BY <1>1, <2>3, SoundParts DEF OnceInv, OneHandler, Working, Idle
  <2>6. Kyt
    BY <2>2, <2>3
  <2>7. Tasks
    BY <2>3, <2>4, <2>5 DEF EarlyInv
  <2>8. Inserting(task[a]) => r[2] = 1 /\ r[1] \in Arrived \ Failed
    BY <1>1, <2>3, RowParts DEF InsertsSound
  <2>9. Is
    BY <1>2, <2>3, <2>8 DEF EarlyInv, Exists
  <2>10. Beyond
    BY <2>3
  <2> QED BY <2>6, <2>7, <2>9, <2>10
<1>4. ASSUME \E a \in Actors : Administrate(a) \/ \E r \in Rows : BeginScore(a, r)
      PROVE  Kyt /\ Tasks /\ Is /\ Beyond
  <2>1. PICK a \in Actors : Administrate(a) \/ \E r \in Rows : BeginScore(a, r)
    BY <1>4
  <2>2. /\ UNCHANGED <<row, transaction>> /\ task'[a].op # "insert"
        /\ task'[a].op = "score" => row[task'[a].id].state \in KytStates
    BY <1>1, <2>1, BeginEarly
  <2>3. \A b \in Actors \ {a} : task'[b] = task[b]
    BY <1>1, <2>1, BeginKeeps
  <2> QED BY <1>2, <2>2, <2>3 DEF EarlyInv, Exists
<1>5. ASSUME UNCHANGED <<row, transaction>>,
             \A b \in Actors : task'[b] = task[b] \/ ~Working(task'[b])
      PROVE  Kyt /\ Tasks /\ Is /\ Beyond
  BY <1>2, <1>5 DEF EarlyInv, Exists
<1>6. Kyt /\ Tasks /\ Is /\ Beyond
  BY <1>1, <1>3, <1>4, <1>5, DepositSteps, TransactionsStay
<1>7. \A r \in Rows : InProgress(row'[r]) => InProgress(row[r])
  BY <1>1, DepositsPlain
<1>8. "ACCUMULATION_IN_PROGRESS" \notin Early
  BY DEF Early, KytStates
<1>9. TouchedLate'
  BY <1>6, CreditsMove, TouchedRows DEF MovingInv, EarlyInv, TouchedLate
<1> QED BY <1>6, <1>7, <1>8, <1>9 DEF EarlyInv, Exists, InProgress

(* Tasks and workers leave early rows alone. *)
LEMMA EarlyWork ==
    ASSUME MovingInv, EarlyInv, MovesOn PROVE EarlyInv'
<1>1. /\ RowsMove /\ TouchedLate' /\ UNCHANGED <<transaction, task>> /\ Arrived' = Arrived
      /\ Existing' = Existing
  BY DEF MovesOn, EarlyInv, RowsAreLeft, LedgerRests
<1>2. KytStates \subseteq Early /\ "CREATED" \in Early
  BY DEF Early
<1>3. \A r \in Rows : row[r].state \in Early => row'[r] = row[r]
  BY <1>1 DEF RowsMove, EarlyInv, TouchedLate
<1>4. \A r \in Rows : row'[r].state \in KytStates => transaction'[r] # "none"
  BY <1>1, <1>2 DEF RowsMove, EarlyInv
<1>5. \A a \in Actors : Working(task'[a]) =>
           /\ task'[a].op = "insert" => row'[task'[a].id].state = "CREATED"
           /\ task'[a].op = "score" => row'[task'[a].id].state \in KytStates
  <2>1. \A a \in Actors : Working(task[a]) => task[a].id \in Rows
    BY SoundParts DEF MovingInv, SoundInv, Working, Idle
  <2> QED BY <1>1, <1>2, <1>3, <2>1 DEF EarlyInv
<1>6. \A r \in Rows : row'[r].state # "none" => Exists(r)
  BY <1>1 DEF Existing, Exists
<1> QED BY <1>1, <1>4, <1>5, <1>6 DEF EarlyInv, Exists

-----------------------------------------------------------------------------
(* Nonces.                                                                 *)

LEMMA WalletNonceAppend ==
    ASSUME ChainSound, NEW t, blocks' = Append(blocks, t), NEW w
    PROVE  WalletNonce(w)' = IF FromWallet(t, w) THEN WalletNonce(w) + 1 ELSE WalletNonce(w)
<1> DEFINE S == {i \in DOMAIN blocks : FromWallet(blocks[i], w)}
           z == Len(blocks) + 1
<1>1. /\ Len(blocks) \in Nat /\ DOMAIN blocks = 1 .. Len(blocks) /\ DOMAIN blocks' = 1 .. z
      /\ blocks'[z] = t /\ \A i \in 1 .. Len(blocks) : blocks'[i] = blocks[i]
  BY DEF ChainSound
<1>2. IsFiniteSet(S) /\ z \notin S
  <2>1. IsFiniteSet(DOMAIN blocks) /\ S \subseteq DOMAIN blocks
    BY <1>1, FS_Interval
  <2>2. z \notin DOMAIN blocks
    BY <1>1
  <2> QED BY <2>1, <2>2, FS_Subset
<1>3. {i \in DOMAIN blocks' : FromWallet(blocks'[i], w)} = IF FromWallet(t, w) THEN S \cup {z} ELSE S
  BY <1>1
<1>4. Cardinality(S \cup {z}) = Cardinality(S) + 1
  <2> HIDE DEF S, z
  <2> QED BY <1>2, FS_AddElement
<1> QED BY <1>3, <1>4 DEF WalletNonce

(* What is sent is of ours, for a row, and has a number for its nonce. *)
LEMMA SendParts ==
    ASSUME MovingInv, SenderInv, NEW t \in pool \cup Range(blocks), t.kind \in OutKinds
    PROVE  /\ t.kind = "accumulate" /\ t \in Sends /\ t \in OurTxs /\ t.row \in Rows
           /\ t.nonce \in Nat /\ HasSend(t.row)
<1>1. t.kind = "accumulate" /\ t \in Sends
  BY DEF SenderInv, OutKinds, Sends
<1>2. t \in OurTxs
  <2>1. t \notin Transfers
    BY <1>1, TransferParts DEF Transfers
  <2> QED BY <2>1, JobParts DEF MovingInv, CoinSound, SoundInv
<1> QED BY <1>1, <1>2, OurKinds, ChainAssumption DEF HasSend

LEMMA SendIs ==
    ASSUME NEW t \in Sends PROVE t \in pool \cup Range(blocks) /\ t.kind \in OutKinds
BY DEF Sends, OutKinds

(* What waits is in no block. *)
LEMMA PoolIsNew ==
    ASSUME MovingInv, OneInv, SenderInv, NEW t \in pool PROVE t \notin Range(blocks)
<1>1. KeeperNonce \in Nat /\ WalletNonce(WalletOf(t.row)) \in Nat
  BY NonceParts DEF MovingInv, SoundInv
<1>2. CASE t.kind = "gas" /\ t.nonce = KeeperNonce
  BY <1>1, <1>2 DEF OneInv, GasFollowed
<1>3. CASE t.kind = "accumulate" /\ t.nonce = WalletNonce(WalletOf(t.row))
  BY <1>1, <1>3 DEF SenderInv
<1> QED BY <1>2, <1>3 DEF SenderInv

LEMMA SenderRests ==
    ASSUME SenderInv, UNCHANGED <<pool, blocks>> PROVE SenderInv'
BY DEF SenderInv, KeeperNonce, WalletNonce, Sends

(* The gas worker sends with the keeper's next nonce. *)
LEMMA SenderGas ==
    ASSUME SenderInv, UNCHANGED blocks, NEW t, t.kind = "gas", t.nonce = KeeperNonce,
           pool' = pool \cup {t}
    PROVE  SenderInv'
<1>1. KeeperNonce' = KeeperNonce /\ \A w : WalletNonce(w)' = WalletNonce(w)
  BY DEF KeeperNonce, WalletNonce
<1>2. Sends' = Sends
  BY DEF Sends
<1>3. \A u \in pool' : u.kind = "accumulate" => u \in pool
  OBVIOUS
<1> HIDE DEF Sends
<1> QED BY <1>1, <1>2, <1>3 DEF SenderInv

(* An accumulator sends t for a row that nothing was sent for. *)
LEMMA SenderSends ==
    ASSUME MovingInv, SenderInv, UNCHANGED blocks, NEW t, t.kind = "accumulate", t.price = 1,
           t.nonce = WalletNonce(WalletOf(t.row)), NodeAccepts(t), ~HasSend(t.row),
           pool' = pool \cup {t}
    PROVE  SenderInv'
<1>1. KeeperNonce' = KeeperNonce /\ \A w : WalletNonce(w)' = WalletNonce(w)
  BY DEF KeeperNonce, WalletNonce
<1>2. Sends' = Sends \cup {t}
  BY DEF Sends
<1>3. ASSUME NEW p \in pool, p.kind = "accumulate", WalletOf(p.row) = WalletOf(t.row) PROVE FALSE
  <2>1. SameSender(p, t)
    BY <1>3 DEF SameSender, FromWallet, OutKinds
  <2>2. p.nonce = t.nonce /\ p.price = 1
    BY <1>3 DEF SenderInv
  <2> QED BY <2>1, <2>2 DEF NodeAccepts
<1>4. \A u \in pool' : \/ u.kind = "gas" /\ u.nonce = KeeperNonce'
                       \/ u.kind = "accumulate" /\ u.price = 1 /\ u.nonce = WalletNonce(WalletOf(u.row))'
  BY <1>1 DEF SenderInv
<1>5. \A u, v \in pool' :
          u.kind = "accumulate" /\ v.kind = "accumulate" /\ WalletOf(u.row) = WalletOf(v.row) => u = v
  BY <1>3 DEF SenderInv
<1>6. \A u, v \in Sends' : u.row = v.row => u = v
  BY <1>2 DEF SenderInv, HasSend
<1>7. \A u \in Range(blocks)' :
           \/ u.kind \in {"deposit", "gas"}
           \/ u.kind = "accumulate" /\ u.nonce < WalletNonce(WalletOf(u.row))'
  BY <1>1 DEF SenderInv
<1> QED BY <1>4, <1>5, <1>6, <1>7 DEF SenderInv

(* A transfer of a user is mined. *)
LEMMA SenderTransfer ==
    ASSUME MovingInv, SenderInv, NEW t, t.kind = "deposit", blocks' = Append(blocks, t), UNCHANGED pool
    PROVE  SenderInv'
<1>1. KeeperNonce' = KeeperNonce
  BY NonceAppend DEF MovingInv, SoundInv
<1>2. \A w : WalletNonce(w)' = WalletNonce(w)
  BY WalletNonceAppend DEF MovingInv, SoundInv, FromWallet, OutKinds
<1>3. Range(blocks') = Range(blocks) \cup {t}
  BY RangeAppend DEF MovingInv, SoundInv, ChainSound
<1>4. Sends' = Sends
  BY <1>3 DEF Sends
<1> QED BY <1>1, <1>2, <1>3, <1>4 DEF SenderInv

(* What mining t leaves to be mined. *)
LEMMA PoolAfter ==
    ASSUME MovingInv, SenderInv, NEW t \in pool,
           pool' = {p \in pool : ~SameSender(p, t) \/ p.nonce > t.nonce}
    PROVE  /\ t.kind = "gas" => \A p \in pool : p \in pool' <=> p.kind # "gas"
           /\ t.kind # "gas" => pool' = pool \ {t}
<1>1. t \in OurTxs /\ \A p \in pool : p \in OurTxs
  BY DEF MovingInv, CoinSound
<1>2. \A p \in pool : p.nonce \in Nat
  BY <1>1, OurKinds, ChainAssumption
<1>3. CASE t.kind = "gas"
  <2>1. \A p \in pool : SameSender(p, t) <=> p.kind = "gas"
    BY <1>3 DEF SameSender, FromWallet, OutKinds, SenderInv
  <2>2. \A p \in pool : p.kind = "gas" => p.nonce = t.nonce
    BY <1>3 DEF SenderInv
  <2> QED BY <1>2, <1>3, <2>1, <2>2
<1>4. CASE t.kind = "accumulate"
  <2>1. \A p \in pool : SameSender(p, t) <=> p = t
    BY <1>4 DEF SameSender, FromWallet, OutKinds, SenderInv
  <2> QED BY <1>2, <1>4, <2>1
<1> QED BY <1>3, <1>4 DEF SenderInv

LEMMA SenderMine ==
    ASSUME MovingInv, OneInv, SenderInv, NEW t \in pool, blocks' = Append(blocks, t),
           pool' = {p \in pool : ~SameSender(p, t) \/ p.nonce > t.nonce}
    PROVE  SenderInv' /\ Sends' \subseteq Sends
<1>1. Range(blocks') = Range(blocks) \cup {t} /\ ChainSound
  BY RangeAppend DEF MovingInv, SoundInv, ChainSound
<1>2. KeeperNonce' = IF t.kind = "gas" THEN KeeperNonce + 1 ELSE KeeperNonce
  BY <1>1, NonceAppend
<1>3. \A w : WalletNonce(w)' = IF FromWallet(t, w) THEN WalletNonce(w) + 1 ELSE WalletNonce(w)
  BY <1>1, WalletNonceAppend
<1>4. KeeperNonce \in Nat /\ \A w : WalletNonce(w) \in Nat
  BY <1>1, NonceParts
<1>5. pool' \subseteq pool /\ Sends' \subseteq Sends
  BY <1>1 DEF Sends
<1>6. CASE t.kind = "gas"
  <2>1. \A w : WalletNonce(w)' = WalletNonce(w)
    BY <1>3, <1>6 DEF FromWallet, OutKinds
  <2>2. \A p \in pool' : p.kind # "gas"
    BY <1>5, <1>6, PoolAfter
  <2>3. t.nonce = KeeperNonce /\ \A u \in Range(blocks) : u.kind = "gas" => u.nonce < KeeperNonce
    BY <1>6 DEF SenderInv, OneInv, GasFollowed
  <2>4. \A u, v \in Range(blocks') : u.kind = "gas" /\ v.kind = "gas" /\ u.nonce = v.nonce => u = v
    BY <1>1, <1>4, <2>3 DEF SenderInv
  <2> QED BY <1>1, <1>5, <1>6, <2>1, <2>2, <2>4 DEF SenderInv
<1>7. CASE t.kind = "accumulate"
  <2> DEFINE W == WalletOf(t.row)
  <2>1. KeeperNonce' = KeeperNonce /\ pool' = pool \ {t}
    BY <1>2, <1>7, PoolAfter
  <2>2. \A w : FromWallet(t, w) <=> w = W
    BY <1>7 DEF FromWallet, OutKinds
  <2>3. \A p \in pool' : p.kind = "accumulate" => WalletOf(p.row) # W
    BY <1>7, <2>1 DEF SenderInv
  <2>4. \A p \in pool' :
           \/ p.kind = "gas" /\ p.nonce = KeeperNonce'
           \/ p.kind = "accumulate" /\ p.price = 1 /\ p.nonce = WalletNonce(WalletOf(p.row))'
    BY <1>3, <1>5, <2>1, <2>2, <2>3 DEF SenderInv
  <2>5. ASSUME NEW u \in Range(blocks')
        PROVE  \/ u.kind \in {"deposit", "gas"}
               \/ u.kind = "accumulate" /\ u.nonce < WalletNonce(WalletOf(u.row))'
    <3>1. CASE u = t
      <4>1. t.nonce = WalletNonce(W) /\ WalletNonce(W)' = WalletNonce(W) + 1
        BY <1>3, <1>7, <2>2 DEF SenderInv
      <4> QED BY <1>4, <1>7, <3>1, <4>1
    <3>2. CASE u \in Range(blocks) /\ u.kind = "accumulate"
      <4>1. u.nonce < WalletNonce(WalletOf(u.row)) /\ u.nonce \in Nat
        BY <3>2, SendParts DEF SenderInv, OutKinds
      <4> QED BY <1>3, <1>4, <3>2, <4>1
    <3> QED BY <1>1, <2>5, <3>1, <3>2 DEF SenderInv
  <2>6. \A u, v \in Range(blocks') : u.kind = "gas" /\ v.kind = "gas" /\ u.nonce = v.nonce => u = v
    BY <1>1, <1>7 DEF SenderInv
  <2> HIDE DEF W
  <2> QED BY <1>5, <2>4, <2>5, <2>6 DEF SenderInv
<1> QED BY <1>5, <1>6, <1>7 DEF SenderInv

-----------------------------------------------------------------------------
(* Where rows are.                                                         *)

LEMMA PlaceStep ==
    ASSUME PlaceInv, NEW X,
           \A q \in Rows \ X : /\ q \in checks' => q \in checks
                               /\ q \in toSend' => q \in toSend
                               /\ q \in toGas' => q \in toGas
                               /\ GasLive(q)' => GasLive(q)
                               /\ HasSend(q)' => HasSend(q),
           \A r \in X : Place(r)'
    PROVE  PlaceInv'
<1>1. ASSUME NEW q \in Rows \ X PROVE Place(q)'
  BY DEF PlaceInv, Place
<1> QED BY <1>1 DEF PlaceInv

LEMMA PlaceParts ==
    ASSUME PlaceInv, NEW r \in Rows
    PROVE  /\ r \in checks => r \notin toSend \cup toGas
           /\ r \in toSend => r \notin toGas
           /\ r \in checks \cup toSend \cup toGas => ~GasLive(r) /\ ~HasSend(r)
           /\ GasLive(r) => ~HasSend(r)
BY DEF PlaceInv, Place

LEMMA GasUnderWayIs == \A r : GasUnderWay(r) <=> \E t \in GasTxs : t.row = r
BY DEF GasUnderWay, GasTxs

(* The gas worker rests or ends. *)
LEMMA GasRemains ==
    ASSUME GasInv, KeeperNonce' = KeeperNonce, gasWorker' = gasWorker \/ gasWorker'.step = "idle",
           recorded \subseteq recorded', GasTxs' \subseteq GasTxs,
           \A t \in Range(blocks)' : t.kind = "gas" => t \in Range(blocks)
    PROVE  GasInv' /\ \A r : GasLive(r)' => GasLive(r)
<1>1. GasMayCome' => GasMayCome /\ gasWorker' = gasWorker
  BY DEF GasMayCome
<1>2. \A r : GasUnderWay(r)' => GasUnderWay(r)
  BY GasUnderWayIs DEF GasUnderWay, GasTxs
<1>3. \A t \in GasTxs : t.kind = "gas"
  BY DEF GasTxs
<1>4. \A r : GasLive(r)' => GasLive(r)
  BY <1>1, <1>2 DEF GasLive
<1> HIDE DEF GasTxs
<1> QED BY <1>1, <1>3, <1>4 DEF GasInv

(* The gas worker goes on with x for row r. *)
LEMMA GasMovesOn ==
    ASSUME GasInv, UNCHANGED blocks, NEW x, gasWorker' = x, x.step \in {"record", "receipt"},
           recorded \subseteq recorded', GasTxs' \subseteq GasTxs \cup {x.tx}, x.tx.row = x.row,
           \A t \in GasTxs : t.row = x.row => t.nonce = x.tx.nonce,
           x.step = "receipt" => x.tx \in recorded',
           x.step = "record" =>
               x.tx \notin Range(blocks) /\ \A t \in GasTxs : t.row = x.row => t \notin Range(blocks)
    PROVE  GasInv' /\ \A r : GasLive(r)' => GasLive(r) \/ r = x.row
<1>1. \A r : GasUnderWay(r)' => GasUnderWay(r) \/ r = x.row
  BY GasUnderWayIs DEF GasUnderWay, GasTxs
<1>2. \A r : GasLive(r)' => GasLive(r) \/ r = x.row
  BY <1>1 DEF GasLive, GasMayCome
<1> HIDE DEF GasTxs
<1>3. \A t, u \in GasTxs' : t.row = u.row => t.nonce = u.nonce
  BY DEF GasInv
<1>4. GasMayCome' => \A t \in GasTxs' : t.row = gasWorker'.row => t.nonce = gasWorker'.tx.nonce
  OBVIOUS
<1> QED BY <1>2, <1>3, <1>4 DEF GasInv

(* A gas transfer of a row that is mined is the one that counts. *)
LEMMA GasMined ==
    ASSUME MovingInv, OneInv, SenderInv, GasInv, NEW t \in GasTxs, t \in Range(blocks)
    PROVE  /\ \A u \in GasTxs : u.row = t.row => u = t
           /\ ~(GasMayCome /\ gasWorker.row = t.row)
           /\ GasLive(t.row)
<1>1. KeeperNonce \in Nat /\ t.kind = "gas" /\ t.nonce \in Nat /\ t.nonce < KeeperNonce
  <2>1. t.kind = "gas"
    BY DEF GasTxs
  <2> QED BY <2>1, NonceParts, GasNonces DEF MovingInv, SoundInv, OneInv, GasFollowed
<1>2. ASSUME NEW u \in GasTxs, u.row = t.row PROVE u = t
  <2>1. u.kind = "gas" /\ u \in pool \cup Range(blocks) /\ u.nonce = t.nonce
    BY <1>2 DEF GasTxs, GasInv
  <2>2. u \notin pool
    BY <1>1, <2>1 DEF SenderInv
  <2> QED BY <1>1, <2>1, <2>2 DEF SenderInv
<1>3. ASSUME GasMayCome, gasWorker.row = t.row PROVE FALSE
  <2>1. t.nonce = gasWorker.tx.nonce /\ gasWorker.step # "record"
    BY <1>3 DEF GasInv
  <2> QED BY <1>1, <1>3, <2>1 DEF GasMayCome
<1> QED BY <1>2, <1>3, GasUnderWayIs DEF GasLive

LEMMA SendsRest ==
    ASSUME \A t : t.kind = "accumulate" /\ t \in pool' \cup Range(blocks)' => t \in pool \cup Range(blocks)
    PROVE  Sends' \subseteq Sends /\ \A r : HasSend(r)' => HasSend(r)
BY DEF Sends, HasSend

(* The gas worker's steps.                                                 *)

LEMMA PlaceSendGas ==
    ASSUME MovingInv, OneInv, SenderInv, GasInv, PlaceInv, SendGas
    PROVE  GasInv' /\ PlaceInv' /\ SenderInv'
<1>1. PICK r \in toGas, p \in 1 .. MaxPrice :
          LET t == [kind |-> "gas", row |-> r, nonce |-> KeeperNonce, price |-> p]
          IN  /\ gasWorker.step = "idle"
              /\ toGas' = toGas \ {r}
              /\ \/ /\ pool' = pool \cup {t}
                    /\ Gases([step |-> "record", row |-> r, tx |-> t, seen |-> row[r].state])
                    /\ UNCHANGED checks
                 \/ checks' = checks \cup {r} /\ UNCHANGED <<pool, gasWorker>>
  BY DEF SendGas
<1> DEFINE t == [kind |-> "gas", row |-> r, nonce |-> KeeperNonce, price |-> p]
           x == [step |-> "record", row |-> r, tx |-> t, seen |-> row[r].state]
<1>2. /\ gasWorker.step = "idle" /\ toGas' = toGas \ {r}
      /\ \/ pool' = pool \cup {t} /\ gasWorker' = x /\ UNCHANGED checks
         \/ checks' = checks \cup {r} /\ UNCHANGED <<pool, gasWorker>>
  BY <1>1 DEF Gases
<1>3. UNCHANGED <<blocks, recorded, completed, toSend, accumulator>>
  BY DEF SendGas, depositVars, scanVars
<1>4. t.kind = "gas" /\ t.row = r /\ t.nonce = KeeperNonce /\ x.row = r /\ x.tx = t /\ x.step = "record"
  OBVIOUS
<1> HIDE DEF t, x
<1>5. /\ r \in Rows /\ r \notin checks /\ r \notin toSend /\ ~GasLive(r) /\ ~HasSend(r)
  BY PlaceParts DEF MovingInv, CoinSound
<1>6. KeeperNonce' = KeeperNonce /\ KeeperNonce \in Nat
  BY <1>3, NonceParts DEF KeeperNonce, MovingInv, SoundInv
<1>7. \A q : HasSend(q)' => HasSend(q)
  BY <1>2, <1>3, <1>4, SendsRest
<1>8. CASE pool' = pool \cup {t} /\ gasWorker' = x /\ UNCHANGED checks
  <2>1. GasTxs' \subseteq GasTxs \cup {t}
    BY <1>3, <1>8 DEF GasTxs
  <2>2. \A u \in GasTxs : u.row # r
    BY <1>5, GasUnderWayIs DEF GasLive
  <2>3. t \notin Range(blocks)
    BY <1>4, <1>6 DEF OneInv, GasFollowed
  <2>4. GasInv' /\ \A q : GasLive(q)' => GasLive(q) \/ q = r
    <3>1. \A u \in GasTxs : u.row = x.row => u.nonce = x.tx.nonce /\ u \notin Range(blocks)
      BY <1>4, <2>2
    <3> QED BY <1>3, <1>4, <1>8, <2>1, <2>3, <3>1, GasMovesOn
  <2>5. Place(r)'
    BY <1>2, <1>3, <1>5, <1>7, <1>8 DEF Place
  <2>6. SenderInv'
    BY <1>3, <1>4, <1>8, SenderGas
  <2> DEFINE X == {r}
  <2>7. \A q \in Rows \ X : /\ q \in checks' => q \in checks
                            /\ q \in toSend' => q \in toSend
                            /\ q \in toGas' => q \in toGas
                            /\ GasLive(q)' => GasLive(q)
                            /\ HasSend(q)' => HasSend(q)
    BY <1>2, <1>3, <1>7, <1>8, <2>4
  <2>8. \A q \in X : Place(q)'
    BY <2>5
  <2> HIDE DEF X
  <2> QED BY <2>4, <2>6, <2>7, <2>8, PlaceStep
<1>9. CASE checks' = checks \cup {r} /\ UNCHANGED <<pool, gasWorker>>
  <2>1. GasInv' /\ \A q : GasLive(q)' => GasLive(q)
    <3>1. GasTxs' = GasTxs
      BY <1>3, <1>9 DEF GasTxs
    <3> QED BY <1>3, <1>6, <1>9, <3>1, GasRemains
  <2>2. Place(r)'
    BY <1>2, <1>3, <1>5, <1>7, <2>1 DEF Place
  <2>3. SenderInv'
    BY <1>3, <1>9, SenderRests
  <2> DEFINE X == {r}
  <2>4. \A q \in Rows \ X : /\ q \in checks' => q \in checks
                            /\ q \in toSend' => q \in toSend
                            /\ q \in toGas' => q \in toGas
                            /\ GasLive(q)' => GasLive(q)
                            /\ HasSend(q)' => HasSend(q)
    BY <1>2, <1>3, <1>7, <1>9, <2>1
  <2>5. \A q \in X : Place(q)'
    BY <2>2
  <2> HIDE DEF X
  <2> QED BY <2>1, <2>3, <2>4, <2>5, PlaceStep
<1> QED BY <1>2, <1>8, <1>9

(* Rows only leave their places. *)
LEMMA PlaceLeaves ==
    ASSUME PlaceInv, checks' \subseteq checks, toSend' \subseteq toSend, toGas' \subseteq toGas,
           \A r : GasLive(r)' => GasLive(r), \A r : HasSend(r)' => HasSend(r)
    PROVE  PlaceInv'
<1> DEFINE X == {}
<1>1. \A q \in Rows \ X : /\ q \in checks' => q \in checks
                          /\ q \in toSend' => q \in toSend
                          /\ q \in toGas' => q \in toGas
                          /\ GasLive(q)' => GasLive(q)
                          /\ HasSend(q)' => HasSend(q)
  OBVIOUS
<1>2. \A q \in X : Place(q)'
  OBVIOUS
<1> HIDE DEF X
<1> QED BY <1>1, <1>2, PlaceStep

LEMMA PlaceRecordGas ==
    ASSUME MovingInv, OneInv, SenderInv, GasInv, PlaceInv, RecordGas
    PROVE  GasInv' /\ PlaceInv' /\ SenderInv'
<1> DEFINE x == [gasWorker EXCEPT !.step = "receipt"]
<1>1. /\ gasWorker.step = "record" /\ recorded' = recorded \cup {gasWorker.tx} /\ gasWorker' = x
  BY DEF RecordGas, Gases
<1>2. UNCHANGED <<blocks, pool, completed, checks, toSend, toGas>>
  BY DEF RecordGas, scanVars, queueVars
<1>3. gasWorker \in GasJobs /\ gasWorker.tx.row = gasWorker.row
  BY <1>1, GasWorkerAtWork DEF MovingInv, WorkSound
<1>4. x.step = "receipt" /\ x.row = gasWorker.row /\ x.tx = gasWorker.tx
  BY <1>3 DEF GasJobs
<1> HIDE DEF x
<1>5. GasMayCome /\ GasLive(gasWorker.row)
  BY <1>1 DEF GasMayCome, GasLive
<1>6. GasTxs' \subseteq GasTxs \cup {x.tx}
  BY <1>1, <1>2, <1>4 DEF GasTxs
<1>7. GasInv' /\ \A r : GasLive(r)' => GasLive(r) \/ r = x.row
  <2>1. \A t \in GasTxs : t.row = x.row => t.nonce = x.tx.nonce
    BY <1>4, <1>5 DEF GasInv
  <2> QED BY <1>1, <1>2, <1>3, <1>4, <1>6, <2>1, GasMovesOn
<1>8. \A r : GasLive(r)' => GasLive(r)
  BY <1>4, <1>5, <1>7
<1>9. \A r : HasSend(r)' => HasSend(r)
  BY <1>2, SendsRest
<1> QED BY <1>2, <1>7, <1>8, <1>9, PlaceLeaves, SenderRests

LEMMA PlaceGasNotSent ==
    ASSUME MovingInv, SenderInv, GasInv, PlaceInv, GasNotSent
    PROVE  GasInv' /\ PlaceInv' /\ SenderInv'
<1>1. UNCHANGED <<blocks, pool, recorded, completed, checks, toSend>> /\ toGas' \subseteq toGas
      /\ (gasWorker' = gasWorker \/ gasWorker' = NoJob)
  BY DEF GasNotSent, scanVars, coinVars, Gases
<1>2. KeeperNonce' = KeeperNonce /\ GasTxs' = GasTxs
  BY <1>1 DEF KeeperNonce, GasTxs
<1>3. GasInv' /\ \A r : GasLive(r)' => GasLive(r)
  BY <1>1, <1>2, NoJobParts, GasRemains
<1>4. \A r : HasSend(r)' => HasSend(r)
  BY <1>1, SendsRest
<1> QED BY <1>1, <1>3, <1>4, PlaceLeaves, SenderRests

LEMMA PlaceGasTimeout ==
    ASSUME MovingInv, OneInv, SenderInv, GasInv, PlaceInv, GasTimeout
    PROVE  GasInv' /\ PlaceInv' /\ SenderInv'
<1> DEFINE r == gasWorker.row
           t == [gasWorker.tx EXCEPT !.price = @ + 1]
           x == [gasWorker EXCEPT !.step = "record", !.tx = t, !.seen = row[r].state]
<1>1. UNCHANGED <<blocks, recorded, completed, checks, toSend, toGas>>
  BY DEF GasTimeout, depositVars, scanVars, queueVars
<1>2. gasWorker.step = "receipt"
  BY DEF GasTimeout
<1>3. /\ gasWorker \in GasJobs /\ gasWorker.tx \in OurTxs
      /\ gasWorker.tx.row = r /\ gasWorker.tx.kind = "gas"
  BY <1>2, GasWorkerAtWork DEF MovingInv, WorkSound
<1>4. KeeperNonce' = KeeperNonce
  BY <1>1 DEF KeeperNonce
<1>5. CASE Gases(NoJob) /\ UNCHANGED pool
  <2>1. GasTxs' = GasTxs
    BY <1>1, <1>5 DEF GasTxs
  <2>2. GasInv' /\ \A q : GasLive(q)' => GasLive(q)
    BY <1>1, <1>4, <1>5, <2>1, NoJobParts, GasRemains DEF Gases
  <2>3. \A q : HasSend(q)' => HasSend(q)
    BY <1>1, <1>5, SendsRest
  <2> QED BY <1>1, <1>5, <2>2, <2>3, PlaceLeaves, SenderRests
<1>6. CASE ~(gasWorker.tx.nonce < KeeperNonce) /\ pool' = pool \cup {t} /\ Gases(x)
  <2>1. t.kind = "gas" /\ t.row = r /\ t.nonce = gasWorker.tx.nonce
    BY <1>3 DEF OurTxs, Tx
  <2>2. x.step = "record" /\ x.row = r /\ x.tx = t
    <3>1. x = [step |-> "record", row |-> gasWorker.row, tx |-> t, seen |-> row[gasWorker.row].state]
      <4> HIDE DEF t
      <4> QED BY <1>3, Replaced, Zenon
    <3> HIDE DEF x, t
    <3> QED BY <3>1
  <2>3. gasWorker' = x /\ pool' = pool \cup {t} /\ ~(gasWorker.tx.nonce < KeeperNonce)
    BY <1>6 DEF Gases
  <2> HIDE DEF t, x
  <2>4. KeeperNonce \in Nat /\ gasWorker.tx.nonce \in Nat
    BY <1>3, OurKinds, NonceParts, ChainAssumption DEF MovingInv, SoundInv
  <2>5. t.nonce = KeeperNonce /\ GasMayCome /\ GasLive(r)
    <3>1. gasWorker.tx.nonce <= KeeperNonce
      BY <1>2 DEF OneInv, GasFollowed
    <3>2. gasWorker.tx.nonce = KeeperNonce
      BY <2>3, <2>4, <3>1
    <3> QED BY <1>2, <2>1, <2>4, <3>2 DEF GasMayCome, GasLive
  <2>6. \A u \in Range(blocks) : u.kind = "gas" => u.nonce # KeeperNonce
    BY <2>4 DEF OneInv, GasFollowed
  <2>7. \A u \in GasTxs : u.row = r => u.nonce = t.nonce /\ u \notin Range(blocks)
    <3>1. \A u \in GasTxs : u.kind = "gas"
      BY DEF GasTxs
    <3> QED BY <2>1, <2>5, <2>6, <3>1 DEF GasInv
  <2>8. GasTxs' \subseteq GasTxs \cup {t} /\ t \notin Range(blocks)
    BY <1>1, <2>1, <2>3, <2>5, <2>6 DEF GasTxs
  <2>9. GasInv' /\ \A q : GasLive(q)' => GasLive(q) \/ q = r
    BY <1>1, <2>1, <2>2, <2>3, <2>7, <2>8, GasMovesOn
  <2>10. \A q : GasLive(q)' => GasLive(q)
    BY <2>5, <2>9
  <2>11. \A q : HasSend(q)' => HasSend(q)
    BY <1>1, <2>1, <2>3, SendsRest
  <2>12. SenderInv'
    BY <1>1, <2>1, <2>3, <2>5, SenderGas
  <2> QED BY <1>1, <2>9, <2>10, <2>11, <2>12, PlaceLeaves
<1> QED BY <1>5, <1>6 DEF GasTimeout

(* A gas transfer t that was mined is completed: its row goes to the queue *)
(* it is accumulated from.                                                 *)
LEMMA PlaceCompletes ==
    ASSUME MovingInv, OneInv, SenderInv, GasInv, PlaceInv, NEW t \in GasTxs, t \in Range(blocks),
           t.row \in Rows, completed' = completed \cup {t}, toSend' = toSend \cup {t.row},
           UNCHANGED <<blocks, pool, recorded, checks, toGas>>,
           gasWorker' = gasWorker \/ gasWorker'.step = "idle"
    PROVE  GasInv' /\ PlaceInv'
<1> DEFINE r == t.row
<1>1. KeeperNonce' = KeeperNonce
  BY DEF KeeperNonce
<1>2. GasTxs' \subseteq GasTxs \ {t}
  BY DEF GasTxs
<1>3. GasInv' /\ \A q : GasLive(q)' => GasLive(q)
  BY <1>1, <1>2, GasRemains
<1>4. /\ \A u \in GasTxs : u.row = r => u = t
      /\ ~(GasMayCome /\ gasWorker.row = r)
      /\ GasLive(r)
  BY GasMined
<1>5. ~GasLive(r)'
  <2>1. ~GasUnderWay(r)'
    BY <1>2, <1>4 DEF GasUnderWay, GasTxs
  <2>2. GasMayCome' => GasMayCome /\ gasWorker' = gasWorker
    BY <1>1 DEF GasMayCome
  <2> QED BY <1>4, <2>1, <2>2 DEF GasLive
<1>6. \A q : HasSend(q)' => HasSend(q)
  BY SendsRest
<1>7. r \notin checks /\ r \notin toSend /\ r \notin toGas /\ ~HasSend(r)
  BY <1>4, PlaceParts
<1> HIDE DEF r
<1>8. Place(r)'
  BY <1>5, <1>6, <1>7 DEF Place
<1> DEFINE X == {r}
<1>9. \A q \in Rows \ X : /\ q \in checks' => q \in checks
                          /\ q \in toSend' => q \in toSend
                          /\ q \in toGas' => q \in toGas
                          /\ GasLive(q)' => GasLive(q)
                          /\ HasSend(q)' => HasSend(q)
  BY <1>3, <1>6 DEF r
<1>10. \A q \in X : Place(q)'
  BY <1>8
<1> HIDE DEF X
<1> QED BY <1>3, <1>9, <1>10, PlaceStep

LEMMA PlaceGasReceipt ==
    ASSUME MovingInv, OneInv, SenderInv, GasInv, PlaceInv, GasReceipt, "late" \notin ChainRaces
    PROVE  GasInv' /\ PlaceInv' /\ SenderInv'
<1> DEFINE t == gasWorker.tx
<1>1. /\ gasWorker.step = "receipt" /\ t \in Range(blocks) /\ t \notin completed
      /\ completed' = completed \cup {t} /\ toSend' = toSend \cup {gasWorker.row} /\ gasWorker' = NoJob
  BY DEF GasReceipt, Gases
<1>2. UNCHANGED <<blocks, pool, recorded, checks, toGas>>
  BY DEF GasReceipt, scanVars
<1>3. t.row = gasWorker.row /\ t.kind = "gas" /\ t.row \in Rows
  BY <1>1, GasWorkerAtWork, OurKinds
<1>4. t \in GasTxs
  BY <1>1, <1>3 DEF GasTxs, GasInv
<1> HIDE DEF t
<1>5. GasInv' /\ PlaceInv'
  BY <1>1, <1>2, <1>3, <1>4, NoJobParts, PlaceCompletes
<1> QED BY <1>2, <1>5, SenderRests

LEMMA PlaceProcessGas ==
    ASSUME MovingInv, OneInv, SenderInv, GasInv, PlaceInv, NEW a \in Depositors, ProcessGas(a)
    PROVE  GasInv' /\ PlaceInv' /\ SenderInv'
<1>1. PICK t \in jobs :
          /\ t.kind = "gas"
          /\ IF t \in recorded \ completed
             THEN completed' = completed \cup {t} /\ toSend' = toSend \cup {t.row}
             ELSE UNCHANGED <<completed, toSend>>
  BY DEF ProcessGas, TakesJob
<1>2. UNCHANGED <<blocks, pool, recorded, checks, toGas, gasWorker>>
  BY DEF ProcessGas, workVars
<1>3. CASE t \in recorded \ completed
  <2>1. t.row \in Rows /\ t \in Range(blocks)
    BY <1>3, OurKinds DEF MovingInv, CoinSound, SoundInv, ChainSound
  <2>2. t \in GasTxs
    BY <1>1, <1>3, <2>1 DEF GasTxs
  <2>3. GasInv' /\ PlaceInv'
    BY <1>1, <1>2, <1>3, <2>1, <2>2, PlaceCompletes
  <2> QED BY <1>2, <2>3, SenderRests
<1>4. CASE UNCHANGED <<completed, toSend>>
  <2>1. KeeperNonce' = KeeperNonce /\ GasTxs' = GasTxs
    BY <1>2, <1>4 DEF KeeperNonce, GasTxs
  <2>2. GasInv' /\ \A r : GasLive(r)' => GasLive(r)
    BY <1>2, <2>1, GasRemains
  <2>3. \A r : HasSend(r)' => HasSend(r)
    BY <1>2, SendsRest
  <2> QED BY <1>2, <1>4, <2>2, <2>3, PlaceLeaves, SenderRests
<1> QED BY <1>1, <1>3, <1>4

LEMMA PlaceMine ==
    ASSUME MovingInv, OneInv, SenderInv, GasInv, PlaceInv, Mine, "early" \notin ChainRaces
    PROVE  GasInv' /\ PlaceInv' /\ SenderInv'
<1>1. PICK t \in pool : /\ IsWritten(t) /\ blocks' = Append(blocks, t)
                        /\ pool' = {p \in pool : ~SameSender(p, t) \/ p.nonce > t.nonce}
  BY DEF Mine
<1>2. UNCHANGED <<recorded, completed, checks, toSend, toGas, gasWorker>>
  BY DEF Mine, queueVars, workVars
<1>3. Range(blocks') = Range(blocks) \cup {t}
  BY <1>1, RangeAppend DEF MovingInv, SoundInv, ChainSound
<1>4. GasTxs' \subseteq GasTxs
  BY <1>1, <1>2, <1>3 DEF GasTxs
<1>5. GasMayCome' => GasMayCome
  <2>1. KeeperNonce \in Nat /\ (KeeperNonce' = KeeperNonce \/ KeeperNonce' = KeeperNonce + 1)
    BY <1>1, NonceParts, NonceAppend DEF MovingInv, SoundInv
  <2>2. gasWorker.step # "idle" => gasWorker.tx.nonce \in Nat
    BY GasNonces
  <2> QED BY <1>2, <2>1, <2>2 DEF GasMayCome
<1>6. gasWorker.step = "record" => \A u \in GasTxs' : u.row = gasWorker.row => u \notin Range(blocks')
  BY <1>1, <1>3, <1>4 DEF GasInv, IsWritten
<1>7. \A r : GasUnderWay(r)' => GasUnderWay(r)
  BY <1>4 DEF GasUnderWay, GasTxs
<1>8. \A r : GasLive(r)' => GasLive(r)
  BY <1>2, <1>5, <1>7 DEF GasLive
<1>9. GasInv'
  <2> HIDE DEF GasTxs
  <2> QED BY <1>2, <1>4, <1>5, <1>6 DEF GasInv
<1>10. SenderInv' /\ Sends' \subseteq Sends
  BY <1>1, SenderMine
<1>11. \A r : HasSend(r)' => HasSend(r)
  BY <1>10 DEF HasSend
<1> QED BY <1>2, <1>8, <1>9, <1>10, <1>11, PlaceLeaves

-----------------------------------------------------------------------------
(* The other steps.                                                        *)

LEMMA GasStays ==
    ASSUME GasInv, UNCHANGED <<blocks, gasWorker>>, recorded \subseteq recorded',
           \A t \in recorded' \ recorded : t.kind # "gas", completed \subseteq completed',
           \A t \in pool' \ pool : t.kind # "gas"
    PROVE  GasInv' /\ \A r : GasLive(r)' => GasLive(r)
<1>1. KeeperNonce' = KeeperNonce
  BY DEF KeeperNonce
<1>2. GasTxs' \subseteq GasTxs
  BY DEF GasTxs
<1> QED BY <1>1, <1>2, GasRemains

LEMMA PlaceCheckBalances ==
    ASSUME MovingInv, OneInv, SenderInv, GasInv, PlaceInv, SentInv, CheckBalances,
           "overdue" \notin ChainRaces
    PROVE  GasInv' /\ PlaceInv' /\ SenderInv'
<1>1. PICK T \in OnePerWallet(ReadyForAccumulation) :
          /\ \A r \in T \cup ExternalReady, q \in Rows : WalletOf(q) = WalletOf(r) => Quiet(q)
          /\ checks' = checks \cup T \cup ExternalReady
  BY DEF CheckBalances
<1>2. UNCHANGED <<blocks, pool, recorded, completed, toSend, toGas, gasWorker>>
  BY DEF CheckBalances, scanVars, coinVars, workVars
<1>3. ExternalReady = {}
  BY DEF ExternalReady, OneInv, PlainRows
<1>4. T \subseteq Rows /\ T \subseteq ReadyForAccumulation
  BY DEF OnePerWallet, ReadyForAccumulation
<1>5. GasInv' /\ \A r : GasLive(r)' => GasLive(r)
  BY <1>2, GasStays
<1>6. \A r : HasSend(r)' => HasSend(r)
  BY <1>2, SendsRest
<1>7. ASSUME NEW r \in T PROVE Place(r)'
  <2>1. Quiet(r)
    BY <1>1, <1>4, <1>7
  <2>2. r \notin toSend /\ r \notin toGas
    BY <2>1 DEF Quiet
  <2>3. ~GasLive(r)
    <3>1. ~GasUnderWay(r)
      <4> SUFFICES ASSUME NEW t \in recorded \ completed, t.kind = "gas", t.row = r,
                          t \in pool \cup Range(blocks)
                   PROVE  FALSE
        BY DEF GasUnderWay
      <4>1. t \in pool \cup jobs \/ Unscanned(t)
        BY DEF OneInv, GasFollowed
      <4> QED BY <2>1, <4>1 DEF Quiet, Unscanned, OutKinds
    <3> QED BY <2>1, <3>1 DEF GasLive, Quiet
  <2>4. ~HasSend(r)
    <3> SUFFICES ASSUME NEW t \in Sends, t.row = r PROVE FALSE
      BY DEF HasSend
    <3>1. ~Carried(t)
      BY <2>1, AccumulatorAtWork DEF Carried, Quiet
    <3>2. InProgress(row[r]) \/ Settled(r)
      BY <3>1 DEF SentInv
    <3>3. Ready(r) /\ ~NotReady(r)
      BY <1>4, <1>7 DEF ReadyForAccumulation
    <3> QED BY <3>2, <3>3 DEF InProgress, Settled, Ready, NotReady, ReadyStates
  <2> QED BY <1>2, <1>5, <1>6, <2>2, <2>3, <2>4 DEF Place
<1>8. \A q \in Rows \ T : /\ q \in checks' => q \in checks
                          /\ q \in toSend' => q \in toSend
                          /\ q \in toGas' => q \in toGas
                          /\ GasLive(q)' => GasLive(q)
                          /\ HasSend(q)' => HasSend(q)
  BY <1>1, <1>2, <1>3, <1>5, <1>6
<1> QED BY <1>2, <1>5, <1>7, <1>8, PlaceStep, SenderRests

LEMMA PlaceCheckBalance ==
    ASSUME MovingInv, SenderInv, GasInv, PlaceInv, CheckBalance
    PROVE  GasInv' /\ PlaceInv' /\ SenderInv'
<1>1. PICK r \in checks : /\ checks' = checks \ {r}
                          /\ \/ toGas' = toGas \cup {r} /\ UNCHANGED toSend
                             \/ toSend' = toSend \cup {r} /\ UNCHANGED toGas
  BY DEF CheckBalance, Splits
<1>2. UNCHANGED <<blocks, pool, recorded, completed, gasWorker>>
  BY DEF CheckBalance, scanVars, coinVars, workVars
<1>3. GasInv' /\ \A q : GasLive(q)' => GasLive(q)
  BY <1>2, GasStays
<1>4. \A q : HasSend(q)' => HasSend(q)
  BY <1>2, SendsRest
<1>5. r \in Rows /\ r \notin toSend /\ r \notin toGas /\ ~GasLive(r) /\ ~HasSend(r)
  BY PlaceParts DEF MovingInv, CoinSound
<1>6. Place(r)'
  BY <1>1, <1>3, <1>4, <1>5 DEF Place
<1> DEFINE X == {r}
<1>7. \A q \in Rows \ X : /\ q \in checks' => q \in checks
                          /\ q \in toSend' => q \in toSend
                          /\ q \in toGas' => q \in toGas
                          /\ GasLive(q)' => GasLive(q)
                          /\ HasSend(q)' => HasSend(q)
  BY <1>1, <1>3, <1>4
<1>8. \A q \in X : Place(q)'
  BY <1>6
<1> HIDE DEF X
<1> QED BY <1>2, <1>3, <1>7, <1>8, PlaceStep, SenderRests

LEMMA PlaceSendAccumulation ==
    ASSUME MovingInv, OneInv, SenderInv, GasInv, PlaceInv, NEW a \in Accumulators, SendAccumulation(a)
    PROVE  GasInv' /\ PlaceInv' /\ SenderInv'
<1>1. PICK r \in toSend :
          LET w == WalletOf(r)
              t == [kind |-> IF row[r].external THEN "external" ELSE "accumulate", row |-> r,
                    nonce |-> WalletNonce(w), price |-> 1]
          IN  /\ toSend' = toSend \ {r}
              /\ \/ NodeAccepts(t) /\ pool' = pool \cup {t}
                 \/ UNCHANGED pool
  BY DEF SendAccumulation
<1> DEFINE t == [kind |-> IF row[r].external THEN "external" ELSE "accumulate", row |-> r,
                 nonce |-> WalletNonce(WalletOf(r)), price |-> 1]
<1>2. toSend' = toSend \ {r} /\ ((NodeAccepts(t) /\ pool' = pool \cup {t}) \/ UNCHANGED pool)
  BY <1>1
<1>3. UNCHANGED <<blocks, recorded, completed, checks, toGas, gasWorker>>
  BY DEF SendAccumulation, depositVars, scanVars
<1>4. r \in Rows /\ r \notin checks /\ r \notin toGas /\ ~GasLive(r) /\ ~HasSend(r)
  BY PlaceParts DEF MovingInv, CoinSound
<1>5. t.kind = "accumulate" /\ t.row = r /\ t.nonce = WalletNonce(WalletOf(r)) /\ t.price = 1
  BY <1>4 DEF OneInv, PlainRows
<1> HIDE DEF t
<1>6. GasInv' /\ \A q : GasLive(q)' => GasLive(q)
  BY <1>2, <1>3, <1>5, GasStays
<1>7. \A q : HasSend(q)' => HasSend(q) \/ q = r
  BY <1>2, <1>3, <1>5 DEF HasSend, Sends
<1>8. SenderInv'
  BY <1>2, <1>3, <1>4, <1>5, SenderSends, SenderRests
<1>9. Place(r)'
  BY <1>2, <1>3, <1>4, <1>6 DEF Place
<1> DEFINE X == {r}
<1>10. \A q \in Rows \ X : /\ q \in checks' => q \in checks
                           /\ q \in toSend' => q \in toSend
                           /\ q \in toGas' => q \in toGas
                           /\ GasLive(q)' => GasLive(q)
                           /\ HasSend(q)' => HasSend(q)
  BY <1>2, <1>3, <1>6, <1>7
<1>11. \A q \in X : Place(q)'
  BY <1>9
<1> HIDE DEF X
<1> QED BY <1>6, <1>8, <1>10, <1>11, PlaceStep

(* Steps that send nothing and hand no row on. *)
LEMMA PlaceRests ==
    ASSUME SenderInv, GasInv, PlaceInv, UNCHANGED <<blocks, pool, gasWorker>>,
           recorded \subseteq recorded', \A t \in recorded' \ recorded : t.kind # "gas",
           completed \subseteq completed',
           checks' \subseteq checks, toSend' \subseteq toSend, toGas' \subseteq toGas
    PROVE  GasInv' /\ PlaceInv' /\ SenderInv'
<1>1. GasInv' /\ \A r : GasLive(r)' => GasLive(r)
  BY GasStays
<1>2. \A r : HasSend(r)' => HasSend(r)
  BY SendsRest
<1> QED BY <1>1, <1>2, PlaceLeaves, SenderRests

LEMMA PlaceAccumulators ==
    ASSUME MovingInv, SenderInv, GasInv, PlaceInv, NEW a \in Accumulators,
           CoinNotSent(a) \/ RecordAccumulation(a) \/ MarkInProgress(a)
    PROVE  GasInv' /\ PlaceInv' /\ SenderInv'
<1>1. CASE CoinNotSent(a)
  <2>1. UNCHANGED <<blocks, pool, gasWorker, recorded, completed, checks, toGas>> /\ toSend' \subseteq toSend
    BY <1>1 DEF CoinNotSent, scanVars, coinVars
  <2> QED BY <2>1, PlaceRests
<1>2. CASE RecordAccumulation(a)
  <2>1. /\ accumulator[a].step # "idle" /\ recorded' = recorded \cup {accumulator[a].tx}
        /\ UNCHANGED <<blocks, pool, gasWorker, completed, checks, toSend, toGas>>
    BY <1>2 DEF RecordAccumulation, depositVars, scanVars, queueVars
  <2>2. accumulator[a].tx.kind # "gas"
    BY <2>1, AccumulatorAtWork DEF OutKinds
  <2> QED BY <2>1, <2>2, PlaceRests
<1>3. CASE MarkInProgress(a)
  <2>1. UNCHANGED <<blocks, pool, gasWorker, recorded, completed, checks, toSend, toGas>>
    BY <1>3 DEF MarkInProgress, scanVars, coinVars, queueVars
  <2> QED BY <2>1, PlaceRests
<1> QED BY <1>1, <1>2, <1>3

LEMMA PlaceProcesses ==
    ASSUME SenderInv, GasInv, PlaceInv, NEW a \in Depositors, ProcessAccumulation(a) \/ ProcessDust(a)
    PROVE  GasInv' /\ PlaceInv' /\ SenderInv'
<1>1. /\ UNCHANGED <<blocks, pool, gasWorker, recorded, checks, toSend, toGas>>
      /\ completed \subseteq completed'
  BY DEF ProcessAccumulation, ProcessDust, coinVars, queueVars, workVars
<1> QED BY <1>1, PlaceRests

LEMMA PlaceDeposits ==
    ASSUME MovingInv, SenderInv, GasInv, PlaceInv, [Next]_depositVars, UNCHANGED accumulationVars
    PROVE  GasInv' /\ PlaceInv' /\ SenderInv'
<1>1. UNCHANGED <<pool, recorded, completed, checks, toSend, toGas, gasWorker>>
  BY DEF accumulationVars, coinVars, queueVars, workVars
<1>2. CASE UserTransfers
  <2>1. PICK d \in Deposits : blocks' = Append(blocks, Transfer(d))
    BY <1>2 DEF UserTransfers
  <2> DEFINE t == Transfer(d)
  <2>2. t.kind = "deposit" /\ blocks' = Append(blocks, t)
    BY <2>1, TransferParts
  <2> HIDE DEF t
  <2>3. KeeperNonce' = KeeperNonce
    BY <2>2, NonceAppend DEF MovingInv, SoundInv
  <2>4. Range(blocks') = Range(blocks) \cup {t}
    BY <2>2, RangeAppend DEF MovingInv, SoundInv, ChainSound
  <2>5. GasTxs' \subseteq GasTxs
    BY <1>1, <2>2, <2>4 DEF GasTxs
  <2>6. GasInv' /\ \A r : GasLive(r)' => GasLive(r)
    BY <1>1, <2>2, <2>3, <2>4, <2>5, GasRemains
  <2>7. \A r : HasSend(r)' => HasSend(r)
    BY <1>1, <2>2, <2>4, SendsRest
  <2>8. SenderInv'
    BY <1>1, <2>2, SenderTransfer
  <2> QED BY <1>1, <2>6, <2>7, <2>8, PlaceLeaves
<1>3. CASE UNCHANGED blocks
  BY <1>1, <1>3, PlaceRests
<1>4. UserTransfers \/ UNCHANGED blocks
  BY DEF Next, Credits, UserTransfers, StartScan, ProcessBlocks, ScanDies, ProcessDeposit, JobDies,
         CheckDepositScoring, AdminActs, RunHandler, Crash, WalletBlocks, CheckScores,
         depositVars, scanVars
<1> QED BY <1>2, <1>3, <1>4

-----------------------------------------------------------------------------
(* What was sent.                                                          *)

(* The row of what was sent is there and beyond the early states. *)
LEMMA SentRow ==
    ASSUME MovingInv, EarlyInv, SenderInv, SentInv, NEW t \in Sends
    PROVE  /\ t.kind = "accumulate" /\ t \in OurTxs /\ t.row \in Rows /\ t.nonce \in Nat
           /\ Exists(t.row) /\ row[t.row].state \notin Early
           /\ t.row[2] = 1 /\ t.row[1] \in Arrived \ Failed
<1>1. t.kind = "accumulate" /\ t \in OurTxs /\ t.row \in Rows /\ t.nonce \in Nat
  BY SendIs, SendParts
<1>2. Exists(t.row) /\ row[t.row].state \notin Early
  <2>1. CASE Carried(t)
    <3>1. t.row \in Touched \ {NoId}
      BY <2>1, AccumulatorAtWork DEF Carried
    <3> QED BY <3>1 DEF MovingInv, TouchedExist, EarlyInv, TouchedLate
  <2>2. CASE InProgress(row[t.row]) \/ Settled(t.row)
    BY <2>2 DEF InProgress, Settled, Exists, Early, KytStates
  <2> QED BY <2>1, <2>2 DEF SentInv
<1> QED BY <1>1, <1>2 DEF EarlyInv

LEMMA BlocksFinite == ASSUME ChainSound PROVE IsFiniteSet(Range(blocks))
<1>1. Len(blocks) \in Nat /\ blocks \in [1 .. Len(blocks) -> Transfers \cup OurTxs]
  BY DEF ChainSound
<1>2. Range(blocks) = {blocks[i] : i \in 1 .. Len(blocks)}
  BY RangeIs DEF ChainSound
<1>3. blocks \in Surjection(1 .. Len(blocks), Range(blocks))
  BY <1>1, <1>2 DEF Surjection
<1> QED BY <1>1, <1>3, FS_Interval, FS_Surjection

(* A wallet holds more transfers than were sent of it, until the last one  *)
(* is mined: each row is sent once and stands for a transfer of its own.   *)
LEMMA HeldIsThere ==
    ASSUME MovingInv, OneInv, EarlyInv, SenderInv, SentInv, NEW t \in pool, t.kind = "accumulate"
    PROVE  Held(WalletOf(t.row)) # 0
<1> DEFINE w == WalletOf(t.row)
           S == {u \in Range(blocks) : u.kind = "deposit" /\ WalletOf(u.row) = w /\ u.row[1] \notin Failed}
           D == {u \in done : u.kind \in OutKinds /\ WalletOf(u.row) = w}
           E == D \cup {t}
           f == [u \in E |-> Transfer(u.row[1])]
<1>1. t \in Sends /\ t \notin Range(blocks)
  BY PoolIsNew DEF Sends
<1>2. IsFiniteSet(Range(blocks)) /\ S \subseteq Range(blocks) /\ D \subseteq Range(blocks)
  BY BlocksFinite DEF MovingInv, SoundInv, CoinSound
<1>3. IsFiniteSet(S) /\ IsFiniteSet(D)
  <2> HIDE DEF S, D
  <2> QED BY <1>2, FS_Subset
<1>4. \A u \in E : u \in Sends /\ WalletOf(u.row) = w
  <2>1. \A u \in D : u \in Sends
    <3> SUFFICES ASSUME NEW u \in D PROVE u \in Sends
      OBVIOUS
    <3>1. u \in Range(blocks) /\ u.kind \in OutKinds
      BY <1>2
    <3> QED BY <3>1, SendParts
  <2> QED BY <1>1, <2>1
<1>5. ASSUME NEW u \in E
      PROVE  f[u] \in S /\ f[u].row = u.row
  <2>1. /\ u.row \in Rows /\ u.row[2] = 1 /\ u.row[1] \in Arrived \ Failed
        /\ u.row[1] \in Deposits
    BY <1>4, SentRow DEF Arrived
  <2>2. u.row = <<u.row[1], 1>>
    BY <2>1 DEF Rows
  <2>3. f[u] = Transfer(u.row[1])
    OBVIOUS
  <2>4. /\ Transfer(u.row[1]).kind = "deposit" /\ Transfer(u.row[1]).row = u.row
        /\ Transfer(u.row[1]) \in Range(blocks)
    BY <2>1, <2>2, TransferParts DEF Arrived
  <2> HIDE DEF f
  <2> QED BY <1>4, <2>1, <2>3, <2>4
<1>6. f \in Injection(E, S)
  <2>1. f \in [E -> S]
    BY <1>5
  <2>2. ASSUME NEW u \in E, NEW v \in E, f[u] = f[v] PROVE u = v
    <3>1. u.row = v.row
      BY <1>5, <2>2
    <3> QED BY <1>4, <3>1 DEF SenderInv
  <2> HIDE DEF f, E, S
  <2> QED BY <2>1, <2>2 DEF Injection, IsInjective
<1>7. t \notin D
  BY <1>1, <1>2
<1> HIDE DEF f, S, D, w
<1>8. Cardinality(E) = Cardinality(D) + 1
  BY <1>3, <1>7, FS_AddElement
<1> HIDE DEF E
<1>9. Cardinality(E) <= Cardinality(S)
  BY <1>3, <1>6, FS_Injection
<1>10. Cardinality(S) \in Nat /\ Cardinality(D) \in Nat
  BY <1>3, FS_CardinalityType
<1>11. Cardinality(S) - Cardinality(D) # 0
  BY <1>8, <1>9, <1>10
<1> QED BY <1>11 DEF Held, S, D, w

(* What is known of what was sent stays, and rows that something was sent  *)
(* for are left alone.                                                     *)
LEMMA SentRests ==
    ASSUME MovingInv, SenderInv, SentInv, UNCHANGED accumulator, Sends' \subseteq Sends,
           \A t \in pool : t.kind = "accumulate" => t \in pool',
           Range(blocks) \subseteq Range(blocks)',
           \A t \in Range(blocks)' : t.kind = "accumulate" => t \in Range(blocks),
           done \subseteq done', recorded \subseteq recorded',
           \A t \in completed' \ completed : t.kind # "accumulate" /\ t \in Range(blocks)',
           \A r \in Rows : row'[r] = row[r] \/ (~HasSend(r) /\ ~InProgress(row'[r])),
           \A t : t.kind = "accumulate" /\ (t \in jobs \/ Unscanned(t)) => t \in jobs' \/ Unscanned(t)'
    PROVE  SentInv'
<1>1. \A t \in Sends : t.row \in Rows /\ HasSend(t.row)
  BY SendIs, SendParts
<1>2. \A t \in Sends' : Carried(t)' \/ InProgress(row'[t.row]) \/ Settled(t.row)'
  BY <1>1 DEF SentInv, Carried, Settled
<1>3. \A t \in Sends' : t \in Range(blocks)' => t \in done'
  <2>1. \A t \in Sends : t.kind = "accumulate"
    BY DEF Sends
  <2> QED BY <2>1 DEF SentInv
<1>4. ASSUME NEW a \in Accumulators
      PROVE  /\ accumulator'[a].step # "idle" =>
                    accumulator'[a].tx \in pool' /\ accumulator'[a].seen # "ACCUMULATION_IN_PROGRESS"
             /\ accumulator'[a].step = "mark" => accumulator'[a].tx \in recorded'
  <2>1. accumulator[a].step # "idle" => accumulator[a].tx \in pool /\ accumulator[a].tx.kind = "accumulate"
    BY AccumulatorAtWork, SendParts DEF SentInv
  <2> QED BY <2>1 DEF SentInv
<1>5. completed' \subseteq Range(blocks)'
  BY DEF SentInv
<1>6. ASSUME NEW r \in Rows, InProgress(row'[r])
      PROVE  \E t \in Sent(r)' \cap (recorded' \ completed') : t \in pool' \cup jobs' \/ Unscanned(t)'
  <2>1. PICK t \in Sent(r) \cap (recorded \ completed) : t \in pool \cup jobs \/ Unscanned(t)
    BY <1>6 DEF SentInv, InProgressIsFollowed, InProgress, Unscanned
  <2>2. t.row = r /\ t.kind \in OutKinds /\ t \in pool \cup Range(blocks)
    BY <2>1 DEF Sent
  <2>3. t.kind = "accumulate"
    BY <2>2, SendParts
  <2>4. t \in pool' \cup Range(blocks)'
    BY <2>2, <2>3
  <2> QED BY <2>1, <2>2, <2>3, <2>4 DEF Sent
<1>7. InProgressIsFollowed'
  BY <1>6 DEF InProgressIsFollowed, InProgress, Unscanned
<1> QED BY <1>2, <1>3, <1>4, <1>5, <1>7 DEF SentInv

LEMMA WritesOne ==
    ASSUME RowsSound, NEW r \in Rows, NEW s, SetsState(r, s)
    PROVE  row'[r].state = s /\ \A q \in Rows \ {r} : row'[q] = row[q]
<1> DEFINE x == [row[r] EXCEPT !.state = s]
<1>1. row[r] \in Row \cup {NoRow}
  BY DEF RowsSound, RowTypeInv
<1>2. x.state = s
  BY <1>1 DEF Row, NoRow
<1>3. row' = [row EXCEPT ![r] = x]
  BY DEF SetsState
<1> HIDE DEF x
<1> QED BY <1>2, <1>3 DEF RowsSound, RowTypeInv

(* Tasks that send no accumulation and complete none. *)
LEMMA SentTasks ==
    ASSUME MovingInv, SenderInv, SentInv, UNCHANGED <<accumulator, blocks, last, done>>,
           pool \subseteq pool', \A t \in pool' \ pool : t.kind = "gas", recorded \subseteq recorded',
           \A t \in completed' \ completed : t.kind = "gas" /\ t \in Range(blocks),
           \A t \in jobs \ jobs' : t.kind # "accumulate",
           \/ row' = row
           \/ \E r \in Rows, s \in States \ {"ACCUMULATION_IN_PROGRESS"} : SetsState(r, s) /\ ~HasSend(r)
    PROVE  SentInv'
<1>1. \A r \in Rows : row'[r] = row[r] \/ (~HasSend(r) /\ ~InProgress(row'[r]))
  BY WritesOne DEF InProgress, MovingInv, SoundInv
<1>2. Sends' \subseteq Sends
  BY SendsRest
<1>3. \A t : t.kind = "accumulate" /\ (t \in jobs \/ Unscanned(t)) => t \in jobs' \/ Unscanned(t)'
  BY DEF Unscanned
<1> QED BY <1>1, <1>2, <1>3, SentRests

LEMMA SentTask ==
    ASSUME MovingInv, PlaceInv, NEW r, r \in checks \cup toSend \cup toGas PROVE r \in Rows /\ ~HasSend(r)
BY PlaceParts DEF MovingInv, CoinSound

LEMMA PlainStates ==
    {"READY_FOR_ACCUMULATION", "GAS_REQUIRED", "GAS_PRICE_TOO_HIGH", "BALANCE_TOO_LOW",
     "WAITING_FOR_GAS"} \subseteq States \ {"ACCUMULATION_IN_PROGRESS"}
BY DEF States, ReadyStates

LEMMA SentChecks ==
    ASSUME MovingInv, SenderInv, PlaceInv, SentInv, CheckBalances \/ CheckBalance PROVE SentInv'
<1>1. UNCHANGED <<accumulator, blocks, last, done, pool, recorded, completed, jobs>>
  BY DEF CheckBalances, CheckBalance, scanVars, coinVars, workVars
<1>2. CASE CheckBalances
  <2>1. row' = row
    BY <1>2 DEF CheckBalances, rowVars, walletVars
  <2> QED BY <1>1, <2>1, SentTasks
<1>3. CASE CheckBalance
  <2>1. PICK r \in checks : SetsState(r, "GAS_REQUIRED") \/ SetsState(r, "READY_FOR_ACCUMULATION")
    BY <1>3 DEF CheckBalance, Splits
  <2> QED BY <1>1, <2>1, SentTask, PlainStates, SentTasks
<1> QED BY <1>2, <1>3

LEMMA SentCoinNotSent ==
    ASSUME MovingInv, SenderInv, PlaceInv, SentInv, NEW a \in Accumulators, CoinNotSent(a)
    PROVE  SentInv'
<1>1. UNCHANGED <<accumulator, blocks, last, done, pool, recorded, completed, jobs>>
  BY DEF CoinNotSent, scanVars, coinVars
<1>2. PICK r \in toSend : SetsState(r, "GAS_PRICE_TOO_HIGH") \/ SetsState(r, "BALANCE_TOO_LOW")
  BY DEF CoinNotSent
<1> QED BY <1>1, <1>2, SentTask, PlainStates, SentTasks

(* The gas worker writes rows that nothing was sent for. *)
LEMMA SentGasWorker ==
    ASSUME MovingInv, OneInv, SenderInv, GasInv, PlaceInv, SentInv, "late" \notin ChainRaces,
           SendGas \/ GasNotSent \/ RecordGas \/ GasReceipt \/ GasTimeout
    PROVE  SentInv'
<1>1. gasWorker.step # "idle" => gasWorker.row \in Rows
  BY GasWorkerAtWork, TouchedRows DEF MovingInv
<1>2. gasWorker.step # "idle" /\ GasLive(gasWorker.row) => ~HasSend(gasWorker.row)
  BY <1>1, PlaceParts
<1>3. CASE SendGas
  <2>1. PICK r \in toGas, p \in 1 .. MaxPrice :
            LET t == [kind |-> "gas", row |-> r, nonce |-> KeeperNonce, price |-> p]
            IN  pool' = pool \cup {t} \/ UNCHANGED pool
    BY <1>3 DEF SendGas
  <2> DEFINE t == [kind |-> "gas", row |-> r, nonce |-> KeeperNonce, price |-> p]
  <2>2. t.kind = "gas" /\ (pool' = pool \cup {t} \/ UNCHANGED pool)
    BY <2>1
  <2> HIDE DEF t
  <2>3. UNCHANGED <<row, accumulator, blocks, last, done, recorded, completed, jobs>>
    BY <1>3 DEF SendGas, depositVars, rowVars, walletVars, scanVars
  <2> QED BY <2>2, <2>3, SentTasks
<1>4. CASE GasNotSent
  <2>1. UNCHANGED <<accumulator, blocks, last, done, pool, recorded, completed, jobs>>
    BY <1>4 DEF GasNotSent, scanVars, coinVars
  <2>2. PICK r : /\ SetsState(r, "GAS_PRICE_TOO_HIGH")
                 /\ \/ r \in toGas
                    \/ /\ r = gasWorker.row /\ gasWorker.step = "receipt"
                       /\ gasWorker.tx.nonce >= KeeperNonce
    BY <1>4 DEF GasNotSent
  <2>3. r \in Rows /\ ~HasSend(r)
    BY <1>1, <1>2, <2>2, SentTask DEF GasLive, GasMayCome
  <2> QED BY <2>1, <2>2, <2>3, PlainStates, SentTasks
<1>5. CASE RecordGas
  <2>1. /\ gasWorker.step = "record" /\ recorded \subseteq recorded'
        /\ SetsState(gasWorker.row, "WAITING_FOR_GAS") \/ row' = row
        /\ UNCHANGED <<accumulator, blocks, last, done, pool, completed, jobs>>
    BY <1>5 DEF RecordGas, Marks, scanVars
  <2>2. gasWorker.row \in Rows /\ ~HasSend(gasWorker.row)
    BY <1>1, <1>2, <2>1 DEF GasLive, GasMayCome
  <2> QED BY <2>1, <2>2, PlainStates, SentTasks
<1>6. CASE GasReceipt
  <2> DEFINE t == gasWorker.tx
  <2>1. /\ gasWorker.step = "receipt" /\ t \in Range(blocks) /\ t \notin completed
        /\ completed' = completed \cup {t} /\ SetsState(gasWorker.row, "READY_FOR_ACCUMULATION")
        /\ UNCHANGED <<accumulator, blocks, last, done, pool, recorded, jobs>>
    BY <1>6 DEF GasReceipt, scanVars
  <2>2. t.row = gasWorker.row /\ t.kind = "gas"
    BY <2>1, GasWorkerAtWork
  <2>3. t \in GasTxs
    BY <2>1, <2>2 DEF GasTxs, GasInv
  <2> HIDE DEF t
  <2>4. gasWorker.row \in Rows /\ ~HasSend(gasWorker.row)
    BY <1>1, <1>2, <2>1, <2>2, <2>3, GasMined
  <2> QED BY <2>1, <2>2, <2>4, PlainStates, SentTasks
<1>7. CASE GasTimeout
  <2> DEFINE t == [gasWorker.tx EXCEPT !.price = @ + 1]
  <2>1. gasWorker.step = "receipt" /\ (pool' = pool \cup {t} \/ UNCHANGED pool)
    BY <1>7 DEF GasTimeout
  <2>2. t.kind = "gas"
    BY <2>1, GasWorkerAtWork DEF OurTxs, Tx
  <2> HIDE DEF t
  <2>3. UNCHANGED <<row, accumulator, blocks, last, done, recorded, completed, jobs>>
    BY <1>7 DEF GasTimeout, depositVars, rowVars, walletVars, scanVars
  <2> QED BY <2>1, <2>2, <2>3, SentTasks
<1> QED BY <1>3, <1>4, <1>5, <1>6, <1>7

LEMMA SentProcesses ==
    ASSUME MovingInv, OneInv, SenderInv, GasInv, PlaceInv, SentInv, NEW a \in Depositors,
           ProcessGas(a) \/ ProcessDust(a)
    PROVE  SentInv'
<1>1. UNCHANGED <<accumulator, blocks, last, done, pool, recorded>>
  BY DEF ProcessGas, ProcessDust, coinVars, workVars
<1>2. PICK t \in jobs :
          /\ t.kind # "accumulate" /\ jobs' = jobs \ {t}
          /\ \/ /\ t.kind = "gas" /\ t \in recorded \ completed
                /\ completed' = completed \cup {t} /\ SetsState(t.row, "READY_FOR_ACCUMULATION")
             \/ UNCHANGED <<completed, row>>
  BY DEF ProcessGas, ProcessDust, TakesJob, coinVars, rowVars, walletVars
<1>3. CASE /\ t.kind = "gas" /\ t \in recorded \ completed
           /\ completed' = completed \cup {t} /\ SetsState(t.row, "READY_FOR_ACCUMULATION")
  <2>1. t.row \in Rows /\ t \in Range(blocks)
    BY <1>3, OurKinds DEF MovingInv, CoinSound, SoundInv, ChainSound
  <2>2. t \in GasTxs
    BY <1>3, <2>1 DEF GasTxs
  <2>3. ~HasSend(t.row)
    BY <2>1, <2>2, GasMined, PlaceParts
  <2> QED BY <1>1, <1>2, <1>3, <2>1, <2>3, PlainStates, SentTasks
<1>4. CASE UNCHANGED <<completed, row>>
  BY <1>1, <1>2, <1>4, SentTasks
<1> QED BY <1>2, <1>3, <1>4

(* The accumulators' steps.                                                *)

LEMMA SentSends ==
    ASSUME MovingInv, OneInv, SenderInv, PlaceInv, SentInv, NEW a \in Accumulators, SendAccumulation(a)
    PROVE  SentInv'
<1>1. PICK r \in toSend :
          LET w == WalletOf(r)
              t == [kind |-> IF row[r].external THEN "external" ELSE "accumulate", row |-> r,
                    nonce |-> WalletNonce(w), price |-> 1]
          IN  /\ accumulator[a].step = "idle"
              /\ \/ /\ pool' = pool \cup {t}
                    /\ Accumulates(a, [step |-> "record", row |-> r, tx |-> t, seen |-> row[r].state])
                 \/ UNCHANGED <<pool, accumulator>>
  BY DEF SendAccumulation
<1> DEFINE t == [kind |-> IF row[r].external THEN "external" ELSE "accumulate", row |-> r,
                 nonce |-> WalletNonce(WalletOf(r)), price |-> 1]
           x == [step |-> "record", row |-> r, tx |-> t, seen |-> row[r].state]
<1>2. /\ accumulator[a].step = "idle"
      /\ \/ pool' = pool \cup {t} /\ Accumulates(a, x)
         \/ UNCHANGED <<pool, accumulator>>
  BY <1>1
<1>3. UNCHANGED <<row, blocks, last, jobs, done, recorded, completed>>
  BY DEF SendAccumulation, depositVars, rowVars, walletVars, scanVars
<1>4. r \in Rows /\ ~HasSend(r)
  BY SentTask
<1>5. t.kind = "accumulate" /\ t.row = r /\ t.nonce = WalletNonce(WalletOf(r))
      /\ x.step = "record" /\ x.tx = t /\ x.seen = row[r].state
  BY <1>4 DEF OneInv, PlainRows
<1> HIDE DEF t, x
<1>6. CASE UNCHANGED <<pool, accumulator>>
  BY <1>3, <1>6, SentTasks
<1>7. CASE pool' = pool \cup {t} /\ Accumulates(a, x)
  <2>1. accumulator'[a] = x /\ \A b \in Accumulators \ {a} : accumulator'[b] = accumulator[b]
    BY <1>7 DEF Accumulates, MovingInv, WorkSound
  <2>2. x.seen # "ACCUMULATION_IN_PROGRESS"
    <3> SUFFICES ASSUME row[r].state = "ACCUMULATION_IN_PROGRESS" PROVE FALSE
      BY <1>5
    <3>1. PICK u : u \in Sent(r)
      BY <1>4 DEF SentInv, InProgressIsFollowed
    <3> QED BY <1>4, <3>1, SendParts DEF Sent
  <2>3. t \notin Range(blocks)
    <3>1. WalletNonce(WalletOf(r)) \in Nat
      BY NonceParts DEF MovingInv, SoundInv
    <3> QED BY <1>5, <3>1 DEF SenderInv
  <2>4. Sends' \subseteq Sends \cup {t}
    BY <1>3, <1>7 DEF Sends
  <2>5. ASSUME NEW u \in Sends' PROVE Carried(u)' \/ InProgress(row'[u.row]) \/ Settled(u.row)'
    <3>1. CASE u = t
      <4>1. accumulator'[a].step # "idle" /\ accumulator'[a].tx = u
        BY <1>5, <2>1, <3>1
      <4> QED BY <4>1 DEF Carried
    <3>2. CASE u \in Sends
      <4>1. Carried(u) => Carried(u)'
        BY <1>2, <2>1 DEF Carried
      <4> QED BY <1>3, <3>2, <4>1 DEF SentInv, Settled
    <3> QED BY <2>4, <3>1, <3>2
  <2>6. \A u \in Sends' : u \in Range(blocks)' => u \in done'
    BY <1>3, <2>3, <2>4 DEF SentInv
  <2>7. \A b \in Accumulators :
           /\ accumulator'[b].step # "idle" =>
                  accumulator'[b].tx \in pool' /\ accumulator'[b].seen # "ACCUMULATION_IN_PROGRESS"
           /\ accumulator'[b].step = "mark" => accumulator'[b].tx \in recorded'
    BY <1>3, <1>5, <1>7, <2>1, <2>2 DEF SentInv
  <2>8. completed' \subseteq Range(blocks)'
    BY <1>3 DEF SentInv
  <2>9. InProgressIsFollowed'
    BY <1>3, <1>7 DEF SentInv, InProgressIsFollowed, Sent
  <2> QED BY <2>5, <2>6, <2>7, <2>8, <2>9 DEF SentInv
<1> QED BY <1>2, <1>6, <1>7

LEMMA SentRecords ==
    ASSUME MovingInv, SentInv, NEW a \in Accumulators, RecordAccumulation(a) PROVE SentInv'
<1> DEFINE x == [accumulator[a] EXCEPT !.step = "mark"]
<1>1. /\ accumulator[a].step = "record" /\ recorded' = recorded \cup {accumulator[a].tx}
      /\ Accumulates(a, x)
  BY DEF RecordAccumulation
<1>2. UNCHANGED <<row, blocks, last, jobs, pool, done, completed>>
  BY DEF RecordAccumulation, depositVars, rowVars, walletVars, scanVars
<1>3. accumulator[a] \in AccumulatorJobs
  BY DEF MovingInv, WorkSound
<1>4. x.step = "mark" /\ x.tx = accumulator[a].tx /\ x.seen = accumulator[a].seen
  BY <1>3 DEF AccumulatorJobs
<1> HIDE DEF x
<1>5. accumulator'[a] = x /\ \A b \in Accumulators \ {a} : accumulator'[b] = accumulator[b]
  BY <1>1 DEF Accumulates, MovingInv, WorkSound
<1>6. \A u : Carried(u) => Carried(u)'
  BY <1>1, <1>4, <1>5 DEF Carried
<1>7. Sends' = Sends
  BY <1>2 DEF Sends
<1>8. \A u \in Sends' : Carried(u)' \/ InProgress(row'[u.row]) \/ Settled(u.row)'
  BY <1>2, <1>6, <1>7 DEF SentInv, Settled
<1>9. \A b \in Accumulators :
           /\ accumulator'[b].step # "idle" =>
                  accumulator'[b].tx \in pool' /\ accumulator'[b].seen # "ACCUMULATION_IN_PROGRESS"
           /\ accumulator'[b].step = "mark" => accumulator'[b].tx \in recorded'
  BY <1>1, <1>2, <1>4, <1>5 DEF SentInv
<1>10. InProgressIsFollowed'
  BY <1>1, <1>2 DEF SentInv, InProgressIsFollowed, Sent
<1> QED BY <1>2, <1>7, <1>8, <1>9, <1>10 DEF SentInv

(* The row is marked when its transaction is recorded and not yet mined. *)
LEMMA SentMarks ==
    ASSUME MovingInv, OneInv, SenderInv, SentInv, NEW a \in Accumulators, MarkInProgress(a)
    PROVE  SentInv'
<1> DEFINE r == accumulator[a].row
           t == accumulator[a].tx
<1>1. /\ accumulator[a].step = "mark" /\ Accumulates(a, NoJob)
      /\ t \in pool /\ t \in recorded /\ SetsState(r, "ACCUMULATION_IN_PROGRESS")
  BY DEF MarkInProgress, Marks, SentInv
<1>2. UNCHANGED <<blocks, last, jobs, pool, done, recorded, completed>>
  BY DEF MarkInProgress, scanVars, coinVars
<1>3. r \in Rows /\ t.row = r /\ t.kind \in OutKinds
  BY <1>1, AccumulatorAtWork, TouchedRows DEF MovingInv
<1>4. accumulator'[a] = NoJob /\ \A b \in Accumulators \ {a} : accumulator'[b] = accumulator[b]
  BY <1>1 DEF Accumulates, MovingInv, WorkSound
<1>5. \A u : Carried(u) => Carried(u)' \/ u = t
  BY <1>4 DEF Carried
<1>6. NoJob.step = "idle"
  BY NoJobParts
<1> HIDE DEF r, t
<1>7. row'[r].state = "ACCUMULATION_IN_PROGRESS" /\ \A q \in Rows \ {r} : row'[q] = row[q]
  BY <1>1, <1>3, WritesOne DEF MovingInv, SoundInv
<1>8. Sends' = Sends /\ \A u \in Sends : u.row \in Rows
  BY <1>2, SendIs, SendParts DEF Sends
<1>9. ASSUME NEW u \in Sends PROVE Carried(u)' \/ InProgress(row'[u.row]) \/ Settled(u.row)'
  <2>1. CASE u.row = r
    BY <1>7, <2>1 DEF InProgress
  <2>2. CASE u.row # r
    BY <1>3, <1>5, <1>7, <1>8, <2>2 DEF SentInv, Settled
  <2> QED BY <2>1, <2>2
<1>10. \A b \in Accumulators :
           /\ accumulator'[b].step # "idle" =>
                  accumulator'[b].tx \in pool' /\ accumulator'[b].seen # "ACCUMULATION_IN_PROGRESS"
           /\ accumulator'[b].step = "mark" => accumulator'[b].tx \in recorded'
  BY <1>2, <1>4, <1>6 DEF SentInv
<1>11. t \notin completed
  BY <1>1, PoolIsNew DEF SentInv
<1>12. InProgressIsFollowed'
  <2> SUFFICES ASSUME NEW q \in Rows, row'[q].state = "ACCUMULATION_IN_PROGRESS"
               PROVE  \E u \in Sent(q) \cap (recorded \ completed) : u \in pool \cup jobs \/ Unscanned(u)
    BY <1>2 DEF InProgressIsFollowed, Sent, Unscanned
  <2>1. CASE q = r
    BY <1>1, <1>3, <1>11, <2>1 DEF Sent
  <2>2. CASE q # r
    BY <1>7, <2>2 DEF SentInv, InProgressIsFollowed, Unscanned
  <2> QED BY <2>1, <2>2
<1> QED BY <1>2, <1>8, <1>9, <1>10, <1>12 DEF SentInv

(* The scanner's task for an accumulation that was recorded settles its    *)
(* row.                                                                    *)
LEMMA SentCompletes ==
    ASSUME MovingInv, SenderInv, SentInv, "crash" \notin Races, NEW a \in Depositors, ProcessAccumulation(a)
    PROVE  SentInv'
<1>1. PICK t \in jobs :
          /\ t.kind = "accumulate" /\ jobs' = jobs \ {t}
          /\ IF ToComplete(t) THEN completed' = completed \cup {t} /\ SetsAccumulated(t.row)
                              ELSE UNCHANGED <<completed, row>>
  BY DEF ProcessAccumulation, TakesJob
<1>2. UNCHANGED <<blocks, last, pool, done, recorded, accumulator>>
  BY DEF ProcessAccumulation, workVars
<1>3. t \in Range(blocks) /\ t \in Sends /\ t.row \in Rows
  <2>1. t \in Range(blocks)
    BY DEF MovingInv, SoundInv, ChainSound
  <2>2. t.kind \in OutKinds
    BY <1>1 DEF OutKinds
  <2> QED BY <2>1, <2>2, SendParts
<1>4. t \in done
  BY <1>3 DEF SentInv
<1>5. Sends' = Sends /\ \A u \in Sends : u.row \in Rows
  BY <1>2, SendIs, SendParts DEF Sends
<1>6. \A u : Carried(u)' <=> Carried(u)
  BY <1>2 DEF Carried
<1>7. \A u : Unscanned(u)' <=> Unscanned(u)
  BY <1>2 DEF Unscanned
<1>8. /\ \A q \in Rows \ {t.row} : row'[q] = row[q]
      /\ ToComplete(t) => Settled(t.row)'
      /\ ~ToComplete(t) => row' = row
  <2>1. CASE row' = row /\ (ToComplete(t) => Settled(t.row))
    BY <2>1 DEF Settled
  <2>2. CASE SetsState(t.row, Accumulated(t.row)) /\ ToComplete(t)
    <3>1. row'[t.row].state = Accumulated(t.row) /\ \A q \in Rows \ {t.row} : row'[q] = row[q]
      BY <1>3, <2>2, WritesOne DEF MovingInv, SoundInv
    <3> QED BY <2>2, <3>1 DEF Settled, Accumulated
  <2> QED BY <1>1, <2>1, <2>2 DEF SetsAccumulated
<1>9. completed' \subseteq completed \cup {t} /\ (t \in completed' => ToComplete(t) \/ t \in completed)
  BY <1>1
<1>10. ASSUME NEW u \in Sends PROVE Carried(u)' \/ InProgress(row'[u.row]) \/ Settled(u.row)'
  <2>1. CASE row'[u.row] = row[u.row]
    BY <1>6, <2>1 DEF SentInv, Settled
  <2>2. CASE u.row = t.row /\ ToComplete(t)
    BY <1>8, <2>2
  <2> QED BY <1>5, <1>8, <2>1, <2>2
<1>11. InProgressIsFollowed'
  <2> SUFFICES ASSUME NEW q \in Rows, row'[q].state = "ACCUMULATION_IN_PROGRESS"
               PROVE  \E u \in Sent(q) \cap (recorded \ completed') : u \in pool \cup jobs' \/ Unscanned(u)
    BY <1>2 DEF InProgressIsFollowed, Sent, Unscanned
  <2>1. ~(q = t.row /\ ToComplete(t))
    BY <1>8 DEF Settled
  <2>2. row'[q] = row[q]
    BY <1>8, <2>1
  <2>3. PICK u \in Sent(q) \cap (recorded \ completed) : u \in pool \cup jobs \/ Unscanned(u)
    BY <2>2 DEF SentInv, InProgressIsFollowed, Unscanned
  <2>4. u # t
    <3> SUFFICES ASSUME u = t PROVE FALSE
      OBVIOUS
    <3>1. ToComplete(t) /\ t.row = q
      BY <1>4, <2>3 DEF ToComplete, Sent
    <3> QED BY <2>1, <3>1
  <2> QED BY <1>1, <1>9, <2>3, <2>4
<1>12. completed' \subseteq Range(blocks)'
  BY <1>2, <1>3, <1>9 DEF SentInv
<1> QED BY <1>2, <1>5, <1>10, <1>11, <1>12 DEF SentInv

-----------------------------------------------------------------------------
(* The chain and the deposits.                                             *)

LEMMA UnscannedAppend ==
    ASSUME ChainSound, NEW t, blocks' = Append(blocks, t), UNCHANGED last
    PROVE  Unscanned(t)' /\ \A u : Unscanned(u) => Unscanned(u)'
<1>1. /\ Len(blocks) \in Nat /\ Len(blocks') = Len(blocks) + 1 /\ last \in 0 .. Len(blocks)
      /\ blocks'[Len(blocks) + 1] = t /\ \A i \in 1 .. Len(blocks) : blocks'[i] = blocks[i]
  BY DEF ChainSound
<1> QED BY <1>1 DEF Unscanned

(* An accumulation that is mined does not fail. *)
LEMMA SentMine ==
    ASSUME MovingInv, OneInv, EarlyInv, SenderInv, SentInv, Mine, "early" \notin ChainRaces
    PROVE  SentInv'
<1>1. PICK t \in pool : /\ IsWritten(t) /\ blocks' = Append(blocks, t)
                        /\ pool' = {p \in pool : ~SameSender(p, t) \/ p.nonce > t.nonce}
                        /\ done' = IF t.kind \in OutKinds /\ Held(WalletOf(t.row)) = 0
                                   THEN done ELSE done \cup {t}
  BY DEF Mine
<1>2. UNCHANGED <<row, last, jobs, recorded, completed, accumulator>>
  BY DEF Mine, rowVars, walletVars, workVars
<1>3. Range(blocks') = Range(blocks) \cup {t}
  BY <1>1, RangeAppend DEF MovingInv, SoundInv, ChainSound
<1>4. Unscanned(t)' /\ \A u : Unscanned(u) => Unscanned(u)'
  BY <1>1, <1>2, UnscannedAppend DEF MovingInv, SoundInv
<1>5. Sends' \subseteq Sends
  BY <1>1, SenderMine
<1>6. CASE t.kind = "gas"
  <2>1. \A p \in pool : p.kind = "accumulate" => p \in pool'
    BY <1>1, <1>6, PoolAfter
  <2>2. done \subseteq done'
    BY <1>1
  <2>3. \A u \in Range(blocks)' : u.kind = "accumulate" => u \in Range(blocks)
    BY <1>3, <1>6
  <2> QED BY <1>2, <1>3, <1>4, <1>5, <2>1, <2>2, <2>3, SentRests
<1>7. CASE t.kind = "accumulate"
  <2>1. pool' = pool \ {t}
    BY <1>1, <1>7, PoolAfter
  <2>2. done' = done \cup {t}
    BY <1>1, <1>7, HeldIsThere
  <2>3. \A a \in Accumulators : accumulator[a].tx # t
    BY <1>1 DEF IsWritten
  <2>4. \A u \in Sends' : Carried(u)' \/ InProgress(row'[u.row]) \/ Settled(u.row)'
    BY <1>2, <1>5 DEF SentInv, Carried, Settled
  <2>5. \A u \in Sends' : u \in Range(blocks)' => u \in done'
    BY <1>3, <1>5, <2>2 DEF SentInv
  <2>6. \A a \in Accumulators :
           /\ accumulator'[a].step # "idle" =>
                  accumulator'[a].tx \in pool' /\ accumulator'[a].seen # "ACCUMULATION_IN_PROGRESS"
           /\ accumulator'[a].step = "mark" => accumulator'[a].tx \in recorded'
    BY <1>2, <2>1, <2>3 DEF SentInv
  <2>7. completed' \subseteq Range(blocks)'
    BY <1>2, <1>3 DEF SentInv
  <2>8. ASSUME NEW r \in Rows, InProgress(row'[r])
        PROVE  \E u \in Sent(r)' \cap (recorded' \ completed') : u \in pool' \cup jobs' \/ Unscanned(u)'
    <3>1. PICK u \in Sent(r) \cap (recorded \ completed) : u \in pool \cup jobs \/ Unscanned(u)
      BY <1>2, <2>8 DEF SentInv, InProgressIsFollowed, InProgress, Unscanned
    <3>2. u \in Sent(r)'
      BY <1>3, <2>1, <3>1 DEF Sent
    <3>3. u \in pool' \cup jobs' \/ Unscanned(u)'
      BY <1>2, <1>4, <2>1, <3>1
    <3> QED BY <1>2, <3>1, <3>2, <3>3
  <2>9. InProgressIsFollowed'
    BY <2>8 DEF InProgressIsFollowed, InProgress, Unscanned
  <2> QED BY <2>4, <2>5, <2>6, <2>7, <2>9 DEF SentInv
<1> QED BY <1>6, <1>7 DEF SenderInv

(* Deposits and scans lose no accumulation. *)
LEMMA DepositsFollow ==
    ASSUME MovingInv, "loss" \notin ChainRaces, "crash" \notin Races, [Next]_depositVars
    PROVE  \A t : t.kind = "accumulate" /\ (t \in jobs \/ Unscanned(t)) => t \in jobs' \/ Unscanned(t)'
<1>1. ASSUME UNCHANGED <<blocks, last>>, \A t \in jobs \ jobs' : t.kind # "accumulate"
      PROVE  \A t : t.kind = "accumulate" /\ (t \in jobs \/ Unscanned(t)) => t \in jobs' \/ Unscanned(t)'
  BY <1>1 DEF Unscanned
<1>2. CASE UserTransfers
  <2>1. PICK d \in Deposits : blocks' = Append(blocks, Transfer(d)) /\ UNCHANGED <<last, jobs>>
    BY <1>2 DEF UserTransfers
  <2> QED BY <2>1, UnscannedAppend DEF MovingInv, SoundInv
<1>3. CASE \E s \in Scanners : ProcessBlocks(s)
  BY <1>3, ScanFollows DEF MovingInv, SoundInv
<1>4. CASE \E s \in Scanners : StartScan(s) \/ ScanDies(s)
  <2>1. UNCHANGED <<blocks, last>> /\ jobs \subseteq jobs'
    BY <1>4 DEF StartScan, ScanDies
  <2> QED BY <1>1, <2>1
<1>5. CASE \E a \in Depositors : ProcessDeposit(a)
  <2>1. UNCHANGED <<blocks, last>> /\ \E t \in jobs : t.kind = "deposit" /\ jobs' = jobs \ {t}
    BY <1>5 DEF ProcessDeposit
  <2> QED BY <1>1, <2>1
<1>6. ~JobDies
  BY DEF JobDies
<1>7. CASE UNCHANGED <<blocks, last, jobs>>
  BY <1>1, <1>7
<1> QED BY <1>2, <1>3, <1>4, <1>5, <1>6, <1>7
     DEF Next, Credits, CheckDepositScoring, AdminActs, RunHandler, Crash, WalletBlocks, CheckScores,
         depositVars, scanVars

LEMMA SentDeposits ==
    ASSUME MovingInv, EarlyInv, SenderInv, SentInv, Undisturbed, [Next]_depositVars,
           UNCHANGED accumulationVars,
           \A r \in Rows : row'[r] = row[r] \/ (row[r].state \in Early /\ ~InProgress(row'[r]))
    PROVE  SentInv'
<1>1. UNCHANGED <<pool, done, recorded, completed, accumulator>>
  BY DEF accumulationVars, coinVars, workVars
<1>2. /\ Range(blocks) \subseteq Range(blocks)'
      /\ \A t \in Range(blocks)' : t.kind = "accumulate" => t \in Range(blocks)
  BY ChainGrows, TransferParts DEF MovingInv, Transfers
<1>3. Sends' \subseteq Sends
  BY <1>1, <1>2, SendsRest
<1>4. \A r \in Rows : HasSend(r) => row[r].state \notin Early
  BY SentRow DEF HasSend
<1>5. \A t : t.kind = "accumulate" /\ (t \in jobs \/ Unscanned(t)) => t \in jobs' \/ Unscanned(t)'
  BY DepositsFollow DEF Undisturbed
<1> QED BY <1>1, <1>2, <1>3, <1>4, <1>5, SentRests

-----------------------------------------------------------------------------
(* The invariant. *)

LEMMA FollowStart == AccumulationInit => FollowInv
<1> SUFFICES ASSUME AccumulationInit PROVE FollowInv
  OBVIOUS
<1>1. /\ pool = {} /\ done = {} /\ recorded = {} /\ completed = {}
      /\ checks = {} /\ toSend = {} /\ toGas = {}
      /\ accumulator = [a \in Accumulators |-> NoJob] /\ gasWorker = NoJob
      /\ row = [r \in Rows |-> NoRow] /\ task = [a \in Actors |-> NoTask] /\ blocks = << >>
  BY DEF AccumulationInit, ChainInit, RowInit
<1>2. Range(blocks) = {}
  BY <1>1 DEF Range
<1>3. \A r \in Rows : row[r].state = "none"
  BY <1>1, Constants
<1>4. \A a \in Actors : ~Working(task[a])
  BY <1>1, Constants
<1>5. Sends = {} /\ GasTxs = {}
  BY <1>1, <1>2 DEF Sends, GasTxs
<1>6. gasWorker.step = "idle" /\ \A a \in Accumulators : accumulator[a].step = "idle"
  BY <1>1, NoJobParts
<1>7. EarlyInv
  <2>1. Touched \subseteq {NoId}
    BY <1>1, NoJobParts DEF Touched, AtWork
  <2>2. "none" \notin KytStates
    BY DEF KytStates
  <2> QED BY <1>3, <1>4, <2>1, <2>2 DEF EarlyInv, TouchedLate, Exists
<1>8. SenderInv
  BY <1>1, <1>2, <1>5 DEF SenderInv
<1>9. PlaceInv
  <2>1. \A r : ~HasSend(r) /\ ~GasLive(r)
    BY <1>5, <1>6, GasUnderWayIs DEF HasSend, GasLive, GasMayCome
  <2> QED BY <1>1, <2>1 DEF PlaceInv, Place
<1>10. GasInv
  BY <1>5, <1>6 DEF GasInv, GasMayCome
<1>11. SentInv
  <2>1. InProgressIsFollowed
    BY <1>3 DEF InProgressIsFollowed
  <2> QED BY <1>1, <1>5, <1>6, <2>1 DEF SentInv
<1> QED BY <1>7, <1>8, <1>9, <1>10, <1>11 DEF FollowInv

LEMMA FollowNext ==
    ASSUME MovingInv, OnceInv, ClearedInv, OneInv, FollowInv, InOrder, [AccumulationNext]_vars
    PROVE  FollowInv'
<1>1. /\ {"overdue", "early", "late", "sweep"} \cap ChainRaces = {} /\ "crash" \notin Races
      /\ Undisturbed
  BY DEF InOrder, Undisturbed
<1>2. EarlyInv /\ SenderInv /\ PlaceInv /\ GasInv /\ SentInv
  BY DEF FollowInv
<1>3. CASE (Credits /\ UNCHANGED accumulationVars) \/ UNCHANGED vars
  <2>1. [Next]_depositVars /\ UNCHANGED accumulationVars
    BY <1>3 DEF Next, vars, accumulationVars
  <2>2. /\ EarlyInv'
        /\ \A r \in Rows : row'[r] = row[r] \/ (row[r].state \in Early /\ ~InProgress(row'[r]))
    BY <1>1, <1>2, <2>1, EarlyDeposits
  <2>3. SentInv'
    BY <1>1, <1>2, <2>1, <2>2, SentDeposits
  <2>4. GasInv' /\ PlaceInv' /\ SenderInv'
    BY <1>2, <2>1, PlaceDeposits
  <2> QED BY <2>2, <2>3, <2>4 DEF FollowInv
<1>4. ASSUME AccumulationNext, ~(Credits /\ UNCHANGED accumulationVars) PROVE FollowInv'
  <2>1. EarlyInv'
    BY <1>2, <1>4, WorkMoves, EarlyWork
  <2>2. ~WorkerDies /\ ~SweepDust
    BY <1>1 DEF WorkerDies, SweepDust
  <2>3. GasInv' /\ PlaceInv' /\ SenderInv'
    BY <1>1, <1>2, <1>4, <2>2, PlaceCheckBalances, PlaceCheckBalance, PlaceSendAccumulation,
       PlaceAccumulators, PlaceSendGas, PlaceGasNotSent, PlaceRecordGas, PlaceGasReceipt,
       PlaceGasTimeout, PlaceProcesses, PlaceProcessGas, PlaceMine
    DEF AccumulationNext
  <2>4. SentInv'
    BY <1>1, <1>2, <1>4, <2>2, SentChecks, SentSends, SentCoinNotSent, SentRecords, SentMarks,
       SentGasWorker, SentCompletes, SentProcesses, SentMine
    DEF AccumulationNext
  <2> QED BY <2>1, <2>3, <2>4 DEF FollowInv
<1> QED BY <1>3, <1>4

(* A row whose accumulation is in progress has a transaction that is       *)
(* recorded and not completed, and that waits to be mined, to be scanned   *)
(* or to be looked at: so no row stays in progress for want of a           *)
(* transaction - for every number of wallets, deposits and workers, with   *)
(* gas prices above the limit, gas transfers replaced, scans that overlap, *)
(* die and are repeated, rechecks, forced credits and blocked wallets,     *)
(* when tasks do not cross (accumulate_coin, accumulate_tokens,            *)
(* process_block, AccumulationTransaction.complete).                       *)
THEOREM InProgressIsFollowedAlways ==
    ASSUME InOrder
    PROVE  AccumulationSpec => []InProgressIsFollowed
<1>1. AccumulationInit => OnceInv /\ ClearedInv /\ OneInv /\ FollowInv
  BY MovingStart, OneStart, FollowStart
<1>2. MovingInv /\ OnceInv /\ ClearedInv /\ OneInv /\ FollowInv /\ [AccumulationNext]_vars
      => OnceInv' /\ ClearedInv' /\ OneInv' /\ FollowInv'
  BY MovingNext, OneNext, FollowNext DEF InOrder
<1>3. FollowInv => InProgressIsFollowed
  BY DEF FollowInv, SentInv
<1> QED BY <1>1, <1>2, <1>3, MovingSound, PTL DEF AccumulationSpec
==============================================================================

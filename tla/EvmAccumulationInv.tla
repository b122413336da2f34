-------------------------- MODULE EvmAccumulationInv --------------------------
(***************************************************************************)
(* Inductive invariants of EvmAccumulation.                                *)
(***************************************************************************)
EXTENDS EvmAccumulation, EvmDepositsInv

AccumulatorJobs ==
    [step : {"idle", "record", "mark"}, row : Rows \cup {NoId}, tx : OurTxs \cup {NoTx},
     seen : States \cup {"none"}]
GasJobs ==
    [step : {"idle", "record", "receipt"}, row : Rows \cup {NoId}, tx : OurTxs \cup {NoTx},
     seen : States \cup {"none"}]

(* What a worker is at is a transaction for a row of the table. *)
JobSound(x, kinds) ==
    x.step # "idle" =>
        x.row \in Rows /\ x.tx \in OurTxs /\ x.tx.row = x.row /\ x.tx.kind \in kinds

WorkSound ==
    /\ accumulator \in [Accumulators -> AccumulatorJobs] /\ gasWorker \in GasJobs
    /\ \A a \in Accumulators : JobSound(accumulator[a], OutKinds)
    /\ JobSound(gasWorker, {"gas"})

CoinSound ==
    /\ pool \subseteq OurTxs /\ done \subseteq Range(blocks) \cap OurTxs
    /\ recorded \subseteq {t \in OurTxs : t.kind # "dust"}
    /\ checks \subseteq Rows /\ toSend \subseteq Rows /\ toGas \subseteq Rows

(* Rows that tasks, workers and recorded transactions are about. *)
AtWork == {accumulator[a].row : a \in Accumulators} \cup {gasWorker.row}
Touched == checks \cup toSend \cup toGas \cup {t.row : t \in recorded} \cup AtWork

TouchedExist == \A r \in Touched \ {NoId} : Exists(r)

(* Whatever races. *)
MovingInv == SoundInv /\ WorkSound /\ CoinSound /\ TouchedExist

(* What left the wallet for row r, of what was mined and did not fail. *)
Left(r, mined) == \E t \in mined : t.kind \in OutKinds /\ t.row = r

(* Also a copy in a handler says "accumulated" only of what has left. *)
SettledState(s) == s \in {"ACCUMULATED", "EXTERNAL_ACCUMULATED"}
LeftInv ==
    /\ \A r \in Rows : SettledState(row[r].state) => Left(r, done)
    /\ \A a \in Actors :
           Working(task[a]) /\ SettledState(task[a].obj.state) => Left(task[a].id, done)

(* Tasks and workers are at rows beyond the early states, and leave them   *)
(* there.                                                                  *)
TouchedLate == \A r \in Touched \ {NoId} : row[r].state \notin Early
Onward == States \ (Early \cup {"ACCUMULATED", "EXTERNAL_ACCUMULATED"})

(* Only rows that may be moved on are touched and sent. *)
ClearedInv ==
    /\ RowsClear
    /\ \A r \in Touched \ {NoId} : Cleared(r)
    /\ \A t \in pool \cup Range(blocks) : t.kind \in OutKinds => Cleared(t.row)

-----------------------------------------------------------------------------
(* A row is on its way from check_balances until its accumulation is       *)
(* completed: a task or a worker is at it, a gas transfer for it may still *)
(* be completed, or its state says so.                                     *)
GasUnderWay(r) ==
    \E t \in recorded \ completed : t.kind = "gas" /\ t.row = r /\ t \in pool \cup Range(blocks)
AtTask(r) == r \in checks \cup toSend \cup toGas \cup AtWork
InProgress(x) == x.state = "ACCUMULATION_IN_PROGRESS"
OnItsWay(r) == InProgress(row[r]) \/ AtTask(r) \/ GasUnderWay(r)

OnePerWalletMoves ==
    \A q, r \in Rows : OnItsWay(q) /\ OnItsWay(r) /\ WalletOf(q) = WalletOf(r) => q = r

Unscanned(t) == \E i \in last + 1 .. Len(blocks) : blocks[i] = t

(* A gas transfer that was mined will be looked at, or was completed; the  *)
(* keeper's nonce grows past each, so none is sent a second time.          *)
GasFollowed ==
    /\ \A t \in recorded \ completed :
           t.kind = "gas" /\ t \in Range(blocks) => t \in jobs \/ Unscanned(t)
    /\ \A t \in pool : t.kind = "gas" => t.nonce <= KeeperNonce
    /\ \A t \in Range(blocks) : t.kind = "gas" => t.nonce < KeeperNonce
    /\ gasWorker.step # "idle" => gasWorker.tx.nonce <= KeeperNonce
    /\ gasWorker.step = "record" => gasWorker.tx \notin Range(blocks)

(* No row has an external address, and no handler's copy is one of a row   *)
(* that is in progress and will be saved.                                  *)
PlainHandler(t) ==
    /\ t.op \notin {"external", "revert"} /\ ~t.obj.external
    /\ t.op \in {"insert", "score"} => ~InProgress(t.obj)
PlainRows ==
    /\ \A r \in Rows : ~row[r].external
    /\ \A a \in Actors : Working(task[a]) => PlainHandler(task[a])

OneInv == OnePerWalletMoves /\ GasFollowed /\ PlainRows

(* Nothing of an earlier run is left when check_balances runs, blocks are  *)
(* neither skipped nor ahead of the tasks, no worker dies, and no          *)
(* administrator redirects or reverts a row.  The deposits are finitely    *)
(* many, to speak of one row per wallet.                                   *)
Undisturbed ==
    /\ {"overdue", "loss", "early"} \cap ChainRaces = {} /\ "crash" \notin Races
    /\ {"external", "revert"} \cap AdminOps = {}
    /\ IsFiniteSet(Deposits)

-----------------------------------------------------------------------------
(* Each row is sent once: it is in one queue, or its gas transfer is under *)
(* way, or its accumulation was sent.                                      *)
Sends == {t \in pool \cup Range(blocks) : t.kind = "accumulate"}
HasSend(r) == \E t \in Sends : t.row = r

GasTxs == {t \in recorded \ completed : t.kind = "gas" /\ t \in pool \cup Range(blocks)}

(* The worker's gas transfer may still be mined. *)
GasMayCome ==
    \/ gasWorker.step = "record"
    \/ gasWorker.step = "receipt" /\ gasWorker.tx.nonce >= KeeperNonce
GasLive(r) == GasUnderWay(r) \/ (GasMayCome /\ gasWorker.row = r)

Place(r) ==
    /\ r \in checks => r \notin toSend \cup toGas
    /\ r \in toSend => r \notin toGas
    /\ r \in checks \cup toSend \cup toGas => ~GasLive(r) /\ ~HasSend(r)
    /\ GasLive(r) => ~HasSend(r)
PlaceInv == \A r \in Rows : Place(r)

(* The gas transfers of a row are replacements of each other, of which one *)
(* is mined.                                                               *)
GasInv ==
    /\ \A t, u \in GasTxs : t.row = u.row => t.nonce = u.nonce
    /\ GasMayCome => \A t \in GasTxs : t.row = gasWorker.row => t.nonce = gasWorker.tx.nonce
    /\ gasWorker.step = "receipt" => gasWorker.tx \in recorded
    /\ gasWorker.step = "record" =>
           \A t \in GasTxs : t.row = gasWorker.row => t \notin Range(blocks)

(* What waits to be mined has its sender's next nonce; one accumulation of *)
(* a wallet waits, and no row is sent twice.                               *)
SenderInv ==
    /\ \A t \in pool :
           \/ t.kind = "gas" /\ t.nonce = KeeperNonce
           \/ t.kind = "accumulate" /\ t.price = 1 /\ t.nonce = WalletNonce(WalletOf(t.row))
    /\ \A t, u \in pool :
           t.kind = "accumulate" /\ u.kind = "accumulate" /\ WalletOf(t.row) = WalletOf(u.row) => t = u
    /\ \A t \in Range(blocks) :
           \/ t.kind \in {"deposit", "gas"}
           \/ t.kind = "accumulate" /\ t.nonce < WalletNonce(WalletOf(t.row))
    /\ \A t, u \in Range(blocks) : t.kind = "gas" /\ u.kind = "gas" /\ t.nonce = u.nonce => t = u
    /\ \A t, u \in Sends : t.row = u.row => t = u

(* Handlers of rows leave the ones beyond the early states alone, and each *)
(* row stands for a transfer that is there.                                *)
EarlyInv ==
    /\ TouchedLate
    /\ \A r \in Rows : row[r].state \in KytStates => transaction[r] # "none"
    /\ \A a \in Actors : Working(task[a]) =>
           /\ task[a].op = "insert" => row[task[a].id].state = "CREATED"
           /\ task[a].op = "score" => row[task[a].id].state \in KytStates
    /\ \A r \in Rows : Exists(r) => r[2] = 1 /\ r[1] \in Arrived \ Failed

(* What was sent is recorded, mined and completed, and the row says so. *)
Carried(t) == \E a \in Accumulators : accumulator[a].step # "idle" /\ accumulator[a].tx = t
SentInv ==
    /\ \A t \in Sends : Carried(t) \/ InProgress(row[t.row]) \/ Settled(t.row)
    /\ \A t \in Sends : t \in Range(blocks) => t \in done
    /\ \A a \in Accumulators :
           /\ accumulator[a].step # "idle" =>
                  accumulator[a].tx \in pool /\ accumulator[a].seen # "ACCUMULATION_IN_PROGRESS"
           /\ accumulator[a].step = "mark" => accumulator[a].tx \in recorded
    /\ completed \subseteq Range(blocks)
    /\ InProgressIsFollowed

FollowInv == EarlyInv /\ SenderInv /\ PlaceInv /\ GasInv /\ SentInv

(* Undisturbed, and handlers and tasks do not cross: no two of them work   *)
(* on a row or on a transfer at once, none comes late, and no gas is swept *)
(* away.                                                                   *)
InOrder ==
    /\ Undisturbed /\ "together" \notin Races
    /\ {"twins", "late", "sweep"} \cap ChainRaces = {}

===============================================================================

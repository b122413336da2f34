---------------------------- MODULE BtcPayoutsInv ----------------------------
(***************************************************************************)
(* The inductive invariant behind AllPayoutsPromise: that of EvmPayouts    *)
(* behind PayoutPromise, and what holds of the runs of process_withdrawals *)
(* and of the requests they have in hand.                                  *)
(***************************************************************************)
EXTENDS BtcPayouts, EvmPayoutsInv

Started == {"send", "save", "assert", "complete"}

IsRun(x) == x = [step |-> x.step, inputs |-> x.inputs, left |-> x.left, at |-> x.at, obj |-> x.obj]

RunTypeOK ==
    /\ DOMAIN clerk = Clerks /\ clerk = [c \in Clerks |-> clerk[c]]
    /\ \A c \in Clerks : /\ IsRun(clerk[c]) /\ clerk[c].obj \in [Elsewhere -> Row]
                         /\ clerk[c].step \in {"idle", "select"} \cup Started
    /\ paidBatches \in Seq(SUBSET Elsewhere)

(* The transactions that pay r. *)
PaidAt(r) == {i \in DOMAIN paidBatches : r \in paidBatches[i]}

(* A request a run has in hand is open and approved, its object is its row *)
(* and no handler is at it.                                                *)
Taken(x, r) ==
    /\ x.obj[r] = req[r] /\ req[r].state = "CREATED" /\ req[r].approved /\ req[r].confirmed
    /\ \A a \in Actors : task[a].id # r

(* While a run has outputs in hand the keeper gets no others: they are all *)
(* it has, until some run has spent them, and then there are none.  What a *)
(* run may still send is not paid; what it has sent is paid once.          *)
ClerkInv(c) ==
    LET x == clerk[c] IN
    /\ x.inputs # {} => unspent \in {x.inputs, {}}
    /\ x.step \in Started => x.inputs # {} /\ x.left # {} /\ x.left \subseteq Elsewhere
    /\ x.step = "send" /\ unspent # {} => \A r \in x.left : Taken(x, r) /\ PaidAt(r) = {}
    /\ Settling(c) => /\ unspent = {} /\ \A d \in Clerks \ {c} : ~Settling(d)
                      /\ \A r \in x.left : Taken(x, r) /\ PaidAt(r) # {}
    /\ x.step \in {"assert", "complete"} => x.at \in x.left

(* A request is paid by one transaction, and then completed or in the      *)
(* hands of the run that sent it.                                          *)
PaidOnceInv(r) ==
    PaidAt(r) # {} =>
        /\ r \in Elsewhere /\ \E i \in Nat : PaidAt(r) = {i}
        /\ req[r].state = "COMPLETED" \/ \E c \in Clerks : Settling(c) /\ r \in clerk[c].left

BtcInv ==
    /\ MoneyInv
    /\ RunTypeOK
    /\ \A c \in Clerks : ClerkInv(c)
    /\ \A r \in Requests : PaidOnceInv(r)

==============================================================================

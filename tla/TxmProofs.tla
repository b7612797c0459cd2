------------------------------ MODULE TxmProofs ------------------------------
(* Type correctness and nonce discipline of the transaction manager, for every
   value of its limits and bounds. *)
EXTENDS Txm, TLAPS, WellFoundedInduction

(* While a goroutine works on a transaction, its copy names one, and a nonce. *)
CopiesOK ==
    \A th \in Threads : pc[th] \in Busy => cur[th].id \in Ids /\ cur[th].nonce \in Nonces

TypeInv == TypeOK /\ CopiesOK

-----------------------------------------------------------------------------
(* A non-empty set of naturals has a least element: this is what makes the
   definition of PendingNonce one. *)
LEMMA LeastNat ==
    ASSUME NEW S, S \subseteq Nat, S # {}
    PROVE  \E x \in S : \A y \in S : ~(y < x)
<1>1. IsWellFoundedOn(OpToRel(<, Nat), Nat)
  BY NatLessThanWellFounded
<1>2. \E x \in S : \A y \in S : ~(<<y, x>> \in OpToRel(<, Nat))
  BY <1>1, WFMin
<1> QED
  BY <1>2 DEF OpToRel

(* There is a first nonce, at or after the chain's, that the pool does not hold. *)
LEMMA PendingExists ==
    ASSUME NEW len \in Nat, len <= MaxNonce + 1, NEW pool
    PROVE  \E n \in len..(MaxNonce + 1) :
              /\ \A m \in len..(n - 1) : pool[m] # NoAttempt
              /\ n \in Nonces => pool[n] = NoAttempt
<1> DEFINE S == {n \in len..(MaxNonce + 1) : n \in Nonces => pool[n] = NoAttempt}
<1>1. MaxNonce \in Nat
  BY BoundsAssumption
<1>2. S \subseteq Nat /\ MaxNonce + 1 \in S
  BY <1>1 DEF Nonces
<1>3. PICK x \in S : \A y \in S : ~(y < x)
  BY <1>2, LeastNat
<1>4. \A m \in len..(x - 1) : pool[m] # NoAttempt
  BY <1>1, <1>3
<1> QED
  BY <1>3, <1>4

(* The next nonce of the pool is at least the chain's and at most one past the
   bound. *)
LEMMA PendingNonceInRange ==
    ASSUME NodeTypeOK
    PROVE  PendingNonce \in Len(chain)..(MaxNonce + 1)
<1>1. Len(chain) \in Nat /\ Len(chain) <= MaxNonce + 1
  BY DEF NodeTypeOK
<1>2. \E n \in Len(chain)..(MaxNonce + 1) :
         /\ \A m \in Len(chain)..(n - 1) : mempool[m] # NoAttempt
         /\ n \in Nonces => mempool[n] = NoAttempt
  BY <1>1, PendingExists
<1> QED
  BY <1>2 DEF PendingNonce

(* The updates the actions make to one transaction keep it a transaction. *)
LEMMA RecordUpdates ==
    ASSUME NEW t \in Record
    PROVE  /\ \A s \in States : [t EXCEPT !.state = s] \in Record
           /\ \A s \in States : [t EXCEPT !.state = s, !.isEmpty = TRUE] \in Record
           /\ Reorged(t) \in Record
           /\ \A age \in Ages \cup {NeverBroadcast} : [t EXCEPT !.lastBroadcastAt = age] \in Record
           /\ [t EXCEPT !.isPurgeable = TRUE] \in Record
           /\ [t EXCEPT !.attemptCount = @ + 1] \in Record
<1>1. \A s \in States : [t EXCEPT !.state = s] \in Record
  BY DEF Record
<1>2. \A s \in States : [t EXCEPT !.state = s, !.isEmpty = TRUE] \in Record
  BY DEF Record
<1>3. Reorged(t) \in Record
  BY DEF Record, Reorged, States
<1>4. \A age \in Ages \cup {NeverBroadcast} : [t EXCEPT !.lastBroadcastAt = age] \in Record
  BY DEF Record
<1>5. [t EXCEPT !.isPurgeable = TRUE] \in Record
  BY DEF Record
<1>6. [t EXCEPT !.attemptCount = @ + 1] \in Record
  BY DEF Record
<1> QED
  BY <1>1, <1>2, <1>3, <1>4, <1>5, <1>6

LEMMA BudgetUpdates ==
    ASSUME NEW b \in Budget
    PROVE  /\ b.faults < MaxFaults => [b EXCEPT !.faults = @ + 1] \in Budget
           /\ b.drops < MaxDrops => [b EXCEPT !.drops = @ + 1] \in Budget
           /\ b.reorgs < MaxReorgs => [b EXCEPT !.reorgs = @ + 1] \in Budget
           /\ b.abandons < MaxAbandons => [b EXCEPT !.abandons = @ + 1] \in Budget
<1> USE BoundsAssumption
<1>1. b.faults < MaxFaults => [b EXCEPT !.faults = @ + 1] \in Budget
  BY DEF Budget
<1>2. b.drops < MaxDrops => [b EXCEPT !.drops = @ + 1] \in Budget
  BY DEF Budget
<1>3. b.reorgs < MaxReorgs => [b EXCEPT !.reorgs = @ + 1] \in Budget
  BY DEF Budget
<1>4. b.abandons < MaxAbandons => [b EXCEPT !.abandons = @ + 1] \in Budget
  BY DEF Budget
<1> QED
  BY <1>1, <1>2, <1>3, <1>4

-----------------------------------------------------------------------------
(* Type correctness. *)

LEMMA InitTypeInv == Init => TypeInv
<1> SUFFICES ASSUME Init PROVE TypeInv
  OBVIOUS
<1>1. MaxAge \in Nat /\ MaxAge \in Ages
  BY LimitsAssumption DEF MaxAge, Ages
<1>2. tx \in [Ids -> Record]
  BY DEF Init, Record, States
<1>3. StoreTypeOK
  <2>1. /\ unstarted = <<>> /\ fatal = {} /\ transactions = {} /\ txIDCount = 0
        /\ unconfirmed = [n \in Nonces |-> NoTx]
        /\ confirmed = [n \in Nonces |-> NoTx]
    BY DEF Init
  <2> QED
    BY <1>2, <2>1, BoundsAssumption DEF StoreTypeOK
<1>4. /\ nonceMap \in 0..(MaxNonce + 1)
      /\ cur \in [Threads -> Copy]
      /\ pc \in [Threads -> {"init", "idle"}]
  BY BoundsAssumption DEF Init, Copy, NoCopy
<1>5. LoopTypeOK
  BY <1>1, <1>4 DEF Init, LoopTypeOK
<1>6. mempool \in [Nonces -> Attempt \cup {NoAttempt}]
  BY DEF Init, Attempt
<1>7. used \in Budget
  BY BoundsAssumption DEF Init, Budget
<1>8. NodeTypeOK
  <2>1. chain = <<>> /\ sent = {}
    BY DEF Init
  <2> QED
    BY <1>6, <1>7, <2>1, BoundsAssumption DEF NodeTypeOK
<1>9. CopiesOK
  BY <1>4 DEF CopiesOK, Busy
<1> QED
  BY <1>3, <1>5, <1>8, <1>9 DEF TypeInv, TypeOK

(* What the callers and the environment do. *)
LEMMA EnvironmentTypeInv ==
    ASSUME TypeInv, Environment
    PROVE  TypeInv'
<1>0. StoreTypeOK /\ LoopTypeOK /\ NodeTypeOK /\ CopiesOK
  BY DEF TypeInv, TypeOK
<1>a. ASSUME UNCHANGED loopVars PROVE LoopTypeOK' /\ CopiesOK'
  BY <1>0, <1>a DEF loopVars, LoopTypeOK, CopiesOK
<1>b. ASSUME UNCHANGED storeVars PROVE StoreTypeOK'
  BY <1>0, <1>b DEF storeVars, StoreTypeOK
<1>c. ASSUME UNCHANGED nodeVars PROVE NodeTypeOK'
  BY <1>0, <1>c DEF nodeVars, NodeTypeOK
<1>1. CASE CreateTransaction
  <2>1. txIDCount \in Ids /\ txIDCount + 1 \in 0..MaxIds
    <3>1. txIDCount \in 0..MaxIds /\ txIDCount < MaxIds
      BY <1>0, <1>1 DEF CreateTransaction, StoreTypeOK
    <3> QED
      BY <3>1, BoundsAssumption DEF Ids
  <2>2. PICK room \in Nat : /\ room <= Len(unstarted)
                            /\ unstarted' = Append(SubSeq(unstarted, room + 1, Len(unstarted)),
                                                   txIDCount)
    <3> DEFINE room == IF Len(unstarted) >= MaxQueuedTransactions
                         THEN Len(unstarted) - MaxQueuedTransactions + 1 ELSE 0
    <3>1. Len(unstarted) \in Nat
      BY <1>0 DEF StoreTypeOK
    <3>2. room \in Nat /\ room <= Len(unstarted)
      BY <3>1, LimitsAssumption
    <3>3. unstarted' = Append(SubSeq(unstarted, room + 1, Len(unstarted)), txIDCount)
      BY <1>1 DEF CreateTransaction
    <3> QED
      BY <3>2, <3>3
  <2>3. unstarted' \in Seq(Ids)
    BY <1>0, <2>1, <2>2 DEF StoreTypeOK
  <2>4. tx' \in [Ids -> Record]
    BY <1>0, <1>1, RecordUpdates DEF CreateTransaction, StoreTypeOK, States
  <2>5. StoreTypeOK'
    BY <1>0, <1>1, <2>1, <2>3, <2>4 DEF CreateTransaction, StoreTypeOK
  <2> QED
    BY <1>1, <1>a, <1>c, <2>5 DEF CreateTransaction, TypeInv, TypeOK
<1>2. CASE AbandonPendingTransactions
  <2>1. tx' \in [Ids -> Record]
    BY <1>0, <1>2, RecordUpdates DEF AbandonPendingTransactions, StoreTypeOK, States
  <2>2. fatal' \subseteq Ids
    <3>1. {unstarted[i] : i \in 1..Len(unstarted)} \subseteq Ids
      BY <1>0 DEF StoreTypeOK
    <3>2. {unconfirmed[n] : n \in Held(unconfirmed)} \subseteq Ids
      BY <1>0 DEF StoreTypeOK, Held
    <3> QED
      BY <1>2, <3>1, <3>2 DEF AbandonPendingTransactions
  <2>3. unstarted' \in Seq(Ids) /\ unconfirmed' \in [Nonces -> Ids \cup {NoTx}]
    BY <1>2 DEF AbandonPendingTransactions, Cleared
  <2>4. StoreTypeOK'
    BY <1>0, <1>2, <2>1, <2>2, <2>3 DEF AbandonPendingTransactions, StoreTypeOK
  <2>5. used' \in Budget
    BY <1>0, <1>2, BudgetUpdates DEF AbandonPendingTransactions, NodeTypeOK
  <2>6. NodeTypeOK'
    BY <1>0, <1>2, <2>5 DEF AbandonPendingTransactions, NodeTypeOK
  <2> QED
    BY <1>2, <1>a, <2>4, <2>6 DEF AbandonPendingTransactions, TypeInv, TypeOK
<1>3. CASE Mine
  <2>1. mempool[Len(chain)] \in Attempt /\ Len(chain) \in Nonces
    BY <1>0, <1>3 DEF Mine, NodeTypeOK
  <2>2. chain' \in Seq(Attempt) /\ Len(chain') = Len(chain) + 1
    BY <1>0, <1>3, <2>1 DEF Mine, NodeTypeOK
  <2>3. Len(chain') <= MaxNonce + 1
    BY <2>1, <2>2, BoundsAssumption DEF Nonces
  <2>4. NodeTypeOK'
    BY <1>0, <1>3, <2>2, <2>3 DEF Mine, NodeTypeOK
  <2> QED
    BY <1>3, <1>a, <1>b, <2>4 DEF Mine, TypeInv, TypeOK
<1>4. CASE Reorg
  <2>1. PICK height \in 0..(Len(chain) - 1) :
            /\ chain' = SubSeq(chain, 1, height)
            /\ mempool' = [n \in Nonces |-> IF n \in height..(Len(chain) - 1)
                                              THEN chain[n + 1] ELSE mempool[n]]
    BY <1>4 DEF Reorg
  <2>2. chain \in Seq(Attempt) /\ Len(chain) \in Nat /\ Len(chain) <= MaxNonce + 1
    BY <1>0 DEF NodeTypeOK
  <2>3. chain' \in Seq(Attempt) /\ Len(chain') = height
    BY <2>1, <2>2
  <2>4. mempool' \in [Nonces -> Attempt \cup {NoAttempt}]
    <3>1. \A n \in height..(Len(chain) - 1) : chain[n + 1] \in Attempt
      BY <2>1, <2>2
    <3> QED
      BY <1>0, <2>1, <3>1 DEF NodeTypeOK
  <2>5. used' \in Budget
    BY <1>0, <1>4, BudgetUpdates DEF Reorg, NodeTypeOK
  <2>6. sent' = sent
    BY <1>4 DEF Reorg
  <2>7. NodeTypeOK'
    BY <1>0, <2>1, <2>2, <2>3, <2>4, <2>5, <2>6, BoundsAssumption DEF NodeTypeOK
  <2> QED
    BY <1>4, <1>a, <1>b, <2>7 DEF Reorg, TypeInv, TypeOK
<1>5. CASE DropFromMempool
  <2>1. used' \in Budget
    BY <1>0, <1>5, BudgetUpdates DEF DropFromMempool, NodeTypeOK
  <2>2. NodeTypeOK'
    BY <1>0, <1>5, <2>1 DEF DropFromMempool, NodeTypeOK
  <2> QED
    BY <1>5, <1>a, <1>b, <2>2 DEF DropFromMempool, TypeInv, TypeOK
<1>6. CASE NextBlock
  <2>1. MaxAge \in Nat
    BY LimitsAssumption DEF MaxAge
  <2>2. /\ \A age \in Ages : Older(age) \in Ages
        /\ Older(NeverBroadcast) = NeverBroadcast
    BY <2>1 DEF Older, Ages, NeverBroadcast
  <2>3. tx' \in [Ids -> Record]
    <3>1. \A id \in Ids : tx[id] \in Record /\ tx[id].lastBroadcastAt \in Ages \cup {NeverBroadcast}
      BY <1>0 DEF StoreTypeOK, Record
    <3> QED
      BY <1>6, <2>2, <3>1, RecordUpdates DEF NextBlock
  <2>4. StoreTypeOK'
    BY <1>0, <1>6, <2>3 DEF NextBlock, StoreTypeOK
  <2>5. LoopTypeOK' /\ CopiesOK'
    BY <1>0, <1>6, <2>2 DEF NextBlock, LoopTypeOK, CopiesOK
  <2> QED
    BY <1>6, <1>c, <2>4, <2>5 DEF NextBlock, TypeInv, TypeOK
<1> QED
  BY <1>1, <1>2, <1>3, <1>4, <1>5, <1>6 DEF Environment
(* A goroutine that returns has no copy any more, and is not busy. *)
LEMMA ReturnTypeOK ==
    ASSUME LoopTypeOK, CopiesOK, NEW th \in Threads, Return(th),
           UNCHANGED <<nonceMap, lastPurge>>
    PROVE  LoopTypeOK' /\ CopiesOK'
<1>1. NoCopy \in Copy
  BY BoundsAssumption DEF NoCopy, Copy
<1>2. pc' = [pc EXCEPT ![th] = "idle"] /\ cur' = [cur EXCEPT ![th] = NoCopy]
  BY DEF Return, Goto
<1>3. LoopTypeOK'
  BY <1>1, <1>2 DEF LoopTypeOK
<1>4. CopiesOK'
  BY <1>2 DEF LoopTypeOK, CopiesOK, Busy
<1> QED
  BY <1>3, <1>4

(* A goroutine that goes on with the same copy. *)
LEMMA GotoTypeOK ==
    ASSUME LoopTypeOK, CopiesOK, NEW th \in Threads,
           NEW label \in {"idle", "pending", "assign", "create", "send", "recheck", "update",
                          "mark", "fetch", "gap"},
           Goto(th, label), label \in Busy => pc[th] \in Busy,
           UNCHANGED <<nonceMap, lastPurge, cur>>
    PROVE  LoopTypeOK' /\ CopiesOK'
<1>1. pc' = [pc EXCEPT ![th] = label]
  BY DEF Goto
<1>2. LoopTypeOK'
  BY <1>1 DEF LoopTypeOK
<1>3. CopiesOK'
  BY <1>1 DEF LoopTypeOK, CopiesOK
<1> QED
  BY <1>2, <1>3

(* createAndSendAttempt, for either loop. *)
LEMMA AttemptTypeInv ==
    ASSUME TypeInv, NEW th \in Threads, CreateAndSendAttempt(th)
    PROVE  TypeInv'
<1>0. StoreTypeOK /\ LoopTypeOK /\ NodeTypeOK /\ CopiesOK
  BY DEF TypeInv, TypeOK
<1>1. CASE CreateAttempt(th)
  <2>1. cur[th].id \in Ids
    BY <1>0, <1>1 DEF CreateAttempt, CopiesOK, Busy
  <2>2. tx' \in [Ids -> Record]
    <3>1. tx \in [Ids -> Record]
      BY <1>0 DEF StoreTypeOK
    <3>2. tx' = tx \/ tx' = [tx EXCEPT ![cur[th].id].attemptCount = @ + 1]
      BY <1>1 DEF CreateAttempt
    <3>3. [tx[cur[th].id] EXCEPT !.attemptCount = @ + 1] \in Record
      BY <2>1, <3>1, RecordUpdates
    <3> QED
      BY <2>1, <3>1, <3>2, <3>3
  <2>3. StoreTypeOK'
    BY <1>0, <1>1, <2>2 DEF CreateAttempt, StoreTypeOK
  <2>4. used' \in Budget
    BY <1>0, <1>1, BudgetUpdates DEF CreateAttempt, Fault, NodeTypeOK
  <2>5. NodeTypeOK'
    BY <1>0, <1>1, <2>4 DEF CreateAttempt, NodeTypeOK
  <2>6. LoopTypeOK' /\ CopiesOK'
    BY <1>0, <1>1, ReturnTypeOK, GotoTypeOK DEF CreateAttempt, Busy
  <2> QED
    BY <2>3, <2>5, <2>6 DEF TypeInv, TypeOK
<1>2. CASE SendTransaction(th)
  <2>1. cur[th].id \in Ids /\ cur[th].nonce \in Nonces
    BY <1>0, <1>2 DEF SendTransaction, CopiesOK, Busy
  <2>2. CurrentAttempt(th) \in Attempt
    <3>1. tx[cur[th].id].isEmpty \in BOOLEAN /\ cur[th].isPurgeable \in BOOLEAN
      BY <1>0, <2>1 DEF StoreTypeOK, LoopTypeOK, Record, Copy
    <3> QED
      BY <2>1, <3>1 DEF CurrentAttempt, Attempt
  <2>3. mempool' \in [Nonces -> Attempt \cup {NoAttempt}]
    BY <1>0, <1>2, <2>2 DEF SendTransaction, NodeTypeOK
  <2>4. used' \in Budget
    BY <1>0, <1>2, BudgetUpdates DEF SendTransaction, Fault, NodeTypeOK
  <2>5. NodeTypeOK'
    BY <1>0, <1>2, <2>1, <2>3, <2>4 DEF SendTransaction, NodeTypeOK
  <2>6. LoopTypeOK' /\ CopiesOK'
    BY <1>0, <1>2, GotoTypeOK DEF SendTransaction, Busy
  <2>7. StoreTypeOK'
    BY <1>0, <1>2 DEF SendTransaction, storeVars, StoreTypeOK
  <2> QED
    BY <2>5, <2>6, <2>7 DEF TypeInv, TypeOK
<1>3. CASE RecheckPendingNonce(th)
  <2>1. used' \in Budget
    BY <1>0, <1>3, BudgetUpdates DEF RecheckPendingNonce, Fault, NodeTypeOK
  <2>2. NodeTypeOK'
    BY <1>0, <1>3, <2>1 DEF RecheckPendingNonce, NodeTypeOK
  <2>3. LoopTypeOK' /\ CopiesOK'
    BY <1>0, <1>3, ReturnTypeOK, GotoTypeOK DEF RecheckPendingNonce, Busy
  <2>4. StoreTypeOK'
    BY <1>0, <1>3 DEF RecheckPendingNonce, storeVars, StoreTypeOK
  <2> QED
    BY <2>2, <2>3, <2>4 DEF TypeInv, TypeOK
<1>4. CASE UpdateTransactionBroadcast(th)
  <2>1. cur[th].nonce \in Nonces
    BY <1>0, <1>4 DEF UpdateTransactionBroadcast, CopiesOK, Busy
  <2>2. 0 \in Ages
    BY LimitsAssumption DEF Ages, MaxAge
  <2>3. tx' \in [Ids -> Record]
    BY <1>0, <1>4, <2>1, <2>2, RecordUpdates DEF UpdateTransactionBroadcast, StoreTypeOK
  <2>4. StoreTypeOK'
    BY <1>0, <1>4, <2>3 DEF UpdateTransactionBroadcast, StoreTypeOK
  <2>5. LoopTypeOK' /\ CopiesOK'
    BY <1>0, <1>4, ReturnTypeOK DEF UpdateTransactionBroadcast
  <2>6. NodeTypeOK'
    BY <1>0, <1>4 DEF UpdateTransactionBroadcast, nodeVars, NodeTypeOK
  <2> QED
    BY <2>4, <2>5, <2>6 DEF TypeInv, TypeOK
<1> QED
  BY <1>1, <1>2, <1>3, <1>4 DEF CreateAndSendAttempt

LEMMA BroadcastTypeInv ==
    ASSUME TypeInv, BroadcastTransaction
    PROVE  TypeInv'
<1>0. StoreTypeOK /\ LoopTypeOK /\ NodeTypeOK /\ CopiesOK
  BY DEF TypeInv, TypeOK
<1>a. "broadcast" \in Threads
  BY DEF Threads
<1>b. ASSUME UNCHANGED storeVars PROVE StoreTypeOK'
  BY <1>0, <1>b DEF storeVars, StoreTypeOK
<1>c. ASSUME UNCHANGED nodeVars PROVE NodeTypeOK'
  BY <1>0, <1>c DEF nodeVars, NodeTypeOK
<1>1. CASE InitializeNonce
  <2>1. PendingNonce \in 0..(MaxNonce + 1)
    <3>1. Len(chain) \in Nat
      BY <1>0 DEF NodeTypeOK
    <3> QED
      BY <1>0, <3>1, PendingNonceInRange, BoundsAssumption
  <2>2. LoopTypeOK' /\ CopiesOK'
    BY <1>0, <1>1, <2>1 DEF InitializeNonce, Goto, LoopTypeOK, CopiesOK, Busy, Threads
  <2> QED
    BY <1>1, <1>b, <1>c, <2>2 DEF InitializeNonce, TypeInv, TypeOK
<1>2. CASE CheckInFlight
  <2>1. LoopTypeOK' /\ CopiesOK'
    BY <1>0, <1>2, <1>a, GotoTypeOK DEF CheckInFlight, Busy
  <2> QED
    BY <1>2, <1>b, <1>c, <2>1 DEF CheckInFlight, TypeInv, TypeOK
<1>3. CASE CheckPendingNonce
  <2>1. used' \in Budget
    BY <1>0, <1>3, BudgetUpdates DEF CheckPendingNonce, Fault, NodeTypeOK
  <2>2. NodeTypeOK'
    BY <1>0, <1>3, <2>1 DEF CheckPendingNonce, NodeTypeOK
  <2>3. LoopTypeOK' /\ CopiesOK'
    BY <1>0, <1>3, <1>a, GotoTypeOK DEF CheckPendingNonce, Busy
  <2> QED
    BY <1>3, <1>b, <2>2, <2>3 DEF CheckPendingNonce, TypeInv, TypeOK
<1>4. CASE UpdateUnstartedTransactionWithNonce
  <2>1. NodeTypeOK'
    BY <1>4, <1>c DEF UpdateUnstartedTransactionWithNonce
  <2>2. CASE UNCHANGED <<unstarted, unconfirmed, tx>> /\ Return("broadcast")
    <3>1. StoreTypeOK'
      BY <1>0, <1>4, <2>2 DEF UpdateUnstartedTransactionWithNonce, StoreTypeOK
    <3>2. LoopTypeOK' /\ CopiesOK'
      BY <1>0, <1>4, <1>a, <2>2, ReturnTypeOK DEF UpdateUnstartedTransactionWithNonce
    <3> QED
      BY <2>1, <3>1, <3>2 DEF TypeInv, TypeOK
  <2>3. CASE ~(UNCHANGED <<unstarted, unconfirmed, tx>> /\ Return("broadcast"))
    <3> DEFINE id == Head(unstarted)
               copy == [id |-> id, nonce |-> nonceMap, isPurgeable |-> tx[id].isPurgeable]
    <3>1. /\ unstarted # <<>> /\ nonceMap \in Nonces
          /\ unstarted' = Dequeued(unstarted)
          /\ unconfirmed' = [unconfirmed EXCEPT ![nonceMap] = id]
          /\ tx' = [tx EXCEPT ![id].state = "unconfirmed"]
          /\ cur' = [cur EXCEPT !["broadcast"] = copy]
          /\ pc' = [pc EXCEPT !["broadcast"] = "advance"]
      BY <1>4, <2>3 DEF UpdateUnstartedTransactionWithNonce, Goto
    <3>2. UNCHANGED <<confirmed, fatal, transactions, txIDCount, nonceMap, lastPurge>>
      BY <1>4 DEF UpdateUnstartedTransactionWithNonce
    <3>3. id \in Ids /\ unstarted' \in Seq(Ids)
      BY <1>0, <3>1 DEF Dequeued, StoreTypeOK
    <3>4. tx' \in [Ids -> Record]
      BY <1>0, <3>1, <3>3, RecordUpdates DEF StoreTypeOK, States
    <3>5. unconfirmed' \in [Nonces -> Ids \cup {NoTx}]
      BY <1>0, <3>1, <3>3 DEF StoreTypeOK
    <3>6. StoreTypeOK'
      BY <1>0, <3>2, <3>3, <3>4, <3>5 DEF StoreTypeOK
    <3>7. copy \in Copy
      <4>1. tx[id].isPurgeable \in BOOLEAN
        BY <1>0, <3>3 DEF StoreTypeOK, Record
      <4>2. nonceMap \in 0..(MaxNonce + 1)
        BY <1>0 DEF LoopTypeOK
      <4> QED
        BY <3>3, <4>1, <4>2 DEF Copy
    <3>8. LoopTypeOK'
      BY <1>0, <3>1, <3>2, <3>7 DEF LoopTypeOK
    <3>9. CopiesOK'
      BY <1>0, <3>1, <3>3 DEF LoopTypeOK, CopiesOK
    <3> QED
      BY <2>1, <3>6, <3>8, <3>9 DEF TypeInv, TypeOK
  <2> QED
    BY <2>2, <2>3
<1>5. CASE SetNonce
  <2>1. cur["broadcast"].nonce \in Nonces
    BY <1>0, <1>5, <1>a DEF SetNonce, CopiesOK, Busy
  <2>2. nonceMap' \in 0..(MaxNonce + 1)
    BY <1>5, <2>1, BoundsAssumption DEF SetNonce, NextNonce, Nonces
  <2>3. LoopTypeOK'
    BY <1>0, <1>5, <2>2 DEF SetNonce, Goto, LoopTypeOK
  <2>4. CopiesOK'
    BY <1>0, <1>5 DEF SetNonce, Goto, LoopTypeOK, CopiesOK, Busy
  <2> QED
    BY <1>5, <1>b, <1>c, <2>3, <2>4 DEF SetNonce, TypeInv, TypeOK
<1>6. CASE CreateAndSendAttempt("broadcast")
  BY <1>6, <1>a, AttemptTypeInv
<1> QED
  BY <1>1, <1>2, <1>3, <1>4, <1>5, <1>6 DEF BroadcastTransaction
LEMMA BackfillTypeInv ==
    ASSUME TypeInv, BackfillTransactions
    PROVE  TypeInv'
<1>0. StoreTypeOK /\ LoopTypeOK /\ NodeTypeOK /\ CopiesOK
  BY DEF TypeInv, TypeOK
<1>a. "backfill" \in Threads
  BY DEF Threads
<1>b. ASSUME UNCHANGED storeVars PROVE StoreTypeOK'
  BY <1>0, <1>b DEF storeVars, StoreTypeOK
<1>c. ASSUME UNCHANGED nodeVars PROVE NodeTypeOK'
  BY <1>0, <1>c DEF nodeVars, NodeTypeOK
<1>1. CASE NonceAt
  <2>1. Len(chain) \in 0..(MaxNonce + 1)
    BY <1>0, BoundsAssumption DEF NodeTypeOK
  <2>2. cur' \in [Threads -> Copy]
    BY <1>0, <1>1, <2>1 DEF NonceAt, LoopTypeOK, Copy
  <2>3. LoopTypeOK'
    BY <1>0, <1>1, <2>2 DEF NonceAt, Goto, LoopTypeOK
  <2>4. CopiesOK'
    BY <1>0, <1>1 DEF NonceAt, Goto, LoopTypeOK, CopiesOK, Busy
  <2> QED
    BY <1>1, <1>b, <1>c, <2>3, <2>4 DEF NonceAt, TypeInv, TypeOK
<1>2. CASE MarkConfirmedAndReorgedTransactions
  <2>1. unconfirmed \in [Nonces -> Ids \cup {NoTx}] /\ confirmed \in [Nonces -> Ids \cup {NoTx}]
    BY <1>0 DEF StoreTypeOK
  <2>2. unconfirmed' \in [Nonces -> Ids \cup {NoTx}]
    BY <1>2, <2>1 DEF MarkConfirmedAndReorgedTransactions
  <2>3. confirmed' \in [Nonces -> Ids \cup {NoTx}]
    BY <1>2, <2>1 DEF MarkConfirmedAndReorgedTransactions
  <2>4. tx' \in [Ids -> Record]
    BY <1>0, <1>2, RecordUpdates DEF MarkConfirmedAndReorgedTransactions, StoreTypeOK, States
  <2>5. StoreTypeOK'
    BY <1>0, <1>2, <2>2, <2>3, <2>4 DEF MarkConfirmedAndReorgedTransactions, StoreTypeOK
  <2>6. LoopTypeOK' /\ CopiesOK'
    BY <1>0, <1>2, <1>a, GotoTypeOK DEF MarkConfirmedAndReorgedTransactions, Busy
  <2> QED
    BY <1>2, <1>c, <2>5, <2>6 DEF MarkConfirmedAndReorgedTransactions, TypeInv, TypeOK
<1>3. CASE FetchUnconfirmedTransaction
  <2> DEFINE id == IF latestNonce \in Nonces THEN unconfirmed[latestNonce] ELSE NoTx
             copy(purge) == [id |-> id, nonce |-> latestNonce, isPurgeable |-> purge]
  <2>1. StoreTypeOK' /\ NodeTypeOK' /\ nonceMap' = nonceMap
    BY <1>3, <1>b, <1>c DEF FetchUnconfirmedTransaction
  <2>2. \/ Return("backfill") /\ UNCHANGED lastPurge
        \/ Goto("backfill", "gap") /\ UNCHANGED <<cur, lastPurge>>
        \/ /\ id # NoTx
           /\ \E purge \in BOOLEAN, label \in {"purge", "create"} :
                /\ cur' = [cur EXCEPT !["backfill"] = copy(purge)]
                /\ pc' = [pc EXCEPT !["backfill"] = label]
           /\ lastPurge' \in {0, lastPurge}
    <3>1. id # NoTx => tx[id].isPurgeable \in BOOLEAN
      BY <1>0 DEF StoreTypeOK, Record
    <3> QED
      BY <1>3, <3>1 DEF FetchUnconfirmedTransaction, Goto
  <2>3. CASE Return("backfill") /\ UNCHANGED lastPurge
    BY <1>0, <1>a, <2>1, <2>3, ReturnTypeOK DEF TypeInv, TypeOK
  <2>4. CASE Goto("backfill", "gap") /\ UNCHANGED <<cur, lastPurge>>
    BY <1>0, <1>a, <2>1, <2>4, GotoTypeOK DEF TypeInv, TypeOK, Busy
  <2>5. CASE /\ id # NoTx
             /\ \E purge \in BOOLEAN, label \in {"purge", "create"} :
                  /\ cur' = [cur EXCEPT !["backfill"] = copy(purge)]
                  /\ pc' = [pc EXCEPT !["backfill"] = label]
             /\ lastPurge' \in {0, lastPurge}
    <3>1. id \in Ids /\ latestNonce \in Nonces
      BY <1>0, <2>5 DEF StoreTypeOK
    <3>2. \A purge \in BOOLEAN : copy(purge) \in Copy
      BY <3>1, BoundsAssumption DEF Copy, Nonces
    <3>3. lastPurge' \in Ages
      BY <1>0, <2>5, LimitsAssumption DEF LoopTypeOK, Ages, MaxAge
    <3>4. LoopTypeOK'
      BY <1>0, <2>1, <2>5, <3>2, <3>3 DEF LoopTypeOK
    <3>5. CopiesOK'
      BY <1>0, <2>5, <3>1 DEF LoopTypeOK, CopiesOK
    <3> QED
      BY <2>1, <3>4, <3>5 DEF TypeInv, TypeOK
  <2> QED
    BY <2>2, <2>3, <2>4, <2>5
<1>4. CASE MarkUnconfirmedTransactionPurgeable
  <2>1. cur["backfill"].nonce \in Nonces
    BY <1>0, <1>4, <1>a DEF MarkUnconfirmedTransactionPurgeable, CopiesOK, Busy
  <2>2. tx' \in [Ids -> Record]
    <3>1. tx \in [Ids -> Record] /\ unconfirmed[cur["backfill"].nonce] \in Ids \cup {NoTx}
      BY <1>0, <2>1 DEF StoreTypeOK
    <3>2. \A id \in Ids : [tx[id] EXCEPT !.isPurgeable = TRUE] \in Record
      BY <3>1, RecordUpdates
    <3> QED
      BY <1>4, <3>1, <3>2 DEF MarkUnconfirmedTransactionPurgeable
  <2>3. StoreTypeOK'
    BY <1>0, <1>4, <2>2 DEF MarkUnconfirmedTransactionPurgeable, StoreTypeOK
  <2>4. LoopTypeOK' /\ CopiesOK'
    BY <1>0, <1>4, <1>a, ReturnTypeOK, GotoTypeOK DEF MarkUnconfirmedTransactionPurgeable, Busy
  <2> QED
    BY <1>4, <1>c, <2>3, <2>4 DEF MarkUnconfirmedTransactionPurgeable, TypeInv, TypeOK
<1>5. CASE CreateEmptyUnconfirmedTransaction
  <2>1. NodeTypeOK'
    BY <1>5, <1>c DEF CreateEmptyUnconfirmedTransaction
  <2>2. CASE Return("backfill") /\ UNCHANGED <<unconfirmed, transactions, tx, txIDCount>>
    <3>1. StoreTypeOK'
      BY <1>0, <1>5, <2>2 DEF CreateEmptyUnconfirmedTransaction, StoreTypeOK
    <3>2. LoopTypeOK' /\ CopiesOK'
      BY <1>0, <1>5, <1>a, <2>2, ReturnTypeOK DEF CreateEmptyUnconfirmedTransaction
    <3> QED
      BY <2>1, <3>1, <3>2 DEF TypeInv, TypeOK
  <2>3. CASE ~(Return("backfill") /\ UNCHANGED <<unconfirmed, transactions, tx, txIDCount>>)
    <3>1. /\ latestNonce \in Nonces
          /\ txIDCount < MaxIds /\ txIDCount' = txIDCount + 1
          /\ unconfirmed' = [unconfirmed EXCEPT ![latestNonce] = txIDCount]
          /\ transactions' = transactions \cup {txIDCount}
          /\ tx' = [tx EXCEPT ![txIDCount].state = "unconfirmed", ![txIDCount].isEmpty = TRUE]
          /\ cur' = [cur EXCEPT !["backfill"].id = txIDCount]
          /\ pc' = [pc EXCEPT !["backfill"] = "create"]
      BY <1>5, <2>3 DEF CreateEmptyUnconfirmedTransaction, Goto
    <3>2. UNCHANGED <<unstarted, confirmed, fatal, nonceMap, lastPurge>>
      BY <1>5 DEF CreateEmptyUnconfirmedTransaction
    <3>3. txIDCount \in Ids /\ txIDCount' \in 0..MaxIds
      <4>1. txIDCount \in 0..MaxIds
        BY <1>0 DEF StoreTypeOK
      <4> QED
        BY <3>1, <4>1, BoundsAssumption DEF Ids
    <3>4. tx' \in [Ids -> Record]
      <4>1. tx \in [Ids -> Record]
        BY <1>0 DEF StoreTypeOK
      <4>2. [tx[txIDCount] EXCEPT !.state = "unconfirmed", !.isEmpty = TRUE] \in Record
        BY <3>3, <4>1, RecordUpdates DEF States
      <4> QED
        BY <3>1, <3>3, <4>1, <4>2
    <3>5. StoreTypeOK'
      BY <1>0, <3>1, <3>2, <3>3, <3>4 DEF StoreTypeOK
    <3>6. cur' \in [Threads -> Copy]
      BY <1>0, <3>1, <3>3 DEF LoopTypeOK, Copy
    <3>7. LoopTypeOK'
      BY <1>0, <3>1, <3>2, <3>6 DEF LoopTypeOK
    <3>8. CopiesOK'
      BY <1>0, <1>a, <3>1, <3>3 DEF LoopTypeOK, CopiesOK, latestNonce, Copy
    <3> QED
      BY <2>1, <3>5, <3>7, <3>8 DEF TypeInv, TypeOK
  <2> QED
    BY <2>2, <2>3
<1>6. CASE CreateAndSendAttempt("backfill")
  BY <1>6, <1>a, AttemptTypeInv
<1> QED
  BY <1>1, <1>2, <1>3, <1>4, <1>5, <1>6 DEF BackfillTransactions

LEMMA StutterTypeInv == TypeInv /\ UNCHANGED vars => TypeInv'
BY DEF TypeInv, TypeOK, StoreTypeOK, LoopTypeOK, NodeTypeOK, CopiesOK, vars, storeVars, loopVars,
       nodeVars

(* The store, the two loops and the node always have the shape of their types,
   and a goroutine that works on a transaction has one: no step of one goroutine,
   of a caller or of the chain leaves the other with a dangling copy. *)
THEOREM TypeCorrect == Spec => []TypeOK
<1>1. TypeInv /\ [Next]_vars => TypeInv'
  BY BroadcastTypeInv, BackfillTypeInv, EnvironmentTypeInv, StutterTypeInv DEF Next
<1>2. TypeInv => TypeOK
  BY DEF TypeInv
<1> QED
  BY InitTypeInv, <1>1, <1>2, PTL DEF Spec
-----------------------------------------------------------------------------
(* Nonce discipline, when no earlier run left transactions in the pool. *)

LEMMA FrontierNat == ASSUME TypeInv PROVE Frontier \in Nat /\ nonceMap \in Nat
<1>1. nonceMap \in Nat
  BY BoundsAssumption DEF TypeInv, TypeOK, LoopTypeOK
<1> QED
  BY <1>1 DEF Frontier

(* A step that touches neither the two maps, the loops, the pool nor the chain. *)
LEMMA FrameNonceInv ==
    ASSUME NonceInv, UNCHANGED <<unconfirmed, confirmed, nonceMap, pc, cur, chain, mempool>>
    PROVE  NonceInv'
BY DEF NonceInv, BehindFrontier, Frontier, Held, latestNonce

LEMMA InitNonceInv == MaxForeign = 0 /\ Init => NonceInv
<1> SUFFICES ASSUME MaxForeign = 0, Init PROVE NonceInv
  OBVIOUS
<1>1. /\ unconfirmed = [n \in Nonces |-> NoTx] /\ confirmed = [n \in Nonces |-> NoTx]
      /\ nonceMap = 0 /\ chain = <<>>
      /\ pc = [th \in Threads |-> IF th = "broadcast" THEN "init" ELSE "idle"]
  BY DEF Init
<1>2. \A n \in Nonces : mempool[n] = NoAttempt
  BY DEF Init, Nonces
<1>3. Held(unconfirmed) = {} /\ Held(confirmed) = {}
  BY <1>1 DEF Held
<1>4. pc["broadcast"] = "init" /\ pc["backfill"] = "idle" /\ \A th \in Threads : pc[th] \notin Busy
  BY <1>1 DEF Threads, Busy
<1>5. Frontier = 0
  BY <1>1, <1>4 DEF Frontier
<1> QED
  BY <1>1, <1>2, <1>3, <1>4, <1>5 DEF NonceInv, BehindFrontier

LEMMA EnvironmentNonceInv ==
    ASSUME TypeInv, NonceInv, Environment
    PROVE  NonceInv'
<1>0. StoreTypeOK /\ LoopTypeOK /\ NodeTypeOK /\ Frontier \in Nat
  BY FrontierNat DEF TypeInv, TypeOK
<1>a. Frontier' = Frontier /\ latestNonce' = latestNonce
  BY DEF Environment, CreateTransaction, AbandonPendingTransactions, Mine, Reorg,
         DropFromMempool, NextBlock, loopVars, Frontier, latestNonce
<1>1. CASE CreateTransaction
  BY <1>1, FrameNonceInv DEF CreateTransaction, loopVars, nodeVars
<1>2. CASE AbandonPendingTransactions
  <2>1. Held(unconfirmed') = {}
    BY <1>2 DEF AbandonPendingTransactions, Cleared, Held
  <2>2. UNCHANGED <<confirmed, nonceMap, pc, cur, chain, mempool>>
    BY <1>2 DEF AbandonPendingTransactions, loopVars
  <2> QED
    BY <1>a, <2>1, <2>2 DEF NonceInv, BehindFrontier, Held
<1>3. CASE Mine
  <2>1. UNCHANGED <<unconfirmed, confirmed, nonceMap, pc, cur>>
    BY <1>3 DEF Mine, storeVars, loopVars
  <2>2. Len(chain') = Len(chain) + 1 /\ Len(chain) \in Nat
    BY <1>0, <1>3 DEF Mine, NodeTypeOK
  <2>3. Len(chain) < Frontier
    BY <1>3 DEF Mine, NonceInv, BehindFrontier
  <2>4. Len(chain') <= Frontier
    BY <1>0, <2>2, <2>3
  <2>5. \A n \in Nonces : mempool'[n] # NoAttempt => mempool[n] # NoAttempt
    BY <1>0, <1>3 DEF Mine, NodeTypeOK
  <2> QED
    BY <1>a, <2>1, <2>4, <2>5 DEF NonceInv, BehindFrontier, Held
<1>4. CASE Reorg
  <2>1. UNCHANGED <<unconfirmed, confirmed, nonceMap, pc, cur>>
    BY <1>4 DEF Reorg, storeVars, loopVars
  <2>2. Len(chain) \in Nat /\ Len(chain) <= Frontier
    BY <1>0 DEF NodeTypeOK, NonceInv, BehindFrontier
  <2>3. PICK height \in 0..(Len(chain) - 1) :
            /\ chain' = SubSeq(chain, 1, height)
            /\ mempool' = [n \in Nonces |-> IF n \in height..(Len(chain) - 1)
                                              THEN chain[n + 1] ELSE mempool[n]]
    BY <1>4 DEF Reorg
  <2>4. Len(chain') = height
    BY <1>0, <2>2, <2>3 DEF NodeTypeOK
  <2>5. Len(chain') <= Frontier
    BY <1>0, <2>2, <2>3, <2>4
  <2>6. \A n \in Nonces : mempool'[n] # NoAttempt => n < Frontier
    <3>1. \A n \in Nonces : n \in height..(Len(chain) - 1) => n < Frontier
      BY <1>0, <2>2, <2>3
    <3>2. \A n \in Nonces : n \notin height..(Len(chain) - 1) => mempool'[n] = mempool[n]
      BY <2>3
    <3> QED
      BY <3>1, <3>2 DEF NonceInv, BehindFrontier
  <2> QED
    BY <1>a, <2>1, <2>5, <2>6 DEF NonceInv, BehindFrontier, Held
<1>5. CASE DropFromMempool
  <2>1. UNCHANGED <<unconfirmed, confirmed, nonceMap, pc, cur, chain>>
    BY <1>5 DEF DropFromMempool, storeVars, loopVars
  <2>2. \A n \in Nonces : mempool'[n] # NoAttempt => mempool[n] # NoAttempt
    BY <1>0, <1>5 DEF DropFromMempool, NodeTypeOK
  <2> QED
    BY <1>a, <2>1, <2>2 DEF NonceInv, BehindFrontier, Held
<1>6. CASE NextBlock
  BY <1>6, FrameNonceInv DEF NextBlock, nodeVars
<1> QED
  BY <1>1, <1>2, <1>3, <1>4, <1>5, <1>6 DEF Environment

(* A step within the work on one transaction: the goroutine returns or goes on,
   and the pool may get the nonce it works at. *)
LEMMA WorkNonceInv ==
    ASSUME TypeInv, NonceInv, NEW th \in Threads,
           pc[th] \in {"idle", "pending", "assign", "create", "send", "recheck", "update",
                       "fetch", "gap", "purge"},
           NEW label \in {"idle", "pending", "assign", "create", "send", "recheck", "update"},
           pc' = [pc EXCEPT ![th] = label],
           label \in Busy => pc[th] \in Busy /\ cur' = cur,
           \A other \in Threads : other # th => cur'[other] = cur[other],
           UNCHANGED <<unconfirmed, confirmed, nonceMap, chain>>,
           \A n \in Nonces : mempool'[n] # NoAttempt => n < Frontier
    PROVE  NonceInv'
<1>0. LoopTypeOK
  BY DEF TypeInv, TypeOK
<1>1. \A other \in Threads : pc'[other] = IF other = th THEN label ELSE pc[other]
  BY <1>0 DEF LoopTypeOK
<1>2. Frontier' = Frontier
  BY <1>1 DEF Frontier, Threads
<1>3. \A other \in Threads : pc'[other] \in Busy => pc[other] \in Busy /\ cur'[other] = cur[other]
  BY <1>1
<1>4. BehindFrontier'
  BY <1>2, <1>3 DEF NonceInv, BehindFrontier, Held
<1>5. pc'["broadcast"] = "init" => nonceMap' = 0
  BY <1>1 DEF NonceInv, Threads
<1>6. pc'["broadcast"] = "advance" => cur'["broadcast"].nonce = nonceMap'
  BY <1>1 DEF NonceInv, Threads
<1>7. /\ pc'["backfill"] \in {"mark", "fetch"} => latestNonce' <= Frontier'
      /\ pc'["backfill"] = "fetch" => \A n \in Held(unconfirmed') : latestNonce' <= n
      /\ pc'["backfill"] = "gap" => latestNonce' < Frontier'
  BY <1>1, <1>2 DEF NonceInv, Threads, latestNonce
<1> QED
  BY <1>4, <1>5, <1>6, <1>7 DEF NonceInv, Held

LEMMA AttemptNonceInv ==
    ASSUME TypeInv, NonceInv, NEW th \in Threads, CreateAndSendAttempt(th)
    PROVE  NonceInv'
<1>0. LoopTypeOK /\ NodeTypeOK
  BY DEF TypeInv, TypeOK
<1>1. /\ pc[th] \in {"create", "send", "recheck", "update"}
      /\ UNCHANGED <<unconfirmed, confirmed, nonceMap, chain>>
  BY DEF CreateAndSendAttempt, CreateAttempt, SendTransaction, RecheckPendingNonce,
         UpdateTransactionBroadcast, storeVars, nodeVars
<1>2. \E label \in {"idle", "send", "recheck", "update"} :
         /\ pc' = [pc EXCEPT ![th] = label]
         /\ label = "idle" => cur' = [cur EXCEPT ![th] = NoCopy]
         /\ label # "idle" => cur' = cur
  BY DEF CreateAndSendAttempt, CreateAttempt, SendTransaction, RecheckPendingNonce,
         UpdateTransactionBroadcast, Return, Goto
<1>3. mempool' = mempool \/ mempool' = [mempool EXCEPT ![cur[th].nonce] = CurrentAttempt(th)]
  BY DEF CreateAndSendAttempt, CreateAttempt, SendTransaction, RecheckPendingNonce,
         UpdateTransactionBroadcast, nodeVars
<1>4. cur[th].nonce < Frontier
  BY <1>1 DEF NonceInv, BehindFrontier, Busy
<1>5. \A n \in Nonces : mempool'[n] # NoAttempt => n < Frontier
  BY <1>0, <1>3, <1>4 DEF NonceInv, BehindFrontier, NodeTypeOK
<1>6. \A other \in Threads : other # th => cur'[other] = cur[other]
  BY <1>0, <1>2 DEF LoopTypeOK
<1>7. pc[th] \in Busy
  BY <1>1 DEF Busy
<1> QED
  BY <1>1, <1>2, <1>5, <1>6, <1>7, WorkNonceInv DEF Busy
LEMMA BroadcastNonceInv ==
    ASSUME TypeInv, NonceInv, BroadcastTransaction
    PROVE  NonceInv'
<1>0. StoreTypeOK /\ LoopTypeOK /\ NodeTypeOK /\ Frontier \in Nat /\ nonceMap \in Nat
  BY FrontierNat DEF TypeInv, TypeOK
<1>a. "broadcast" \in Threads /\ "backfill" \in Threads
  BY DEF Threads
<1>b. \A n \in Nonces : mempool[n] # NoAttempt => n < Frontier
  BY DEF NonceInv, BehindFrontier
<1>1. CASE InitializeNonce
  <2>1. /\ nonceMap = 0 /\ nonceMap' = PendingNonce
        /\ pc["broadcast"] = "init" /\ pc' = [pc EXCEPT !["broadcast"] = "idle"]
        /\ UNCHANGED <<unconfirmed, confirmed, cur, chain, mempool>>
    BY <1>1 DEF InitializeNonce, Goto, NonceInv, storeVars, nodeVars
  <2>2. PendingNonce \in Nat
    <3>1. Len(chain) \in Nat
      BY <1>0 DEF NodeTypeOK
    <3> QED
      BY <1>0, <3>1, PendingNonceInRange, BoundsAssumption
  <2>3. pc'["broadcast"] = "idle" /\ pc'["backfill"] = pc["backfill"]
    BY <1>0, <2>1 DEF LoopTypeOK, Threads
  <2>4. Frontier = 0 /\ Frontier' \in Nat
    BY <2>1, <2>2, <2>3 DEF Frontier
  <2>5. BehindFrontier'
    <3>1. Held(unconfirmed) = {} /\ Held(confirmed) = {} /\ Len(chain) = 0
          /\ \A n \in Nonces : mempool[n] = NoAttempt
      BY <1>0, <2>4, BoundsAssumption DEF NonceInv, BehindFrontier, Held, Nonces, NodeTypeOK
    <3>2. \A th \in Threads : pc[th] \in Busy => FALSE
      BY <1>0, <2>4, BoundsAssumption
      DEF NonceInv, BehindFrontier, TypeInv, CopiesOK, Nonces
    <3> QED
      BY <1>a, <2>1, <2>3, <2>4, <3>1, <3>2 DEF BehindFrontier, Held, Threads, Busy
  <2>6. latestNonce' = latestNonce /\ (pc["backfill"] \in {"mark", "fetch"} => latestNonce <= 0)
        /\ pc["backfill"] # "gap" /\ latestNonce \in Nat
    <3>1. latestNonce \in Nat
      BY <1>0, <1>a, BoundsAssumption DEF LoopTypeOK, Copy, latestNonce
    <3> QED
      BY <2>1, <2>4, <3>1 DEF NonceInv, latestNonce
  <2> QED
    BY <1>0, <2>1, <2>3, <2>4, <2>5, <2>6 DEF NonceInv, Held
<1>2. CASE CheckInFlight
  <2>1. PICK label \in {"pending", "assign"} : pc' = [pc EXCEPT !["broadcast"] = label]
    BY <1>2 DEF CheckInFlight, Goto
  <2>2. UNCHANGED <<unconfirmed, confirmed, nonceMap, cur, chain, mempool>>
        /\ pc["broadcast"] = "idle"
    BY <1>2 DEF CheckInFlight, storeVars, nodeVars
  <2> QED
    BY <1>a, <1>b, <2>1, <2>2, WorkNonceInv DEF Busy
<1>3. CASE CheckPendingNonce
  <2>1. PICK label \in {"idle", "assign"} : pc' = [pc EXCEPT !["broadcast"] = label]
    BY <1>3 DEF CheckPendingNonce, Goto
  <2>2. UNCHANGED <<unconfirmed, confirmed, nonceMap, cur, chain, mempool>>
        /\ pc["broadcast"] = "pending"
    BY <1>3 DEF CheckPendingNonce, storeVars
  <2> QED
    BY <1>a, <1>b, <2>1, <2>2, WorkNonceInv DEF Busy
<1>4. CASE UpdateUnstartedTransactionWithNonce
  <2>1. pc["broadcast"] = "assign" /\ UNCHANGED <<confirmed, nonceMap, chain, mempool>>
    BY <1>4 DEF UpdateUnstartedTransactionWithNonce, nodeVars
  <2>2. CASE UNCHANGED unconfirmed /\ Return("broadcast")
    <3>1. pc' = [pc EXCEPT !["broadcast"] = "idle"] /\ cur' = [cur EXCEPT !["broadcast"] = NoCopy]
      BY <2>2 DEF Return, Goto
    <3>2. \A other \in Threads : other # "broadcast" => cur'[other] = cur[other]
      BY <1>0, <3>1 DEF LoopTypeOK
    <3> QED
      BY <1>a, <1>b, <2>1, <2>2, <3>1, <3>2, WorkNonceInv DEF Busy
  <2>3. CASE ~(UNCHANGED unconfirmed /\ Return("broadcast"))
    <3> DEFINE id == Head(unstarted)
               copy == [id |-> id, nonce |-> nonceMap, isPurgeable |-> tx[id].isPurgeable]
    <3>1. /\ nonceMap \in Nonces /\ unstarted # <<>>
          /\ unconfirmed' = [unconfirmed EXCEPT ![nonceMap] = id]
          /\ cur' = [cur EXCEPT !["broadcast"] = copy]
          /\ pc' = [pc EXCEPT !["broadcast"] = "advance"]
      BY <1>4, <2>3 DEF UpdateUnstartedTransactionWithNonce, Goto
    <3>2. pc'["broadcast"] = "advance" /\ pc'["backfill"] = pc["backfill"]
      BY <1>0, <3>1 DEF LoopTypeOK, Threads
    <3>3. Frontier = nonceMap /\ Frontier' = nonceMap + 1
      BY <2>1, <3>2 DEF Frontier
    <3>4. cur'["broadcast"].nonce = nonceMap /\ cur'["backfill"] = cur["backfill"]
      BY <1>0, <3>1 DEF LoopTypeOK, Threads
    <3>5. Held(unconfirmed') \subseteq Held(unconfirmed) \cup {nonceMap}
      BY <1>0, <3>1 DEF StoreTypeOK, Held
    <3>6. /\ \A n \in Held(unconfirmed) \cup Held(confirmed) : n \in Nat /\ n < nonceMap
          /\ \A n \in Nonces : mempool[n] # NoAttempt => n < nonceMap
          /\ Len(chain) <= nonceMap
          /\ pc["backfill"] \in Busy => cur["backfill"].nonce < nonceMap
      BY <1>a, <3>3, BoundsAssumption DEF NonceInv, BehindFrontier, Held, Nonces
    <3>7. Len(chain) \in Nat /\ cur["backfill"].nonce \in Nat
      BY <1>0, <1>a, BoundsAssumption DEF NodeTypeOK, LoopTypeOK, Copy
    <3>8. BehindFrontier'
      <4>1. \A n \in Held(unconfirmed') \cup Held(confirmed') : n < Frontier'
        BY <1>0, <2>1, <3>3, <3>5, <3>6
      <4>2. \A n \in Nonces : mempool'[n] # NoAttempt => n < Frontier'
        BY <1>0, <2>1, <3>3, <3>6, BoundsAssumption DEF Nonces
      <4>3. Len(chain') <= Frontier'
        BY <1>0, <2>1, <3>3, <3>6, <3>7
      <4>4. \A th \in Threads : pc'[th] \in Busy => cur'[th].nonce < Frontier'
        BY <1>0, <3>2, <3>3, <3>4, <3>6, <3>7 DEF Threads
      <4> QED
        BY <4>1, <4>2, <4>3, <4>4 DEF BehindFrontier
    <3>9. Held(unconfirmed') \cap Held(confirmed') = {}
      BY <1>0, <2>1, <3>5, <3>6 DEF NonceInv
    <3>10. /\ pc'["backfill"] \in {"mark", "fetch"} => latestNonce' <= Frontier'
           /\ pc'["backfill"] = "fetch" => \A n \in Held(unconfirmed') : latestNonce' <= n
           /\ pc'["backfill"] = "gap" => latestNonce' < Frontier'
      <4>1. latestNonce' = latestNonce /\ latestNonce \in Nat
        BY <3>4, <3>7 DEF latestNonce
      <4> QED
        BY <1>0, <3>2, <3>3, <3>5, <4>1 DEF NonceInv
    <3> QED
      BY <2>1, <3>2, <3>4, <3>8, <3>9, <3>10 DEF NonceInv
  <2> QED
    BY <2>2, <2>3
<1>5. CASE SetNonce
  <2>1. /\ pc["broadcast"] = "advance" /\ pc' = [pc EXCEPT !["broadcast"] = "create"]
        /\ nonceMap' = cur["broadcast"].nonce + 1
        /\ UNCHANGED <<unconfirmed, confirmed, cur, chain, mempool>>
    BY <1>5 DEF SetNonce, NextNonce, Goto, storeVars, nodeVars
  <2>2. pc'["broadcast"] = "create" /\ pc'["backfill"] = pc["backfill"]
    BY <1>0, <2>1 DEF LoopTypeOK, Threads
  <2>3. Frontier' = Frontier
    BY <2>1, <2>2 DEF Frontier, NonceInv
  <2>4. BehindFrontier'
    BY <2>1, <2>2, <2>3 DEF NonceInv, BehindFrontier, Held, Threads, Busy
  <2> QED
    BY <2>1, <2>2, <2>3, <2>4 DEF NonceInv, Held, latestNonce
<1>6. CASE CreateAndSendAttempt("broadcast")
  BY <1>6, <1>a, AttemptNonceInv
<1> QED
  BY <1>1, <1>2, <1>3, <1>4, <1>5, <1>6 DEF BroadcastTransaction

LEMMA BackfillNonceInv ==
    ASSUME TypeInv, NonceInv, BackfillTransactions
    PROVE  NonceInv'
<1>0. StoreTypeOK /\ LoopTypeOK /\ NodeTypeOK /\ Frontier \in Nat /\ latestNonce \in Nat
  <2>1. cur["backfill"] \in Copy
    BY DEF TypeInv, TypeOK, LoopTypeOK, Threads
  <2> QED
    BY <2>1, FrontierNat, BoundsAssumption DEF TypeInv, TypeOK, Copy, latestNonce
<1>a. "broadcast" \in Threads /\ "backfill" \in Threads
  BY DEF Threads
<1>b. \A n \in Nonces : mempool[n] # NoAttempt => n < Frontier
  BY DEF NonceInv, BehindFrontier
<1>c. ASSUME NEW label, pc' = [pc EXCEPT !["backfill"] = label], UNCHANGED nonceMap
      PROVE  pc'["backfill"] = label /\ pc'["broadcast"] = pc["broadcast"] /\ Frontier' = Frontier
  BY <1>0, <1>c DEF LoopTypeOK, Threads, Frontier
<1>1. CASE NonceAt
  <2>1. /\ cur' = [cur EXCEPT !["backfill"].nonce = Len(chain)]
        /\ pc' = [pc EXCEPT !["backfill"] = "mark"]
        /\ UNCHANGED <<unconfirmed, confirmed, nonceMap, chain, mempool>>
    BY <1>1 DEF NonceAt, Goto, storeVars, nodeVars
  <2>2. pc'["backfill"] = "mark" /\ pc'["broadcast"] = pc["broadcast"] /\ Frontier' = Frontier
    BY <1>c, <2>1
  <2>3. cur'["broadcast"] = cur["broadcast"] /\ latestNonce' = Len(chain)
    BY <1>0, <1>a, <2>1 DEF LoopTypeOK, Copy, latestNonce
  <2>4. BehindFrontier'
    BY <2>1, <2>2, <2>3 DEF NonceInv, BehindFrontier, Held, Threads, Busy
  <2> QED
    BY <2>1, <2>2, <2>3, <2>4 DEF NonceInv, BehindFrontier, Held
<1>2. CASE MarkConfirmedAndReorgedTransactions
  <2>1. /\ pc["backfill"] = "mark" /\ pc' = [pc EXCEPT !["backfill"] = "fetch"]
        /\ UNCHANGED <<nonceMap, cur, chain, mempool>>
    BY <1>2 DEF MarkConfirmedAndReorgedTransactions, Goto, nodeVars
  <2>2. pc'["backfill"] = "fetch" /\ pc'["broadcast"] = pc["broadcast"] /\ Frontier' = Frontier
    BY <1>c, <2>1
  <2>3. \A n \in Held(unconfirmed') :
           n \in Held(unconfirmed) \cup Held(confirmed) /\ latestNonce <= n
    BY <1>0, <1>2, BoundsAssumption
    DEF MarkConfirmedAndReorgedTransactions, Held, Passed, Nonces
  <2>4. \A n \in Held(confirmed') : n \in Held(unconfirmed) \cup Held(confirmed) /\ n < latestNonce
    BY <1>0, <1>2, BoundsAssumption
    DEF MarkConfirmedAndReorgedTransactions, Held, Passed, Nonces
  <2>5. Held(unconfirmed') \cap Held(confirmed') = {}
    <3>1. \A n \in Held(unconfirmed') : n \in Nat
      BY BoundsAssumption DEF Held, Nonces
    <3> QED
      BY <1>0, <2>3, <2>4, <3>1
  <2>6. BehindFrontier'
    BY <2>1, <2>2, <2>3, <2>4 DEF NonceInv, BehindFrontier, Threads, Busy
  <2> QED
    BY <2>1, <2>2, <2>3, <2>5, <2>6 DEF NonceInv, latestNonce
<1>3. CASE FetchUnconfirmedTransaction
  <2> DEFINE id == IF latestNonce \in Nonces THEN unconfirmed[latestNonce] ELSE NoTx
  <2>1. pc["backfill"] = "fetch" /\ UNCHANGED <<unconfirmed, confirmed, nonceMap, chain, mempool>>
    BY <1>3 DEF FetchUnconfirmedTransaction, storeVars, nodeVars
  <2>2. \/ Return("backfill")
        \/ Goto("backfill", "gap") /\ UNCHANGED cur /\ Held(unconfirmed) # {}
        \/ /\ id # NoTx
           /\ \E purge \in BOOLEAN, label \in {"purge", "create"} :
                /\ cur' = [cur EXCEPT !["backfill"] =
                             [id |-> id, nonce |-> latestNonce, isPurgeable |-> purge]]
                /\ pc' = [pc EXCEPT !["backfill"] = label]
    <3>1. id # NoTx => tx[id].isPurgeable \in BOOLEAN
      BY <1>0 DEF StoreTypeOK, Record
    <3> QED
      BY <1>3, <3>1 DEF FetchUnconfirmedTransaction, AllConfirmed, Goto
  <2>3. CASE Return("backfill")
    <3>1. pc' = [pc EXCEPT !["backfill"] = "idle"] /\ cur' = [cur EXCEPT !["backfill"] = NoCopy]
      BY <2>3 DEF Return, Goto
    <3>2. \A other \in Threads : other # "backfill" => cur'[other] = cur[other]
      BY <1>0, <3>1 DEF LoopTypeOK
    <3> QED
      BY <1>a, <1>b, <2>1, <3>1, <3>2, WorkNonceInv DEF Busy
  <2>4. CASE Goto("backfill", "gap") /\ UNCHANGED cur /\ Held(unconfirmed) # {}
    <3>1. pc'["backfill"] = "gap" /\ pc'["broadcast"] = pc["broadcast"] /\ Frontier' = Frontier
      BY <1>c, <2>1, <2>4 DEF Goto
    <3>2. latestNonce < Frontier
      <4>1. PICK n \in Held(unconfirmed) : latestNonce <= n /\ n < Frontier /\ n \in Nat
        BY <2>1, <2>4, BoundsAssumption DEF NonceInv, BehindFrontier, Held, Nonces
      <4> QED
        BY <1>0, <4>1
    <3>3. BehindFrontier'
      BY <2>1, <2>4, <3>1 DEF NonceInv, BehindFrontier, Held, Threads, Busy
    <3> QED
      BY <2>1, <2>4, <3>1, <3>2, <3>3 DEF NonceInv, Held, latestNonce
  <2>5. CASE /\ id # NoTx
             /\ \E purge \in BOOLEAN, label \in {"purge", "create"} :
                  /\ cur' = [cur EXCEPT !["backfill"] =
                               [id |-> id, nonce |-> latestNonce, isPurgeable |-> purge]]
                  /\ pc' = [pc EXCEPT !["backfill"] = label]
    <3>1. /\ pc'["backfill"] \in {"purge", "create"} /\ pc'["broadcast"] = pc["broadcast"]
          /\ Frontier' = Frontier
      BY <1>c, <2>1, <2>5
    <3>2. cur'["backfill"].nonce = latestNonce /\ cur'["broadcast"] = cur["broadcast"]
      BY <1>0, <1>a, <2>5 DEF LoopTypeOK
    <3>3. latestNonce < Frontier
      BY <2>5 DEF NonceInv, BehindFrontier, Held
    <3>4. BehindFrontier'
      BY <2>1, <3>1, <3>2, <3>3 DEF NonceInv, BehindFrontier, Held, Threads
    <3> QED
      BY <2>1, <3>1, <3>2, <3>4 DEF NonceInv, Held
  <2> QED
    BY <2>2, <2>3, <2>4, <2>5
<1>4. CASE MarkUnconfirmedTransactionPurgeable
  <2>1. /\ pc["backfill"] = "purge"
        /\ UNCHANGED <<unconfirmed, confirmed, nonceMap, chain, mempool>>
    BY <1>4 DEF MarkUnconfirmedTransactionPurgeable, nodeVars
  <2>2. PICK label \in {"idle", "create"} :
            /\ pc' = [pc EXCEPT !["backfill"] = label]
            /\ cur' = [cur EXCEPT !["backfill"] = NoCopy] \/ cur' = cur
            /\ label = "create" => cur' = cur
    BY <1>4 DEF MarkUnconfirmedTransactionPurgeable, Return, Goto
  <2>3. \A other \in Threads : other # "backfill" => cur'[other] = cur[other]
    BY <1>0, <2>2 DEF LoopTypeOK
  <2> QED
    BY <1>a, <1>b, <2>1, <2>2, <2>3, WorkNonceInv DEF Busy
<1>5. CASE CreateEmptyUnconfirmedTransaction
  <2>1. pc["backfill"] = "gap" /\ UNCHANGED <<confirmed, nonceMap, chain, mempool>>
    BY <1>5 DEF CreateEmptyUnconfirmedTransaction, nodeVars
  <2>2. CASE UNCHANGED unconfirmed /\ Return("backfill")
    <3>1. pc' = [pc EXCEPT !["backfill"] = "idle"] /\ cur' = [cur EXCEPT !["backfill"] = NoCopy]
      BY <2>2 DEF Return, Goto
    <3>2. \A other \in Threads : other # "backfill" => cur'[other] = cur[other]
      BY <1>0, <3>1 DEF LoopTypeOK
    <3> QED
      BY <1>a, <1>b, <2>1, <2>2, <3>1, <3>2, WorkNonceInv DEF Busy
  <2>3. CASE ~(UNCHANGED unconfirmed /\ Return("backfill"))
    <3>1. /\ latestNonce \in Nonces /\ confirmed[latestNonce] = NoTx
          /\ unconfirmed' = [unconfirmed EXCEPT ![latestNonce] = txIDCount]
          /\ cur' = [cur EXCEPT !["backfill"].id = txIDCount]
          /\ pc' = [pc EXCEPT !["backfill"] = "create"]
      BY <1>5, <2>3 DEF CreateEmptyUnconfirmedTransaction, Goto
    <3>2. pc'["backfill"] = "create" /\ pc'["broadcast"] = pc["broadcast"] /\ Frontier' = Frontier
      BY <1>c, <2>1, <3>1
    <3>3. Held(unconfirmed') \subseteq Held(unconfirmed) \cup {latestNonce}
      BY <1>0, <3>1 DEF StoreTypeOK, Held
    <3>4. latestNonce < Frontier /\ latestNonce \notin Held(confirmed)
      BY <2>1, <3>1 DEF NonceInv, Held
    <3>5. cur'["backfill"].nonce = latestNonce /\ cur'["broadcast"] = cur["broadcast"]
      BY <1>0, <1>a, <3>1 DEF LoopTypeOK, Copy, latestNonce
    <3>6. BehindFrontier'
      BY <2>1, <3>2, <3>3, <3>4, <3>5 DEF NonceInv, BehindFrontier, Threads
    <3>7. Held(unconfirmed') \cap Held(confirmed') = {}
      BY <2>1, <3>3, <3>4 DEF NonceInv
    <3> QED
      BY <2>1, <3>2, <3>5, <3>6, <3>7 DEF NonceInv
  <2> QED
    BY <2>2, <2>3
<1>6. CASE CreateAndSendAttempt("backfill")
  BY <1>6, <1>a, AttemptNonceInv
<1> QED
  BY <1>1, <1>2, <1>3, <1>4, <1>5, <1>6 DEF BackfillTransactions

(* A nonce is never confirmed and unconfirmed at once, and never beyond the local
   nonce, however the two loops, callers, pool and chain interleave. *)
THEOREM NonceDisciplineHolds == Spec => []NonceDiscipline
<1>1. TypeInv /\ NonceInv /\ [Next]_vars => TypeInv' /\ NonceInv'
  <2>1. TypeInv /\ UNCHANGED vars => TypeInv'
    BY StutterTypeInv
  <2>2. NonceInv /\ UNCHANGED vars => NonceInv'
    BY FrameNonceInv DEF vars, storeVars, loopVars, nodeVars
  <2> QED
    BY <2>1, <2>2, BroadcastTypeInv, BackfillTypeInv, EnvironmentTypeInv,
       BroadcastNonceInv, BackfillNonceInv, EnvironmentNonceInv DEF Next
<1>2. Init => TypeInv /\ (MaxForeign = 0 => NonceInv)
  BY InitTypeInv, InitNonceInv
<1>3. NonceInv => NonceDiscipline
  BY DEF NonceInv, BehindFrontier, NonceDiscipline
<1>4. MaxForeign # 0 => NonceDiscipline
  BY DEF NonceDiscipline
<1>5. CASE MaxForeign = 0
  <2>1. Init => TypeInv /\ NonceInv
    BY <1>2, <1>5
  <2> QED
    BY <1>1, <1>3, <2>1, PTL DEF Spec
<1>6. CASE MaxForeign # 0
  <2>1. NonceDiscipline
    BY <1>4, <1>6
  <2> QED
    BY <2>1, <1>4, <1>6, PTL
<1> QED
  BY <1>5, <1>6
=============================================================================

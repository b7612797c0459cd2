--------------------------- MODULE TxmSigningProofs ---------------------------
(* What the transaction manager signs, for every value of its limits and bounds,
   and whatever the pool holds of an earlier run: a transaction is only ever
   signed for one nonce, and two requests never for the same one; what is
   abandoned stays so; attempts are bounded; and, from a clean pool, the
   collections of the store partition its transactions by their states, what it
   calls confirmed is what the chain executed, and few transactions wait. *)
EXTENDS TxmProofs, FiniteSetTheorems

(* Transaction id is, was, or can still be signed for nonce n: the store has it
   there, a goroutine works on it there, or an attempt has left. *)
Signs(n, id) ==
    \/ unconfirmed[n] = id
    \/ confirmed[n] = id
    \/ \E th \in Threads : pc[th] \in Busy /\ cur[th].nonce = n /\ cur[th].id = id
    \/ <<n, id>> \in sent

(* Among the transactions signed, the requests are those that are not empty. *)
OneNonce ==
    \A m, n \in Nonces, id \in Ids : Signs(m, id) /\ Signs(n, id) => m = n

OneRequest ==
    \A n \in Nonces, i, j \in Ids :
        Signs(n, i) /\ Signs(n, j) /\ ~tx[i].isEmpty /\ ~tx[j].isEmpty => i = j

(* No request is ahead of the broadcast loop, which is why the next nonce it takes
   was never a request's; a gap filler may be ahead. *)
RequestsBehind ==
    \A n \in Nonces, id \in Ids : Signs(n, id) /\ ~tx[id].isEmpty => n < Frontier

SignedKnown == \A n \in Nonces, id \in Ids : Signs(n, id) => id < txIDCount

(* What waits in the queue is there once, and was never signed. *)
QueueFresh ==
    /\ \A i \in 1..Len(unstarted) : unstarted[i] < txIDCount
    /\ \A i, j \in 1..Len(unstarted) : unstarted[i] = unstarted[j] => i = j
    /\ \A i \in 1..Len(unstarted), n \in Nonces : ~Signs(n, unstarted[i])

LocalNonceInv ==
    /\ pc["broadcast"] = "init" => nonceMap = 0
    /\ pc["broadcast"] = "advance" => cur["broadcast"].nonce = nonceMap

SigningInv ==
    OneNonce /\ OneRequest /\ RequestsBehind /\ SignedKnown /\ QueueFresh /\ LocalNonceInv

-----------------------------------------------------------------------------
LEMMA InitSigningInv == Init => SigningInv
<1> SUFFICES ASSUME Init PROVE SigningInv
  OBVIOUS
<1>1. \A n \in Nonces, id \in Ids : ~Signs(n, id)
  <2>1. \A id \in Ids : id # NoTx
    BY NamesAssumption, BoundsAssumption DEF Ids
  <2>2. \A th \in Threads : pc[th] \notin Busy
    BY DEF Init, Busy
  <2>3. /\ unconfirmed = [n \in Nonces |-> NoTx]
        /\ confirmed = [n \in Nonces |-> NoTx]
        /\ sent = {}
    BY DEF Init
  <2> QED
    BY <2>1, <2>2, <2>3 DEF Signs
<1>2. QueueFresh
  BY DEF Init, QueueFresh
<1>3. LocalNonceInv
  BY DEF Init, LocalNonceInv, Threads
<1> QED
  BY <1>1, <1>2, <1>3 DEF SigningInv, OneNonce, OneRequest, RequestsBehind, SignedKnown

(* A step that signs nothing new, empties nothing, leaves the queue alone or
   clears it, and does not move the local nonce back. *)
LEMMA NothingNewSigned ==
    ASSUME TypeInv, TypeInv', SigningInv, LocalNonceInv',
           \A n \in Nonces, id \in Ids : Signs(n, id)' => Signs(n, id),
           \A id \in Ids : tx'[id].isEmpty = tx[id].isEmpty,
           Frontier <= Frontier', UNCHANGED txIDCount,
           unstarted' = unstarted \/ unstarted' = <<>>
    PROVE  SigningInv'
<1>1. \A n \in Nonces : n \in Nat
  BY BoundsAssumption DEF Nonces
<1>2. Frontier \in Nat /\ Frontier' \in Nat
  <2>1. nonceMap \in Nat /\ nonceMap' \in Nat
    BY BoundsAssumption DEF TypeInv, TypeOK, LoopTypeOK
  <2>2. Frontier' \in {nonceMap', nonceMap' + 1}
    BY DEF Frontier
  <2> QED
    BY <2>1, <2>2, FrontierNat
<1>3. OneNonce' /\ OneRequest'
  BY DEF SigningInv, OneNonce, OneRequest
<1>4. RequestsBehind'
  BY <1>1, <1>2 DEF SigningInv, RequestsBehind
<1>5. SignedKnown'
  BY DEF SigningInv, SignedKnown
<1>6. QueueFresh'
  <2>1. CASE unstarted' = unstarted
    <3>1. \A i \in 1..Len(unstarted) : unstarted[i] \in Ids
      BY DEF TypeInv, TypeOK, StoreTypeOK
    <3> QED
      BY <2>1, <3>1 DEF SigningInv, QueueFresh
  <2>2. CASE unstarted' = <<>>
    BY <2>2 DEF QueueFresh
  <2> QED
    BY <2>1, <2>2
<1> QED
  BY <1>3, <1>4, <1>5, <1>6 DEF SigningInv

(* A step of one goroutine that leaves the two maps alone, and signs at most what
   the goroutine was working on. *)
LEMMA GoroutineSignsNothingNew ==
    ASSUME NEW th \in Threads, UNCHANGED <<unconfirmed, confirmed>>,
           \A other \in Threads : other # th => pc'[other] = pc[other] /\ cur'[other] = cur[other],
           pc'[th] \in Busy => pc[th] \in Busy /\ cur'[th] = cur[th],
           sent' = sent \/ (pc[th] \in Busy /\ sent' = sent \cup {<<cur[th].nonce, cur[th].id>>})
    PROVE  \A n \in Nonces, id \in Ids : Signs(n, id)' => Signs(n, id)
<1> SUFFICES ASSUME NEW n \in Nonces, NEW id \in Ids, Signs(n, id)'
             PROVE  Signs(n, id)
  OBVIOUS
<1>1. CASE unconfirmed'[n] = id \/ confirmed'[n] = id
  BY <1>1 DEF Signs
<1>2. CASE \E t \in Threads : pc'[t] \in Busy /\ cur'[t].nonce = n /\ cur'[t].id = id
  <2>1. PICK t \in Threads : pc'[t] \in Busy /\ cur'[t].nonce = n /\ cur'[t].id = id
    BY <1>2
  <2>2. pc[t] \in Busy /\ cur'[t] = cur[t]
    BY <2>1
  <2> QED
    BY <2>1, <2>2 DEF Signs
<1>3. CASE <<n, id>> \in sent'
  BY <1>3 DEF Signs
<1> QED
  BY <1>1, <1>2, <1>3 DEF Signs

(* createAndSendAttempt signs what the goroutine already works on. *)
LEMMA AttemptSigningInv ==
    ASSUME TypeInv, TypeInv', SigningInv, NEW th \in Threads, CreateAndSendAttempt(th)
    PROVE  SigningInv'
<1>1. PICK label \in {"send", "update", "recheck", "idle"} :
          /\ pc' = [pc EXCEPT ![th] = label]
          /\ (label = "idle" /\ cur' = [cur EXCEPT ![th] = NoCopy]) \/ cur' = cur
  BY DEF CreateAndSendAttempt, CreateAttempt, SendTransaction, RecheckPendingNonce,
         UpdateTransactionBroadcast, Return, Goto
<1>2. /\ pc[th] \in Busy \ {"advance"}
      /\ UNCHANGED <<unstarted, unconfirmed, confirmed, txIDCount, nonceMap>>
      /\ sent' = sent \/ sent' = sent \cup {<<cur[th].nonce, cur[th].id>>}
  BY DEF CreateAndSendAttempt, CreateAttempt, SendTransaction, RecheckPendingNonce,
         UpdateTransactionBroadcast, storeVars, nodeVars, Busy
<1>3. \A other \in Threads : other # th => pc'[other] = pc[other] /\ cur'[other] = cur[other]
  BY <1>1 DEF TypeInv, TypeOK, LoopTypeOK
<1>4. pc'[th] = label /\ (label \in Busy => cur'[th] = cur[th])
  BY <1>1 DEF TypeInv, TypeOK, LoopTypeOK, Busy
<1>5. \A n \in Nonces, id \in Ids : Signs(n, id)' => Signs(n, id)
  <2>1. /\ UNCHANGED <<unconfirmed, confirmed>>
        /\ pc'[th] \in Busy => pc[th] \in Busy /\ cur'[th] = cur[th]
    BY <1>1, <1>2, <1>4
  <2>2. sent' = sent \/ (pc[th] \in Busy /\ sent' = sent \cup {<<cur[th].nonce, cur[th].id>>})
    BY <1>2
  <2> QED
    BY <1>3, <2>1, <2>2, GoroutineSignsNothingNew
<1>6. \A id \in Ids : tx'[id].isEmpty = tx[id].isEmpty
  <2>1. tx \in [Ids -> Record]
    BY DEF TypeInv, TypeOK, StoreTypeOK
  <2>2. \/ tx' = tx
        \/ tx' = [tx EXCEPT ![cur[th].id].attemptCount = @ + 1]
        \/ tx' = [tx EXCEPT ![unconfirmed[cur[th].nonce]].lastBroadcastAt = 0]
    BY DEF CreateAndSendAttempt, CreateAttempt, SendTransaction, RecheckPendingNonce,
           UpdateTransactionBroadcast, storeVars
  <2> QED
    BY <2>1, <2>2 DEF Record
<1>7. LocalNonceInv' /\ Frontier' = Frontier
  <2>1. pc'["broadcast"] \in {"init", "advance"} => th # "broadcast"
    BY <1>1, <1>4
  <2>2. pc["broadcast"] = "advance" => th # "broadcast"
    BY <1>2
  <2> QED
    BY <1>2, <1>3, <2>1, <2>2 DEF Threads, Frontier, SigningInv, LocalNonceInv
<1>8. Frontier <= Frontier'
  BY <1>7, FrontierNat
<1> QED
  BY <1>2, <1>5, <1>6, <1>7, <1>8, NothingNewSigned

LEMMA EnvironmentSigningInv ==
    ASSUME TypeInv, TypeInv', SigningInv, Environment
    PROVE  SigningInv'
<1>0. /\ tx \in [Ids -> Record] /\ unstarted \in Seq(Ids) /\ txIDCount \in Nat
      /\ unconfirmed \in [Nonces -> Ids \cup {NoTx}]
  BY BoundsAssumption DEF TypeInv, TypeOK, StoreTypeOK
<1>1. ASSUME UNCHANGED loopVars
      PROVE  LocalNonceInv' /\ Frontier' = Frontier /\ Frontier <= Frontier'
  BY <1>1, FrontierNat DEF loopVars, SigningInv, LocalNonceInv, Frontier
<1>2. CASE CreateTransaction
  <2>1. /\ UNCHANGED <<unconfirmed, confirmed, loopVars, sent>>
        /\ txIDCount' = txIDCount + 1
        /\ tx' = [tx EXCEPT ![txIDCount].state = "unstarted"]
    BY <1>2 DEF CreateTransaction, nodeVars
  <2>2. \A n \in Nonces, id \in Ids : Signs(n, id)' <=> Signs(n, id)
    BY <2>1 DEF Signs, loopVars
  <2>3. \A id \in Ids : tx'[id].isEmpty = tx[id].isEmpty
    BY <1>0, <2>1 DEF Record
  <2>4. OneNonce' /\ OneRequest' /\ RequestsBehind' /\ LocalNonceInv'
    BY <1>1, <2>1, <2>2, <2>3 DEF SigningInv, OneNonce, OneRequest, RequestsBehind
  <2>5. SignedKnown'
    <3>1. \A id \in Ids : id \in Nat
      BY BoundsAssumption DEF Ids
    <3> QED
      BY <1>0, <2>1, <2>2, <3>1 DEF SigningInv, SignedKnown
  <2>6. QueueFresh'
    <3>1. PICK room \in Nat : /\ room <= Len(unstarted)
                              /\ unstarted' = Append(SubSeq(unstarted, room + 1, Len(unstarted)),
                                                     txIDCount)
      <4> DEFINE room == IF Len(unstarted) >= MaxQueuedTransactions
                           THEN Len(unstarted) - MaxQueuedTransactions + 1 ELSE 0
      <4>1. room \in Nat /\ room <= Len(unstarted)
        BY <1>0, LimitsAssumption
      <4>2. unstarted' = Append(SubSeq(unstarted, room + 1, Len(unstarted)), txIDCount)
        BY <1>2 DEF CreateTransaction
      <4> QED
        BY <4>1, <4>2
    <3> DEFINE kept == Len(unstarted) - room
    <3>2. kept \in Nat /\ Len(unstarted) \in Nat
      BY <1>0, <3>1
    <3>3. /\ Len(unstarted') = kept + 1
          /\ unstarted'[kept + 1] = txIDCount
          /\ \A i \in 1..kept : unstarted'[i] = unstarted[room + i]
      BY <1>0, <3>1, <3>2
    <3>4. \A i \in 1..kept : room + i \in 1..Len(unstarted) /\ unstarted[room + i] \in Ids
      BY <1>0, <3>1, <3>2
    <3>5. \A i \in 1..kept : /\ unstarted'[i] < txIDCount
                            /\ unstarted'[i] \in Nat
                            /\ \A n \in Nonces : ~Signs(n, unstarted'[i])
      BY <3>3, <3>4, BoundsAssumption DEF SigningInv, QueueFresh, Ids
    <3>6. \A n \in Nonces : ~Signs(n, txIDCount)
      <4>1. txIDCount \in Ids
        BY <1>0, <1>2, BoundsAssumption DEF CreateTransaction, Ids
      <4> QED
        BY <1>0, <4>1 DEF SigningInv, SignedKnown
    <3>7. \A i, j \in 1..kept : unstarted'[i] = unstarted'[j] => i = j
      BY <3>1, <3>2, <3>3, <3>4 DEF SigningInv, QueueFresh
    <3>8. \A i \in 1..Len(unstarted') : i \in 1..kept \/ i = kept + 1
      BY <3>2, <3>3
    <3>9. \A i \in 1..Len(unstarted') : unstarted'[i] < txIDCount'
      BY <1>0, <2>1, <3>3, <3>5, <3>8
    <3>10. \A i, j \in 1..Len(unstarted') : unstarted'[i] = unstarted'[j] => i = j
      BY <1>0, <3>3, <3>5, <3>7, <3>8
    <3>11. \A i \in 1..Len(unstarted'), n \in Nonces : ~Signs(n, unstarted'[i])
      BY <3>3, <3>5, <3>6, <3>8
    <3>12. \A i \in 1..Len(unstarted') : unstarted'[i] \in Ids
      BY DEF TypeInv, TypeOK, StoreTypeOK
    <3>13. \A i \in 1..Len(unstarted'), n \in Nonces : ~Signs(n, unstarted[i])'
      BY <2>1, <3>11 DEF Signs, loopVars
    <3> QED
      BY <3>9, <3>10, <3>13 DEF QueueFresh
  <2> QED
    BY <2>4, <2>5, <2>6 DEF SigningInv
<1>3. CASE AbandonPendingTransactions
  <2>1. /\ UNCHANGED <<confirmed, txIDCount, loopVars, sent>> /\ unstarted' = <<>>
        /\ unconfirmed' = [n \in Nonces |-> NoTx]
    BY <1>3 DEF AbandonPendingTransactions, Cleared
  <2>2. \A id \in Ids : id # NoTx
    BY NamesAssumption, BoundsAssumption DEF Ids
  <2>3. \A n \in Nonces, id \in Ids : Signs(n, id)' => Signs(n, id)
    BY <2>1, <2>2 DEF Signs, loopVars
  <2>4. \A id \in Ids : tx'[id].isEmpty = tx[id].isEmpty
    BY <1>0, <1>3 DEF AbandonPendingTransactions, Record
  <2> QED
    BY <1>1, <2>1, <2>3, <2>4, NothingNewSigned
<1>4. CASE Mine \/ Reorg \/ DropFromMempool
  <2>1. UNCHANGED <<storeVars, loopVars, sent>>
    BY <1>4 DEF Mine, Reorg, DropFromMempool
  <2>2. \A n \in Nonces, id \in Ids : Signs(n, id)' => Signs(n, id)
    BY <2>1 DEF Signs, storeVars, loopVars
  <2> QED
    BY <1>1, <2>1, <2>2, NothingNewSigned DEF storeVars
<1>5. CASE NextBlock
  <2>1. UNCHANGED <<unstarted, unconfirmed, confirmed, txIDCount, nonceMap, pc, cur, sent>>
    BY <1>5 DEF NextBlock, nodeVars
  <2>2. \A n \in Nonces, id \in Ids : Signs(n, id)' => Signs(n, id)
    BY <2>1 DEF Signs
  <2>3. \A id \in Ids : tx'[id].isEmpty = tx[id].isEmpty
    BY <1>0, <1>5 DEF NextBlock, Record
  <2>4. LocalNonceInv' /\ Frontier <= Frontier'
    BY <2>1, FrontierNat DEF SigningInv, LocalNonceInv, Frontier
  <2> QED
    BY <2>1, <2>2, <2>3, <2>4, NothingNewSigned
<1> QED
  BY <1>2, <1>3, <1>4, <1>5 DEF Environment

LEMMA BroadcastSigningInv ==
    ASSUME TypeInv, TypeInv', SigningInv, BroadcastTransaction
    PROVE  SigningInv'
<1>0. /\ tx \in [Ids -> Record] /\ unstarted \in Seq(Ids) /\ txIDCount \in Nat
      /\ unconfirmed \in [Nonces -> Ids \cup {NoTx}]
      /\ "broadcast" \in Threads /\ Frontier \in Nat /\ nonceMap \in Nat
      /\ nonceMap' \in Nat
  BY FrontierNat, BoundsAssumption DEF TypeInv, TypeOK, StoreTypeOK, LoopTypeOK, Threads
<1>a. ASSUME NEW label, pc' = [pc EXCEPT !["broadcast"] = label]
      PROVE  /\ pc'["broadcast"] = label
             /\ \A other \in Threads : other # "broadcast" => pc'[other] = pc[other]
  BY <1>0, <1>a DEF TypeInv, TypeOK, LoopTypeOK
<1>1. CASE InitializeNonce \/ CheckInFlight \/ CheckPendingNonce
  <2>1. /\ UNCHANGED <<unstarted, unconfirmed, confirmed, txIDCount, tx, cur, sent>>
        /\ nonceMap' = nonceMap \/ (pc["broadcast"] = "init" /\ nonceMap = 0)
        /\ pc["broadcast"] # "advance"
    BY <1>1 DEF InitializeNonce, CheckInFlight, CheckPendingNonce, storeVars, nodeVars,
                SigningInv, LocalNonceInv
  <2>2. PICK label \in {"idle", "pending", "assign"} : pc' = [pc EXCEPT !["broadcast"] = label]
    BY <1>1 DEF InitializeNonce, CheckInFlight, CheckPendingNonce, Goto
  <2>3. /\ pc'["broadcast"] \in {"idle", "pending", "assign"}
        /\ \A other \in Threads : other # "broadcast" => pc'[other] = pc[other]
    BY <1>a, <2>2
  <2>4. \A n \in Nonces, id \in Ids : Signs(n, id)' => Signs(n, id)
    BY <1>0, <2>1, <2>3, GoroutineSignsNothingNew DEF Busy
  <2>5. LocalNonceInv'
    BY <2>3 DEF LocalNonceInv
  <2>6. Frontier = nonceMap /\ Frontier' = nonceMap' /\ nonceMap <= nonceMap'
    <3>1. Frontier = nonceMap
      BY <2>1 DEF Frontier
    <3>2. Frontier' = nonceMap'
      BY <2>3 DEF Frontier
    <3> QED
      BY <1>0, <2>1, <3>1, <3>2
  <2> QED
    BY <2>1, <2>4, <2>5, <2>6, NothingNewSigned
<1>2. CASE UpdateUnstartedTransactionWithNonce
  <2>1. /\ pc["broadcast"] = "assign" /\ UNCHANGED <<confirmed, txIDCount, nonceMap, sent>>
        /\ Frontier = nonceMap
    BY <1>2 DEF UpdateUnstartedTransactionWithNonce, nodeVars, Frontier
  <2>2. CASE Return("broadcast") /\ UNCHANGED <<unstarted, unconfirmed, tx>>
    <3>1. /\ pc' = [pc EXCEPT !["broadcast"] = "idle"]
          /\ cur' = [cur EXCEPT !["broadcast"] = NoCopy]
      BY <2>2 DEF Return, Goto
    <3>2. \A other \in Threads : other # "broadcast" => cur'[other] = cur[other]
      BY <1>0, <3>1 DEF TypeInv, TypeOK, LoopTypeOK
    <3>3. /\ pc'["broadcast"] = "idle"
          /\ \A other \in Threads : other # "broadcast" => pc'[other] = pc[other]
      BY <1>a, <3>1
    <3>4. \A n \in Nonces, id \in Ids : Signs(n, id)' => Signs(n, id)
      BY <1>0, <2>1, <2>2, <3>2, <3>3, GoroutineSignsNothingNew DEF Busy
    <3>5. LocalNonceInv'
      BY <3>3 DEF LocalNonceInv
    <3>6. Frontier' = nonceMap'
      BY <3>3 DEF Frontier
    <3> QED
      BY <1>0, <2>1, <2>2, <3>4, <3>5, <3>6, NothingNewSigned
  <2>3. CASE ~(Return("broadcast") /\ UNCHANGED <<unstarted, unconfirmed, tx>>)
    <3> DEFINE id == Head(unstarted)
               copy == [id |-> id, nonce |-> nonceMap, isPurgeable |-> tx[id].isPurgeable]
    <3>1. /\ unstarted # <<>> /\ nonceMap \in Nonces
          /\ unstarted' = Tail(unstarted)
          /\ unconfirmed' = [unconfirmed EXCEPT ![nonceMap] = id]
          /\ tx' = [tx EXCEPT ![id].state = "unconfirmed"]
          /\ cur' = [cur EXCEPT !["broadcast"] = copy]
          /\ pc' = [pc EXCEPT !["broadcast"] = "advance"]
      BY <1>2, <2>3 DEF UpdateUnstartedTransactionWithNonce, Dequeued, Goto
    <3>2. /\ Len(unstarted) \in Nat \ {0} /\ id = unstarted[1] /\ id \in Ids
          /\ Len(Tail(unstarted)) = Len(unstarted) - 1
          /\ \A i \in 1..(Len(unstarted) - 1) : /\ i + 1 \in 1..Len(unstarted)
                                              /\ Tail(unstarted)[i] = unstarted[i + 1]
      BY <1>0, <3>1
    <3>3. id < txIDCount /\ \A n \in Nonces : ~Signs(n, id)
      BY <3>2 DEF SigningInv, QueueFresh
    <3>4. /\ pc'["broadcast"] = "advance" /\ Frontier' = nonceMap + 1
          /\ \A other \in Threads : other # "broadcast" => pc'[other] = pc[other]
      BY <1>a, <2>1, <3>1 DEF Frontier
    <3>5. /\ cur'["broadcast"] = copy
          /\ \A other \in Threads : other # "broadcast" => cur'[other] = cur[other]
      BY <1>0, <3>1 DEF TypeInv, TypeOK, LoopTypeOK
    <3> HIDE DEF id, copy
    <3>6. \A n \in Nonces, j \in Ids : Signs(n, j)' => Signs(n, j) \/ (n = nonceMap /\ j = id)
      <4> SUFFICES ASSUME NEW n \in Nonces, NEW j \in Ids, Signs(n, j)'
                   PROVE  Signs(n, j) \/ (n = nonceMap /\ j = id)
        OBVIOUS
      <4>1. CASE unconfirmed'[n] = j
        BY <1>0, <3>1, <4>1 DEF Signs
      <4>2. CASE confirmed'[n] = j
        BY <2>1, <4>2 DEF Signs
      <4>3. CASE \E t \in Threads : pc'[t] \in Busy /\ cur'[t].nonce = n /\ cur'[t].id = j
        <5>1. PICK t \in Threads : pc'[t] \in Busy /\ cur'[t].nonce = n /\ cur'[t].id = j
          BY <4>3
        <5>2. CASE t = "broadcast"
          BY <3>5, <5>1, <5>2 DEF copy
        <5>3. CASE t # "broadcast"
          BY <3>4, <3>5, <5>1, <5>3 DEF Signs
        <5> QED
          BY <5>2, <5>3
      <4>4. CASE <<n, j>> \in sent'
        BY <2>1, <4>4 DEF Signs
      <4> QED
        BY <4>1, <4>2, <4>3, <4>4 DEF Signs
    <3>7. \A j \in Ids : tx'[j].isEmpty = tx[j].isEmpty
      BY <1>0, <3>1 DEF Record
    <3>8. OneNonce'
      BY <3>3, <3>6 DEF SigningInv, OneNonce
    <3>9. OneRequest'
      <4>1. \A j \in Ids : Signs(nonceMap, j) => tx[j].isEmpty
        BY <1>0, <2>1, <3>1 DEF SigningInv, RequestsBehind
      <4> QED
        BY <3>1, <3>6, <3>7, <4>1 DEF SigningInv, OneRequest
    <3>10. RequestsBehind'
      <4>1. \A n \in Nonces : n \in Nat
        BY BoundsAssumption DEF Nonces
      <4> QED
        BY <1>0, <2>1, <3>4, <3>6, <3>7, <4>1 DEF SigningInv, RequestsBehind
    <3>11. SignedKnown'
      BY <2>1, <3>3, <3>6 DEF SigningInv, SignedKnown
    <3>12. QueueFresh'
      <4>1. \A i \in 1..Len(unstarted') :
               /\ i + 1 \in 1..Len(unstarted) /\ unstarted'[i] = unstarted[i + 1]
               /\ unstarted'[i] \in Ids
        <5>1. \A i \in 1..Len(unstarted) : unstarted[i] \in Ids
          BY <1>0
        <5> QED
          BY <3>1, <3>2, <5>1
      <4>2. \A i \in 1..Len(unstarted') : unstarted'[i] # id
        BY <3>2, <4>1 DEF SigningInv, QueueFresh
      <4>3. \A i \in 1..Len(unstarted'), n \in Nonces : ~Signs(n, unstarted[i])'
        BY <3>6, <4>1, <4>2 DEF SigningInv, QueueFresh
      <4>4. \A i \in 1..Len(unstarted') : unstarted'[i] < txIDCount'
        BY <2>1, <4>1 DEF SigningInv, QueueFresh
      <4>5. \A i, j \in 1..Len(unstarted') : unstarted'[i] = unstarted'[j] => i = j
        BY <4>1 DEF SigningInv, QueueFresh
      <4> QED
        BY <4>3, <4>4, <4>5 DEF QueueFresh
    <3>13. LocalNonceInv'
      BY <2>1, <3>4, <3>5 DEF LocalNonceInv, copy
    <3> QED
      BY <3>8, <3>9, <3>10, <3>11, <3>12, <3>13 DEF SigningInv
  <2> QED
    BY <2>2, <2>3
<1>3. CASE SetNonce
  <2>1. /\ pc["broadcast"] = "advance" /\ pc' = [pc EXCEPT !["broadcast"] = "create"]
        /\ nonceMap' = cur["broadcast"].nonce + 1
        /\ UNCHANGED <<unstarted, unconfirmed, confirmed, txIDCount, tx, cur, sent>>
    BY <1>3 DEF SetNonce, NextNonce, Goto, storeVars, nodeVars
  <2>2. /\ pc'["broadcast"] = "create"
        /\ \A other \in Threads : other # "broadcast" => pc'[other] = pc[other]
    BY <1>a, <2>1
  <2>3. \A n \in Nonces, id \in Ids : Signs(n, id)' => Signs(n, id)
    BY <1>0, <2>1, <2>2, GoroutineSignsNothingNew DEF Busy
  <2>4. Frontier' = Frontier /\ LocalNonceInv'
    BY <2>1, <2>2 DEF Frontier, SigningInv, LocalNonceInv
  <2> QED
    BY <1>0, <2>1, <2>3, <2>4, NothingNewSigned
<1>4. CASE CreateAndSendAttempt("broadcast")
  BY <1>0, <1>4, AttemptSigningInv
<1> QED
  BY <1>1, <1>2, <1>3, <1>4 DEF BroadcastTransaction

LEMMA BackfillSigningInv ==
    ASSUME TypeInv, TypeInv', SigningInv, BackfillTransactions
    PROVE  SigningInv'
<1>0. /\ tx \in [Ids -> Record] /\ unstarted \in Seq(Ids) /\ txIDCount \in Nat
      /\ unconfirmed \in [Nonces -> Ids \cup {NoTx}]
      /\ confirmed \in [Nonces -> Ids \cup {NoTx}]
      /\ "backfill" \in Threads /\ "broadcast" \in Threads /\ "broadcast" # "backfill"
      /\ Frontier \in Nat
  BY FrontierNat, BoundsAssumption DEF TypeInv, TypeOK, StoreTypeOK, Threads
<1>a. ASSUME NEW label, pc' = [pc EXCEPT !["backfill"] = label], UNCHANGED nonceMap,
             cur'["broadcast"] = cur["broadcast"]
      PROVE  /\ pc'["backfill"] = label
             /\ \A other \in Threads : other # "backfill" => pc'[other] = pc[other]
             /\ LocalNonceInv' /\ Frontier' = Frontier /\ Frontier <= Frontier'
  <2>1. /\ pc'["backfill"] = label
        /\ \A other \in Threads : other # "backfill" => pc'[other] = pc[other]
    BY <1>0, <1>a DEF TypeInv, TypeOK, LoopTypeOK
  <2>2. LocalNonceInv' /\ Frontier' = Frontier
    BY <1>0, <1>a, <2>1 DEF SigningInv, LocalNonceInv, Frontier
  <2> QED
    BY <1>0, <2>1, <2>2
<1>b. ASSUME NEW copy, cur' = [cur EXCEPT !["backfill"] = copy]
      PROVE  /\ cur'["backfill"] = copy
             /\ \A other \in Threads : other # "backfill" => cur'[other] = cur[other]
  BY <1>0, <1>b DEF TypeInv, TypeOK, LoopTypeOK
<1>c. \A id \in Ids : id # NoTx
  BY NamesAssumption, BoundsAssumption DEF Ids
<1>1. CASE NonceAt
  <2>1. /\ cur' = [cur EXCEPT !["backfill"].nonce = Len(chain)]
        /\ pc' = [pc EXCEPT !["backfill"] = "mark"]
        /\ UNCHANGED <<unstarted, unconfirmed, confirmed, tx, txIDCount, nonceMap, sent>>
    BY <1>1 DEF NonceAt, Goto, storeVars, nodeVars
  <2>2. \A other \in Threads : other # "backfill" => cur'[other] = cur[other]
    BY <1>0, <2>1 DEF TypeInv, TypeOK, LoopTypeOK
  <2>3. /\ pc'["backfill"] = "mark" /\ LocalNonceInv' /\ Frontier <= Frontier'
        /\ \A other \in Threads : other # "backfill" => pc'[other] = pc[other]
    BY <1>0, <1>a, <2>1, <2>2
  <2>4. \A n \in Nonces, id \in Ids : Signs(n, id)' => Signs(n, id)
    BY <1>0, <2>1, <2>2, <2>3, GoroutineSignsNothingNew DEF Busy
  <2> QED
    BY <2>1, <2>3, <2>4, NothingNewSigned
<1>2. CASE MarkConfirmedAndReorgedTransactions
  <2>1. /\ pc["backfill"] = "mark" /\ pc' = [pc EXCEPT !["backfill"] = "fetch"]
        /\ UNCHANGED <<unstarted, txIDCount, nonceMap, cur, sent>>
    BY <1>2 DEF MarkConfirmedAndReorgedTransactions, Goto, nodeVars
  <2>2. /\ pc'["backfill"] = "fetch" /\ LocalNonceInv' /\ Frontier <= Frontier'
        /\ \A other \in Threads : other # "backfill" => pc'[other] = pc[other]
    BY <1>a, <2>1
  <2>3. \A n \in Nonces : /\ unconfirmed'[n] \in {unconfirmed[n], confirmed[n], NoTx}
                          /\ confirmed'[n] \in {unconfirmed[n], confirmed[n], NoTx}
    BY <1>0, <1>2 DEF MarkConfirmedAndReorgedTransactions
  <2>4. \A n \in Nonces, id \in Ids : Signs(n, id)' => Signs(n, id)
    BY <1>c, <2>1, <2>2, <2>3 DEF Signs, Busy
  <2>5. \A id \in Ids : tx'[id].isEmpty = tx[id].isEmpty
    BY <1>0, <1>2 DEF MarkConfirmedAndReorgedTransactions, Reorged, Record
  <2> QED
    BY <2>1, <2>2, <2>4, <2>5, NothingNewSigned
<1>3. CASE FetchUnconfirmedTransaction
  <2> DEFINE id == IF latestNonce \in Nonces THEN unconfirmed[latestNonce] ELSE NoTx
  <2>1. UNCHANGED <<unstarted, unconfirmed, confirmed, tx, txIDCount, nonceMap, sent>>
    BY <1>3 DEF FetchUnconfirmedTransaction, storeVars, nodeVars
  <2>2. \/ Return("backfill")
        \/ Goto("backfill", "gap") /\ UNCHANGED cur
        \/ /\ id # NoTx
           /\ \E purge \in BOOLEAN, label \in {"purge", "create"} :
                /\ cur' = [cur EXCEPT !["backfill"] =
                             [id |-> id, nonce |-> latestNonce, isPurgeable |-> purge]]
                /\ Goto("backfill", label)
    <3>1. id # NoTx => tx[id].isPurgeable \in BOOLEAN
      BY <1>0 DEF Record
    <3> QED
      BY <1>3, <3>1 DEF FetchUnconfirmedTransaction
  <2>3. PICK label \in {"idle", "gap", "purge", "create"} :
            /\ pc' = [pc EXCEPT !["backfill"] = label]
            /\ \A other \in Threads : other # "backfill" => cur'[other] = cur[other]
            /\ label \in {"purge", "create"} => /\ id # NoTx
                                               /\ cur'["backfill"].id = id
                                               /\ cur'["backfill"].nonce = latestNonce
    <3>1. CASE Return("backfill")
      BY <1>b, <3>1 DEF Return, Goto
    <3>2. CASE Goto("backfill", "gap") /\ UNCHANGED cur
      BY <3>2 DEF Goto
    <3>3. CASE /\ id # NoTx
               /\ \E purge \in BOOLEAN, label \in {"purge", "create"} :
                    /\ cur' = [cur EXCEPT !["backfill"] =
                                 [id |-> id, nonce |-> latestNonce, isPurgeable |-> purge]]
                    /\ Goto("backfill", label)
      <4>1. PICK purge \in BOOLEAN, label \in {"purge", "create"} :
                /\ cur' = [cur EXCEPT !["backfill"] =
                             [id |-> id, nonce |-> latestNonce, isPurgeable |-> purge]]
                /\ Goto("backfill", label)
        BY <3>3
      <4>2. /\ cur'["backfill"] = [id |-> id, nonce |-> latestNonce, isPurgeable |-> purge]
            /\ \A other \in Threads : other # "backfill" => cur'[other] = cur[other]
        BY <1>b, <4>1
      <4>3. /\ label \in {"idle", "gap", "purge", "create"}
            /\ pc' = [pc EXCEPT !["backfill"] = label]
            /\ cur'["backfill"].id = id /\ cur'["backfill"].nonce = latestNonce
        BY <4>1, <4>2 DEF Goto
      <4> HIDE DEF id
      <4> QED
        BY <3>3, <4>2, <4>3
    <3> QED
      BY <2>2, <3>1, <3>2, <3>3
  <2>4. /\ pc'["backfill"] = label /\ LocalNonceInv' /\ Frontier <= Frontier'
        /\ \A other \in Threads : other # "backfill" => pc'[other] = pc[other]
    BY <1>0, <1>a, <2>1, <2>3
  <2>5. label \in Busy => /\ latestNonce \in Nonces /\ unconfirmed[latestNonce] = cur'["backfill"].id
                          /\ cur'["backfill"].nonce = latestNonce
    BY <2>3 DEF Busy
  <2>6. \A n \in Nonces, j \in Ids : Signs(n, j)' => Signs(n, j)
    BY <2>1, <2>3, <2>4, <2>5 DEF Signs
  <2> QED
    BY <2>1, <2>4, <2>6, NothingNewSigned
<1>4. CASE MarkUnconfirmedTransactionPurgeable
  <2>1. /\ pc["backfill"] = "purge"
        /\ UNCHANGED <<unstarted, unconfirmed, confirmed, txIDCount, nonceMap, sent>>
    BY <1>4 DEF MarkUnconfirmedTransactionPurgeable, nodeVars
  <2>2. PICK label \in {"idle", "create"} :
            /\ pc' = [pc EXCEPT !["backfill"] = label]
            /\ cur' = [cur EXCEPT !["backfill"] = NoCopy] \/ cur' = cur
            /\ label = "create" => cur' = cur
    BY <1>4 DEF MarkUnconfirmedTransactionPurgeable, Return, Goto
  <2>3. \A other \in Threads : other # "backfill" => cur'[other] = cur[other]
    BY <1>b, <2>2
  <2>4. /\ pc'["backfill"] = label /\ LocalNonceInv' /\ Frontier <= Frontier'
        /\ \A other \in Threads : other # "backfill" => pc'[other] = pc[other]
    BY <1>0, <1>a, <2>1, <2>2, <2>3
  <2>5. \A n \in Nonces, j \in Ids : Signs(n, j)' => Signs(n, j)
    BY <1>0, <2>1, <2>2, <2>3, <2>4, GoroutineSignsNothingNew DEF Busy
  <2>6. \A j \in Ids : tx'[j].isEmpty = tx[j].isEmpty
    <3>1. tx' = tx \/ tx' = [tx EXCEPT ![unconfirmed[cur["backfill"].nonce]].isPurgeable = TRUE]
      BY <1>4 DEF MarkUnconfirmedTransactionPurgeable
    <3>2. \A j \in Ids : tx'[j] = tx[j] \/ tx'[j] = [tx[j] EXCEPT !.isPurgeable = TRUE]
      BY <1>0, <3>1
    <3>3. \A t \in Record : [t EXCEPT !.isPurgeable = TRUE].isEmpty = t.isEmpty
      BY DEF Record
    <3> QED
      BY <1>0, <3>2, <3>3
  <2> QED
    BY <2>1, <2>4, <2>5, <2>6, NothingNewSigned
<1>5. CASE CreateEmptyUnconfirmedTransaction
  <2>1. UNCHANGED <<unstarted, confirmed, nonceMap, sent>>
    BY <1>5 DEF CreateEmptyUnconfirmedTransaction, nodeVars
  <2>2. CASE Return("backfill") /\ UNCHANGED <<unconfirmed, transactions, tx, txIDCount>>
    <3>1. pc' = [pc EXCEPT !["backfill"] = "idle"] /\ cur' = [cur EXCEPT !["backfill"] = NoCopy]
      BY <2>2 DEF Return, Goto
    <3>2. \A other \in Threads : other # "backfill" => cur'[other] = cur[other]
      BY <1>b, <3>1
    <3>3. /\ pc'["backfill"] = "idle" /\ LocalNonceInv' /\ Frontier <= Frontier'
          /\ \A other \in Threads : other # "backfill" => pc'[other] = pc[other]
      BY <1>0, <1>a, <2>1, <3>1, <3>2
    <3>4. \A n \in Nonces, j \in Ids : Signs(n, j)' => Signs(n, j)
      BY <1>0, <2>1, <2>2, <3>2, <3>3, GoroutineSignsNothingNew DEF Busy
    <3> QED
      BY <2>1, <2>2, <3>3, <3>4, NothingNewSigned
  <2>3. CASE ~(Return("backfill") /\ UNCHANGED <<unconfirmed, transactions, tx, txIDCount>>)
    <3>1. /\ latestNonce \in Nonces /\ txIDCount < MaxIds
          /\ txIDCount' = txIDCount + 1
          /\ unconfirmed' = [unconfirmed EXCEPT ![latestNonce] = txIDCount]
          /\ tx' = [tx EXCEPT ![txIDCount].state = "unconfirmed", ![txIDCount].isEmpty = TRUE]
          /\ cur' = [cur EXCEPT !["backfill"].id = txIDCount]
          /\ pc' = [pc EXCEPT !["backfill"] = "create"]
      BY <1>5, <2>3 DEF CreateEmptyUnconfirmedTransaction, Goto
    <3>2. txIDCount \in Ids /\ \A j \in Ids : j \in Nat
      BY <1>0, <3>1, BoundsAssumption DEF Ids
    <3>3. \A n \in Nonces : ~Signs(n, txIDCount)
      BY <1>0, <3>2 DEF SigningInv, SignedKnown
    <3>4. /\ cur'["backfill"].nonce = latestNonce /\ cur'["backfill"].id = txIDCount
          /\ \A other \in Threads : other # "backfill" => cur'[other] = cur[other]
      BY <1>0, <3>1 DEF TypeInv, TypeOK, LoopTypeOK, Copy, latestNonce
    <3>5. /\ LocalNonceInv' /\ Frontier' = Frontier
          /\ \A other \in Threads : other # "backfill" => pc'[other] = pc[other]
      BY <1>0, <1>a, <2>1, <3>1, <3>4
    <3>6. \A n \in Nonces, j \in Ids :
             Signs(n, j)' => Signs(n, j) \/ (n = latestNonce /\ j = txIDCount)
      BY <1>0, <2>1, <3>1, <3>4, <3>5 DEF Signs
    <3>7. /\ tx'[txIDCount].isEmpty
          /\ \A j \in Ids : j # txIDCount => tx'[j].isEmpty = tx[j].isEmpty
      BY <1>0, <3>1, <3>2 DEF Record
    <3>8. OneNonce'
      BY <3>2, <3>3, <3>6 DEF SigningInv, OneNonce
    <3>9. OneRequest' /\ RequestsBehind'
      BY <3>5, <3>6, <3>7 DEF SigningInv, OneRequest, RequestsBehind
    <3>10. SignedKnown'
      BY <1>0, <3>1, <3>2, <3>6 DEF SigningInv, SignedKnown
    <3>11. QueueFresh'
      <4>1. \A i \in 1..Len(unstarted) : unstarted[i] \in Ids
        BY <1>0
      <4>2. \A i \in 1..Len(unstarted) : unstarted[i] < txIDCount /\ unstarted[i] < txIDCount'
        BY <1>0, <3>1, <3>2, <4>1 DEF SigningInv, QueueFresh
      <4>3. \A i \in 1..Len(unstarted) : unstarted[i] # txIDCount
        BY <1>0, <3>2, <4>1, <4>2
      <4>4. \A i \in 1..Len(unstarted'), n \in Nonces : ~Signs(n, unstarted[i])'
        BY <2>1, <3>6, <4>1, <4>3 DEF SigningInv, QueueFresh
      <4> QED
        BY <2>1, <4>2, <4>4 DEF SigningInv, QueueFresh
    <3> QED
      BY <3>5, <3>8, <3>9, <3>10, <3>11 DEF SigningInv
  <2> QED
    BY <2>2, <2>3
<1>6. CASE CreateAndSendAttempt("backfill")
  BY <1>0, <1>6, AttemptSigningInv
<1> QED
  BY <1>1, <1>2, <1>3, <1>4, <1>5, <1>6 DEF BackfillTransactions

LEMMA SigningInvHolds == Spec => [](TypeInv /\ SigningInv)
<1>1. Init => TypeInv /\ SigningInv
  BY InitTypeInv, InitSigningInv
<1>2. TypeInv /\ [Next]_vars => TypeInv'
  BY StutterTypeInv, BroadcastTypeInv, BackfillTypeInv, EnvironmentTypeInv DEF Next
<1>3. TypeInv /\ TypeInv' /\ SigningInv /\ [Next]_vars => SigningInv'
  <2>1. TypeInv /\ TypeInv' /\ SigningInv /\ UNCHANGED vars => SigningInv'
    <3> SUFFICES ASSUME TypeInv, TypeInv', SigningInv, UNCHANGED vars PROVE SigningInv'
      OBVIOUS
    <3>1. \A n \in Nonces, id \in Ids : Signs(n, id)' => Signs(n, id)
      BY DEF Signs, vars, storeVars, loopVars, nodeVars
    <3>2. LocalNonceInv' /\ Frontier <= Frontier'
      BY FrontierNat DEF vars, loopVars, SigningInv, LocalNonceInv, Frontier
    <3> QED
      BY <3>1, <3>2, NothingNewSigned DEF vars, storeVars
  <2> QED
    BY <2>1, BroadcastSigningInv, BackfillSigningInv, EnvironmentSigningInv DEF Next
<1> QED
  BY <1>1, <1>2, <1>3, PTL DEF Spec

(* A transaction is only ever signed for one nonce, whatever retries, purges,
   reorgs, faults and abandonments it goes through. *)
THEOREM ExecutesAtMostOnceHolds == Spec => []ExecutesAtMostOnce
<1>1. TypeInv /\ SigningInv => ExecutesAtMostOnce
  <2> SUFFICES ASSUME TypeInv, SigningInv, NEW p \in sent, NEW q \in sent, p[2] = q[2]
               PROVE  p[1] = q[1]
    BY DEF ExecutesAtMostOnce
  <2>1. sent \subseteq Nonces \X Ids
    BY DEF TypeInv, TypeOK, NodeTypeOK
  <2>2. /\ p[1] \in Nonces /\ q[1] \in Nonces /\ p[2] \in Ids
        /\ p = <<p[1], p[2]>> /\ q = <<q[1], p[2]>>
    BY <2>1
  <2>3. Signs(p[1], p[2]) /\ Signs(q[1], p[2])
    BY <2>2 DEF Signs
  <2> QED
    BY <2>2, <2>3 DEF SigningInv, OneNonce
<1> QED
  BY <1>1, SigningInvHolds, PTL

(* Two requests are never signed for the same nonce, whatever the pool holds of an
   earlier run: only the empty transaction of a gap can compete with a request. *)
THEOREM NonceNeverReusedHolds == Spec => []NonceNeverReused
<1>1. TypeInv /\ SigningInv => NonceNeverReused
  <2> SUFFICES ASSUME TypeInv, SigningInv, NEW p \in sent, NEW q \in sent,
                      p[1] = q[1], p[2] \in Requests, q[2] \in Requests
               PROVE  p = q
    BY DEF NonceNeverReused
  <2>1. sent \subseteq Nonces \X Ids
    BY DEF TypeInv, TypeOK, NodeTypeOK
  <2>2. /\ p[1] \in Nonces /\ p[2] \in Ids /\ q[2] \in Ids
        /\ p = <<p[1], p[2]>> /\ q = <<p[1], q[2]>>
    BY <2>1
  <2>3. Signs(p[1], p[2]) /\ Signs(p[1], q[2])
    BY <2>2 DEF Signs
  <2>4. ~tx[p[2]].isEmpty /\ ~tx[q[2]].isEmpty
    BY DEF Requests
  <2>5. p[2] = q[2]
    BY <2>2, <2>3, <2>4 DEF SigningInv, OneRequest
  <2> QED
    BY <2>2, <2>5
<1> QED
  BY <1>1, SigningInvHolds, PTL

-----------------------------------------------------------------------------
(* An abandoned transaction stays failed.  The store can only move a transaction it
   still holds, or has yet to create; none of those has failed. *)
Live(id) ==
    \/ id >= txIDCount
    \/ \E i \in 1..Len(unstarted) : unstarted[i] = id
    \/ \E n \in Nonces : unconfirmed[n] = id \/ confirmed[n] = id

(* Both maps may hold a nonce when the pool has transactions of an earlier run, but
   not the same transaction there. *)
OneMap == \A n \in Nonces, id \in Ids : ~(unconfirmed[n] = id /\ confirmed[n] = id)

LiveInv == OneMap /\ \A id \in Ids : Live(id) => tx[id].state # "fatal"

FatalStays == \A id \in Ids : tx[id].state = "fatal" => tx'[id].state = "fatal"

LEMMA InitLiveInv == Init => LiveInv
<1>1. Init => \A id \in Ids : id # NoTx
  BY NamesAssumption, BoundsAssumption DEF Ids
<1> QED
  BY <1>1 DEF Init, LiveInv, OneMap

(* A step that keeps the store's hold on what it has, or loosens it, and changes
   the state of none but live transactions, to something else than failed. *)
LEMMA OnlyLiveChange ==
    ASSUME LiveInv, OneMap',
           \A id \in Ids : Live(id)' => Live(id),
           \A id \in Ids : \/ tx'[id].state = tx[id].state
                           \/ Live(id) /\ tx'[id].state # "fatal"
    PROVE  LiveInv' /\ FatalStays
<1>1. FatalStays
  BY DEF LiveInv, FatalStays
<1>2. \A id \in Ids : Live(id)' => tx'[id].state # "fatal"
  BY DEF LiveInv
<1> QED
  BY <1>1, <1>2 DEF LiveInv

(* In particular a step that leaves the collections alone and no state changed. *)
LEMMA CollectionsUnchanged ==
    ASSUME LiveInv, UNCHANGED <<unstarted, unconfirmed, confirmed, txIDCount>>,
           \A id \in Ids : tx'[id].state = tx[id].state
    PROVE  LiveInv' /\ FatalStays
<1>1. OneMap' /\ \A id \in Ids : Live(id)' => Live(id)
  BY DEF LiveInv, OneMap, Live
<1> QED
  BY <1>1, OnlyLiveChange

LEMMA AttemptLiveInv ==
    ASSUME TypeInv, LiveInv, NEW th \in Threads, CreateAndSendAttempt(th)
    PROVE  LiveInv' /\ FatalStays
<1>1. UNCHANGED <<unstarted, unconfirmed, confirmed, txIDCount>>
  BY DEF CreateAndSendAttempt, CreateAttempt, SendTransaction, RecheckPendingNonce,
         UpdateTransactionBroadcast, storeVars
<1>2. \A id \in Ids : tx'[id].state = tx[id].state
  <2>1. tx \in [Ids -> Record]
    BY DEF TypeInv, TypeOK, StoreTypeOK
  <2>2. \/ tx' = tx
        \/ tx' = [tx EXCEPT ![cur[th].id].attemptCount = @ + 1]
        \/ tx' = [tx EXCEPT ![unconfirmed[cur[th].nonce]].lastBroadcastAt = 0]
    BY DEF CreateAndSendAttempt, CreateAttempt, SendTransaction, RecheckPendingNonce,
           UpdateTransactionBroadcast, storeVars
  <2> QED
    BY <2>1, <2>2 DEF Record
<1> QED
  BY <1>1, <1>2, CollectionsUnchanged

LEMMA EnvironmentLiveInv ==
    ASSUME TypeInv, SigningInv, LiveInv, Environment
    PROVE  LiveInv' /\ FatalStays
<1>0. /\ tx \in [Ids -> Record] /\ unstarted \in Seq(Ids) /\ txIDCount \in Nat
      /\ \A id \in Ids : id \in Nat /\ id # NoTx
  BY BoundsAssumption, NamesAssumption DEF TypeInv, TypeOK, StoreTypeOK, Ids
<1>1. CASE CreateTransaction
  <2> DEFINE room == IF Len(unstarted) >= MaxQueuedTransactions
                       THEN Len(unstarted) - MaxQueuedTransactions + 1 ELSE 0
  <2>1. /\ UNCHANGED <<unconfirmed, confirmed>> /\ txIDCount' = txIDCount + 1
        /\ unstarted' = Append(SubSeq(unstarted, room + 1, Len(unstarted)), txIDCount)
        /\ tx' = [tx EXCEPT ![txIDCount].state = "unstarted"]
    BY <1>1 DEF CreateTransaction
  <2>2. room \in Nat /\ room <= Len(unstarted)
    BY <1>0, LimitsAssumption
  <2> HIDE DEF room
  <2>3. \A i \in 1..Len(unstarted') :
           unstarted'[i] = txIDCount \/ \E j \in 1..Len(unstarted) : unstarted'[i] = unstarted[j]
    <3> DEFINE kept == Len(unstarted) - room
    <3>a. unstarted' = Append(SubSeq(unstarted, room + 1, Len(unstarted)), txIDCount)
      BY <2>1
    <3>b. kept \in Nat /\ Len(unstarted) \in Nat
      BY <1>0, <2>2
    <3>1. /\ Len(unstarted') = kept + 1
          /\ unstarted'[kept + 1] = txIDCount
          /\ \A i \in 1..kept : unstarted'[i] = unstarted[room + i]
      BY <1>0, <2>2, <3>a, <3>b
    <3>2. \A i \in 1..kept : room + i \in 1..Len(unstarted)
      BY <2>2, <3>b
    <3>3. \A i \in 1..Len(unstarted') : i \in 1..kept \/ i = kept + 1
      BY <3>1, <3>b
    <3> HIDE DEF kept
    <3> QED
      BY <3>1, <3>2, <3>3
  <2>4. \A id \in Ids : Live(id)' => Live(id)
    <3> SUFFICES ASSUME NEW id \in Ids, Live(id)' PROVE Live(id)
      OBVIOUS
    <3>1. CASE id >= txIDCount'
      BY <1>0, <2>1, <3>1 DEF Live
    <3>2. CASE \E i \in 1..Len(unstarted') : unstarted'[i] = id
      <4>1. PICK i \in 1..Len(unstarted') : unstarted'[i] = id
        BY <3>2
      <4>2. CASE unstarted'[i] = txIDCount
        BY <1>0, <4>1, <4>2 DEF Live
      <4>3. CASE \E j \in 1..Len(unstarted) : unstarted'[i] = unstarted[j]
        BY <4>1, <4>3 DEF Live
      <4> QED
        BY <2>3, <4>1, <4>2, <4>3
    <3>3. CASE \E n \in Nonces : unconfirmed'[n] = id \/ confirmed'[n] = id
      BY <2>1, <3>3 DEF Live
    <3> QED
      BY <3>1, <3>2, <3>3 DEF Live
  <2>5. \A id \in Ids : \/ tx'[id].state = tx[id].state
                        \/ Live(id) /\ tx'[id].state # "fatal"
    BY <1>0, <2>1 DEF Live, Record
  <2>6. OneMap'
    BY <2>1 DEF LiveInv, OneMap
  <2> QED
    BY <2>4, <2>5, <2>6, OnlyLiveChange
<1>2. CASE AbandonPendingTransactions
  <2> DEFINE failed == {unstarted[i] : i \in 1..Len(unstarted)}
                         \cup {unconfirmed[n] : n \in Held(unconfirmed)}
  <2>1. /\ UNCHANGED <<confirmed, txIDCount>> /\ unstarted' = <<>>
        /\ unconfirmed' = [n \in Nonces |-> NoTx]
        /\ tx' = [id \in Ids |-> IF id \in failed THEN [tx[id] EXCEPT !.state = "fatal"]
                                              ELSE tx[id]]
    BY <1>2 DEF AbandonPendingTransactions, Cleared
  <2>2. OneMap'
    BY <1>0, <2>1 DEF OneMap
  <2>3. FatalStays
    BY <1>0, <2>1 DEF FatalStays, Record
  <2>4. ASSUME NEW id \in Ids, Live(id)' PROVE tx'[id].state # "fatal"
    <3>1. id >= txIDCount \/ \E n \in Nonces : confirmed[n] = id
      BY <1>0, <2>1, <2>4 DEF Live
    <3>2. Live(id)
      BY <3>1 DEF Live
    <3>3. \A i \in 1..Len(unstarted) : unstarted[i] # id
      <4>1. CASE id >= txIDCount
        BY <1>0, <4>1 DEF SigningInv, QueueFresh
      <4>2. CASE \E n \in Nonces : confirmed[n] = id
        BY <4>2 DEF SigningInv, QueueFresh, Signs
      <4> QED
        BY <3>1, <4>1, <4>2
    <3>4. \A n \in Nonces : unconfirmed[n] # id
      <4>1. CASE id >= txIDCount
        <5>1. \A n \in Nonces : ~Signs(n, id)
          BY <1>0, <4>1 DEF SigningInv, SignedKnown
        <5> QED
          BY <5>1 DEF Signs
      <4>2. CASE \E n \in Nonces : confirmed[n] = id
        BY <4>2 DEF SigningInv, OneNonce, Signs, LiveInv, OneMap
      <4> QED
        BY <3>1, <4>1, <4>2
    <3>5. id \notin failed
      BY <3>3, <3>4 DEF Held
    <3> QED
      BY <2>1, <3>2, <3>5 DEF LiveInv
  <2> QED
    BY <2>2, <2>3, <2>4 DEF LiveInv
<1>3. CASE Mine \/ Reorg \/ DropFromMempool
  BY <1>3, CollectionsUnchanged DEF Mine, Reorg, DropFromMempool, storeVars
<1>4. CASE NextBlock
  <2>1. \A id \in Ids : tx'[id].state = tx[id].state
    BY <1>0, <1>4 DEF NextBlock, Record
  <2> QED
    BY <1>4, <2>1, CollectionsUnchanged DEF NextBlock
<1> QED
  BY <1>1, <1>2, <1>3, <1>4 DEF Environment

LEMMA BroadcastLiveInv ==
    ASSUME TypeInv, SigningInv, LiveInv, BroadcastTransaction
    PROVE  LiveInv' /\ FatalStays
<1>0. /\ tx \in [Ids -> Record] /\ unstarted \in Seq(Ids)
      /\ unconfirmed \in [Nonces -> Ids \cup {NoTx}]
      /\ "broadcast" \in Threads
  BY DEF TypeInv, TypeOK, StoreTypeOK, Threads
<1>1. CASE InitializeNonce \/ CheckInFlight \/ CheckPendingNonce \/ SetNonce
  BY <1>1, CollectionsUnchanged
  DEF InitializeNonce, CheckInFlight, CheckPendingNonce, SetNonce, storeVars
<1>2. CASE UpdateUnstartedTransactionWithNonce
  <2>1. UNCHANGED <<confirmed, txIDCount>>
    BY <1>2 DEF UpdateUnstartedTransactionWithNonce
  <2>2. CASE UNCHANGED <<unstarted, unconfirmed, tx>>
    BY <2>1, <2>2, CollectionsUnchanged
  <2>3. CASE ~UNCHANGED <<unstarted, unconfirmed, tx>>
    <3> DEFINE head == Head(unstarted)
    <3>1. /\ unstarted # <<>> /\ nonceMap \in Nonces
          /\ unstarted' = Tail(unstarted)
          /\ unconfirmed' = [unconfirmed EXCEPT ![nonceMap] = head]
          /\ tx' = [tx EXCEPT ![head].state = "unconfirmed"]
      BY <1>2, <2>3 DEF UpdateUnstartedTransactionWithNonce, Dequeued
    <3>2. /\ 1 \in 1..Len(unstarted) /\ head = unstarted[1] /\ head \in Ids
          /\ \A i \in 1..Len(Tail(unstarted)) : /\ i + 1 \in 1..Len(unstarted)
                                              /\ Tail(unstarted)[i] = unstarted[i + 1]
      BY <1>0, <3>1
    <3> HIDE DEF head
    <3>3. Live(head) /\ \A n \in Nonces : ~Signs(n, head)
      BY <3>2 DEF Live, SigningInv, QueueFresh
    <3>4. \A n \in Nonces : unconfirmed'[n] = unconfirmed[n] \/ unconfirmed'[n] = head
      BY <1>0, <3>1
    <3>5. \A id \in Ids : Live(id)' => Live(id)
      BY <2>1, <3>1, <3>2, <3>3, <3>4 DEF Live
    <3>6. \A id \in Ids : \/ tx'[id].state = tx[id].state
                          \/ Live(id) /\ tx'[id].state # "fatal"
      BY <1>0, <3>1, <3>2, <3>3 DEF Record
    <3>7. OneMap'
      BY <2>1, <3>3, <3>4 DEF LiveInv, OneMap, Signs
    <3> QED
      BY <3>5, <3>6, <3>7, OnlyLiveChange
  <2> QED
    BY <2>2, <2>3
<1>3. CASE CreateAndSendAttempt("broadcast")
  BY <1>0, <1>3, AttemptLiveInv
<1> QED
  BY <1>1, <1>2, <1>3 DEF BroadcastTransaction

LEMMA BackfillLiveInv ==
    ASSUME TypeInv, SigningInv, LiveInv, BackfillTransactions
    PROVE  LiveInv' /\ FatalStays
<1>0. /\ tx \in [Ids -> Record] /\ txIDCount \in Nat
      /\ unconfirmed \in [Nonces -> Ids \cup {NoTx}]
      /\ confirmed \in [Nonces -> Ids \cup {NoTx}]
      /\ "backfill" \in Threads
      /\ \A id \in Ids : id \in Nat /\ id # NoTx
  BY BoundsAssumption, NamesAssumption DEF TypeInv, TypeOK, StoreTypeOK, Threads, Ids
<1>1. CASE NonceAt \/ FetchUnconfirmedTransaction
  BY <1>1, CollectionsUnchanged DEF NonceAt, FetchUnconfirmedTransaction, storeVars
<1>2. CASE MarkConfirmedAndReorgedTransactions
  <2> DEFINE mined == {n \in Held(unconfirmed) : n < latestNonce}
             reorged == {n \in Held(confirmed) : ~(n < latestNonce)}
             minedIds == {unconfirmed[n] : n \in mined}
             reorgedIds == {confirmed[n] : n \in reorged}
  <2>1. /\ UNCHANGED <<unstarted, txIDCount>>
        /\ unconfirmed' = [n \in Nonces |-> IF n \in reorged THEN confirmed[n]
                                            ELSE IF n \in mined THEN NoTx ELSE unconfirmed[n]]
        /\ tx' = [id \in Ids |->
                    IF id \in reorgedIds THEN Reorged(tx[id])
                    ELSE IF id \in minedIds THEN [tx[id] EXCEPT !.state = "confirmed"]
                    ELSE tx[id]]
    BY <1>2 DEF MarkConfirmedAndReorgedTransactions, Passed
  <2>2. \A n \in Nonces :
           \/ confirmed'[n] = NoTx
           \/ n \in mined /\ confirmed'[n] = unconfirmed[n]
           \/ n \notin mined /\ n \notin reorged /\ confirmed'[n] = confirmed[n]
    BY <1>2 DEF MarkConfirmedAndReorgedTransactions, Passed
  <2>3. mined \cap reorged = {}
    OBVIOUS
  <2>4. \A id \in minedIds \cup reorgedIds : Live(id)
    BY DEF Held, Live
  <2>5. \A n \in Nonces : /\ unconfirmed'[n] \in {unconfirmed[n], confirmed[n], NoTx}
                          /\ confirmed'[n] \in {unconfirmed[n], confirmed[n], NoTx}
    BY <2>1, <2>2
  <2>6. OneMap'
    BY <1>0, <2>1, <2>2, <2>3 DEF LiveInv, OneMap, Held
  <2> HIDE DEF mined, reorged, minedIds, reorgedIds
  <2>7. \A id \in Ids : Live(id)' => Live(id)
    BY <1>0, <2>1, <2>5 DEF Live
  <2>8. \A id \in Ids : \/ tx'[id].state = tx[id].state
                        \/ Live(id) /\ tx'[id].state # "fatal"
    BY <1>0, <2>1, <2>4 DEF Reorged, Record
  <2> QED
    BY <2>6, <2>7, <2>8, OnlyLiveChange
<1>3. CASE MarkUnconfirmedTransactionPurgeable
  <2>1. \A id \in Ids : tx'[id].state = tx[id].state
    <3>1. tx' = tx \/ tx' = [tx EXCEPT ![unconfirmed[cur["backfill"].nonce]].isPurgeable = TRUE]
      BY <1>3 DEF MarkUnconfirmedTransactionPurgeable
    <3>2. \A id \in Ids : tx'[id] = tx[id] \/ tx'[id] = [tx[id] EXCEPT !.isPurgeable = TRUE]
      BY <1>0, <3>1
    <3>3. \A t \in Record : [t EXCEPT !.isPurgeable = TRUE].state = t.state
      BY DEF Record
    <3> QED
      BY <1>0, <3>2, <3>3
  <2> QED
    BY <1>3, <2>1, CollectionsUnchanged DEF MarkUnconfirmedTransactionPurgeable
<1>4. CASE CreateEmptyUnconfirmedTransaction
  <2>1. UNCHANGED <<unstarted, confirmed>>
    BY <1>4 DEF CreateEmptyUnconfirmedTransaction
  <2>2. CASE UNCHANGED <<unconfirmed, tx, txIDCount>>
    BY <2>1, <2>2, CollectionsUnchanged
  <2>3. CASE ~UNCHANGED <<unconfirmed, tx, txIDCount>>
    <3>1. /\ latestNonce \in Nonces /\ txIDCount < MaxIds
          /\ txIDCount' = txIDCount + 1
          /\ unconfirmed' = [unconfirmed EXCEPT ![latestNonce] = txIDCount]
          /\ tx' = [tx EXCEPT ![txIDCount].state = "unconfirmed", ![txIDCount].isEmpty = TRUE]
      BY <1>4, <2>3 DEF CreateEmptyUnconfirmedTransaction
    <3>2. txIDCount \in Ids /\ Live(txIDCount)
      BY <1>0, <3>1, BoundsAssumption DEF Ids, Live
    <3>3. \A n \in Nonces : unconfirmed'[n] = unconfirmed[n] \/ unconfirmed'[n] = txIDCount
      BY <1>0, <3>1
    <3>4. \A id \in Ids : Live(id)' => Live(id)
      BY <1>0, <2>1, <3>1, <3>2, <3>3 DEF Live
    <3>5. /\ tx'[txIDCount].state # "fatal"
          /\ \A id \in Ids : id # txIDCount => tx'[id].state = tx[id].state
      BY <1>0, <3>1, <3>2 DEF Record
    <3>6. OneMap'
      <4>1. \A n \in Nonces : ~Signs(n, txIDCount)
        BY <1>0, <3>2 DEF SigningInv, SignedKnown
      <4> QED
        BY <2>1, <3>3, <4>1 DEF LiveInv, OneMap, Signs
    <3> QED
      BY <3>2, <3>4, <3>5, <3>6, OnlyLiveChange
  <2> QED
    BY <2>2, <2>3
<1>5. CASE CreateAndSendAttempt("backfill")
  BY <1>0, <1>5, AttemptLiveInv
<1> QED
  BY <1>1, <1>2, <1>3, <1>4, <1>5 DEF BackfillTransactions

(* An abandoned transaction stays failed: neither loop, working on a copy it took
   before, brings it back, and no reorg does. *)
THEOREM FatalIsFinalHolds == Spec => FatalIsFinal
<1>1. Init => LiveInv
  BY InitLiveInv
<1>2. TypeInv /\ SigningInv /\ LiveInv /\ [Next]_vars => LiveInv' /\ FatalStays
  <2>1. LiveInv /\ UNCHANGED vars => LiveInv' /\ FatalStays
    BY CollectionsUnchanged DEF vars, storeVars
  <2> QED
    BY <2>1, BroadcastLiveInv, BackfillLiveInv, EnvironmentLiveInv DEF Next
<1>3. FatalStays => [\A id \in Ids : tx[id].state = "fatal" => tx'[id].state = "fatal"]_vars
  BY DEF FatalStays
<1> QED
  BY <1>1, <1>2, <1>3, SigningInvHolds, PTL DEF Spec, FatalIsFinal

-----------------------------------------------------------------------------
(* The collections partition what the store can look up.  Each of them agrees with the
   states of the transactions; that none holds a transaction twice is SigningInv's. *)
Queued(id) == \E i \in 1..Len(unstarted) : unstarted[i] = id
InUnconfirmed(id) == \E n \in Nonces : unconfirmed[n] = id
InConfirmed(id) == \E n \in Nonces : confirmed[n] = id

Has(state, id) == id \in transactions /\ tx[id].state = state

StatesInv ==
    \A id \in Ids :
        /\ Queued(id) <=> Has("unstarted", id)
        /\ InUnconfirmed(id) <=> Has("unconfirmed", id)
        /\ InConfirmed(id) <=> Has("confirmed", id)
        /\ id \in fatal <=> Has("fatal", id)
        /\ id \in transactions => id < txIDCount /\ tx[id].state # "new"

(* A step that leaves the collections and the states alone. *)
LEMMA StatesUnchanged ==
    ASSUME StatesInv, UNCHANGED <<unstarted, unconfirmed, confirmed, fatal, transactions, txIDCount>>,
           \A id \in Ids : tx'[id].state = tx[id].state
    PROVE  StatesInv'
  BY DEF StatesInv, Queued, InUnconfirmed, InConfirmed, Has

LEMMA InitStatesInv == Init => StatesInv
<1>1. Init => \A id \in Ids : id # NoTx
  BY NamesAssumption, BoundsAssumption DEF Ids
<1> QED
  BY <1>1 DEF Init, StatesInv, Queued, InUnconfirmed, InConfirmed, Has

LEMMA AttemptStatesInv ==
    ASSUME TypeInv, StatesInv, NEW th \in Threads, CreateAndSendAttempt(th)
    PROVE  StatesInv'
<1>1. UNCHANGED <<unstarted, unconfirmed, confirmed, fatal, transactions, txIDCount>>
  BY DEF CreateAndSendAttempt, CreateAttempt, SendTransaction, RecheckPendingNonce,
         UpdateTransactionBroadcast, storeVars
<1>2. \A id \in Ids : tx'[id].state = tx[id].state
  <2>1. tx \in [Ids -> Record]
    BY DEF TypeInv, TypeOK, StoreTypeOK
  <2>2. \/ tx' = tx
        \/ tx' = [tx EXCEPT ![cur[th].id].attemptCount = @ + 1]
        \/ tx' = [tx EXCEPT ![unconfirmed[cur[th].nonce]].lastBroadcastAt = 0]
    BY DEF CreateAndSendAttempt, CreateAttempt, SendTransaction, RecheckPendingNonce,
           UpdateTransactionBroadcast, storeVars
  <2> QED
    BY <2>1, <2>2 DEF Record
<1> QED
  BY <1>1, <1>2, StatesUnchanged

(* The queue gives up its oldest, and takes a transaction that was nowhere. *)
LEMMA CreateStatesInv ==
    ASSUME TypeInv, SigningInv, StatesInv, CreateTransaction
    PROVE  StatesInv'
<1>0. /\ tx \in [Ids -> Record] /\ unstarted \in Seq(Ids) /\ txIDCount \in Nat
      /\ \A id \in Ids : id \in Nat /\ id # NoTx
  BY BoundsAssumption, NamesAssumption DEF TypeInv, TypeOK, StoreTypeOK, Ids
<1> DEFINE room == IF Len(unstarted) >= MaxQueuedTransactions
                     THEN Len(unstarted) - MaxQueuedTransactions + 1 ELSE 0
           dropped == {unstarted[i] : i \in 1..room}
<1>1. /\ UNCHANGED <<unconfirmed, confirmed, fatal>> /\ txIDCount' = txIDCount + 1
      /\ txIDCount \in Ids
      /\ transactions' = (transactions \ dropped) \cup {txIDCount}
      /\ unstarted' = Append(SubSeq(unstarted, room + 1, Len(unstarted)), txIDCount)
      /\ tx' = [tx EXCEPT ![txIDCount].state = "unstarted"]
  BY <1>0, BoundsAssumption DEF CreateTransaction, Ids
<1>2. room \in Nat /\ room <= Len(unstarted)
  BY <1>0, LimitsAssumption
<1>3. \A id \in dropped : Queued(id)
  BY <1>0, <1>2 DEF Queued
<1>4. \A id \in Ids : Queued(id)' <=> (Queued(id) /\ id \notin dropped) \/ id = txIDCount
  <2> DEFINE kept == Len(unstarted) - room
  <2>0. kept \in Nat /\ Len(unstarted) \in Nat
    BY <1>0, <1>2
  <2>1. /\ Len(unstarted') = kept + 1
        /\ unstarted'[kept + 1] = txIDCount
        /\ \A i \in 1..kept : unstarted'[i] = unstarted[room + i]
    <3>1. unstarted' = Append(SubSeq(unstarted, room + 1, Len(unstarted)), txIDCount)
      BY <1>1
    <3> HIDE DEF room
    <3> QED
      BY <1>0, <1>2, <2>0, <3>1
  <2>2. \A i, j \in 1..Len(unstarted) : unstarted[i] = unstarted[j] => i = j
    BY DEF SigningInv, QueueFresh
  <2> SUFFICES ASSUME NEW id \in Ids
               PROVE  Queued(id)' <=> (Queued(id) /\ id \notin dropped) \/ id = txIDCount
    OBVIOUS
  <2>3. ASSUME Queued(id)', id # txIDCount PROVE Queued(id) /\ id \notin dropped
    <3>1. PICK i \in 1..Len(unstarted') : unstarted'[i] = id
      BY <2>3 DEF Queued
    <3>2. i \in 1..kept /\ unstarted[room + i] = id
      BY <2>0, <2>1, <2>3, <3>1
    <3>3. room + i \in 1..Len(unstarted) /\ \A j \in 1..room : j # room + i /\ j \in 1..Len(unstarted)
      <4> HIDE DEF room
      <4> QED
        BY <1>2, <2>0, <3>2
    <3> QED
      BY <2>2, <3>2, <3>3 DEF Queued
  <2>4. ASSUME Queued(id), id \notin dropped PROVE Queued(id)'
    <3>1. PICK i \in 1..Len(unstarted) : unstarted[i] = id
      BY <2>4 DEF Queued
    <3>2. i \notin 1..room
      BY <2>4, <3>1
    <3> HIDE DEF room
    <3>3. i - room \in 1..kept /\ room + (i - room) = i
      BY <1>2, <2>0, <3>1, <3>2
    <3>4. unstarted'[i - room] = id /\ i - room \in 1..Len(unstarted')
      BY <2>0, <2>1, <3>1, <3>3
    <3> QED
      BY <3>4 DEF Queued
  <2>5. ASSUME id = txIDCount PROVE Queued(id)'
    <3>1. kept + 1 \in 1..Len(unstarted')
      BY <2>0, <2>1
    <3> QED
      BY <2>1, <2>5, <3>1 DEF Queued
  <2> QED
    BY <2>3, <2>4, <2>5
<1> HIDE DEF room, dropped
<1>5. \A id \in Ids : id # txIDCount => tx'[id].state = tx[id].state
  BY <1>0, <1>1 DEF Record
<1>6. tx'[txIDCount].state = "unstarted"
  BY <1>0, <1>1 DEF Record
<1>7. txIDCount \notin transactions
  BY <1>0, <1>1 DEF StatesInv
<1>8. ASSUME NEW id \in Ids
      PROVE  /\ Queued(id)' <=> Has("unstarted", id)'
             /\ InUnconfirmed(id)' <=> Has("unconfirmed", id)'
             /\ InConfirmed(id)' <=> Has("confirmed", id)'
             /\ id \in fatal' <=> Has("fatal", id)'
             /\ id \in transactions' => id < txIDCount' /\ tx'[id].state # "new"
  <2>1. /\ InUnconfirmed(id)' <=> InUnconfirmed(id)
        /\ InConfirmed(id)' <=> InConfirmed(id)
        /\ id \in fatal' <=> id \in fatal
    BY <1>1 DEF InUnconfirmed, InConfirmed
  <2>2. CASE id = txIDCount
    BY <1>0, <1>1, <1>4, <1>6, <1>7, <2>1, <2>2 DEF StatesInv, Has
  <2>3. CASE id # txIDCount
    <3>1. id \in transactions' <=> id \in transactions /\ id \notin dropped
      BY <1>1, <2>3
    <3> QED
      BY <1>0, <1>1, <1>3, <1>4, <1>5, <2>1, <2>3, <3>1 DEF StatesInv, Has
  <2> QED
    BY <2>2, <2>3
<1> QED
  BY <1>8 DEF StatesInv

(* What waits or is unconfirmed fails, and what failed before is forgotten. *)
LEMMA AbandonStatesInv ==
    ASSUME TypeInv, StatesInv, AbandonPendingTransactions
    PROVE  StatesInv'
<1>0. /\ tx \in [Ids -> Record] /\ unstarted \in Seq(Ids)
      /\ unconfirmed \in [Nonces -> Ids \cup {NoTx}]
      /\ \A id \in Ids : id # NoTx
  BY BoundsAssumption, NamesAssumption DEF TypeInv, TypeOK, StoreTypeOK, Ids
<1> DEFINE failed == {unstarted[i] : i \in 1..Len(unstarted)}
                       \cup {unconfirmed[n] : n \in Held(unconfirmed)}
<1>1. /\ UNCHANGED <<confirmed, txIDCount>> /\ unstarted' = <<>>
      /\ unconfirmed' = [n \in Nonces |-> NoTx]
      /\ transactions' = transactions \ fatal /\ fatal' = failed
      /\ tx' = [id \in Ids |-> IF id \in failed THEN [tx[id] EXCEPT !.state = "fatal"]
                                            ELSE tx[id]]
  BY DEF AbandonPendingTransactions, Cleared
<1>2. \A id \in Ids : id \in failed <=> Queued(id) \/ InUnconfirmed(id)
  BY <1>0 DEF Queued, InUnconfirmed, Held
<1>3. \A id \in Ids : tx'[id].state = IF id \in failed THEN "fatal" ELSE tx[id].state
  BY <1>0, <1>1 DEF Record
<1>4. \A id \in Ids : ~Queued(id)' /\ ~InUnconfirmed(id)' /\ (InConfirmed(id)' <=> InConfirmed(id))
  BY <1>0, <1>1 DEF Queued, InUnconfirmed, InConfirmed
<1> HIDE DEF failed
<1> QED
  BY <1>1, <1>2, <1>3, <1>4 DEF StatesInv, Has

LEMMA BroadcastStatesInv ==
    ASSUME TypeInv, SigningInv, StatesInv, BroadcastTransaction
    PROVE  StatesInv'
<1>0. /\ tx \in [Ids -> Record] /\ unstarted \in Seq(Ids)
      /\ unconfirmed \in [Nonces -> Ids \cup {NoTx}]
      /\ "broadcast" \in Threads /\ \A id \in Ids : id # NoTx
  BY BoundsAssumption, NamesAssumption DEF TypeInv, TypeOK, StoreTypeOK, Threads, Ids
<1>1. CASE InitializeNonce \/ CheckInFlight \/ CheckPendingNonce \/ SetNonce
  BY <1>1, StatesUnchanged
  DEF InitializeNonce, CheckInFlight, CheckPendingNonce, SetNonce, storeVars
<1>2. CASE UpdateUnstartedTransactionWithNonce
  <2>1. UNCHANGED <<confirmed, fatal, transactions, txIDCount>>
    BY <1>2 DEF UpdateUnstartedTransactionWithNonce
  <2>2. CASE UNCHANGED <<unstarted, unconfirmed, tx>>
    BY <2>1, <2>2, StatesUnchanged
  <2>3. CASE ~UNCHANGED <<unstarted, unconfirmed, tx>>
    <3> DEFINE head == Head(unstarted)
    <3>1. /\ unstarted # <<>> /\ nonceMap \in Nonces /\ unconfirmed[nonceMap] = NoTx
          /\ unstarted' = Tail(unstarted)
          /\ unconfirmed' = [unconfirmed EXCEPT ![nonceMap] = head]
          /\ tx' = [tx EXCEPT ![head].state = "unconfirmed"]
      BY <1>2, <2>3 DEF UpdateUnstartedTransactionWithNonce, Dequeued
    <3>2. /\ 1 \in 1..Len(unstarted) /\ head = unstarted[1] /\ head \in Ids
          /\ Len(unstarted') = Len(unstarted) - 1 /\ Len(unstarted) \in Nat
          /\ \A i \in 1..Len(unstarted') : unstarted'[i] = unstarted[i + 1]
      BY <1>0, <3>1
    <3> HIDE DEF head
    <3>3. \A id \in Ids : Queued(id)' <=> Queued(id) /\ id # head
      <4>1. \A i, j \in 1..Len(unstarted) : unstarted[i] = unstarted[j] => i = j
        BY DEF SigningInv, QueueFresh
      <4> SUFFICES ASSUME NEW id \in Ids PROVE Queued(id)' <=> Queued(id) /\ id # head
        OBVIOUS
      <4>2. ASSUME Queued(id)' PROVE Queued(id) /\ id # head
        <5>1. PICK i \in 1..Len(unstarted') : unstarted'[i] = id
          BY <4>2 DEF Queued
        <5>2. i + 1 \in 1..Len(unstarted) /\ i + 1 # 1 /\ unstarted[i + 1] = id
          BY <3>2, <5>1
        <5> QED
          BY <3>2, <4>1, <5>2 DEF Queued
      <4>3. ASSUME Queued(id), id # head PROVE Queued(id)'
        <5>1. PICK i \in 1..Len(unstarted) : unstarted[i] = id
          BY <4>3 DEF Queued
        <5>2. i - 1 \in 1..Len(unstarted') /\ (i - 1) + 1 = i
          BY <3>2, <4>3, <5>1
        <5>3. unstarted'[i - 1] = id
          BY <3>2, <5>1, <5>2
        <5> QED
          BY <5>2, <5>3 DEF Queued
      <4> QED
        BY <4>2, <4>3
    <3>4. \A id \in Ids : InUnconfirmed(id)' <=> InUnconfirmed(id) \/ id = head
      BY <1>0, <3>1, <3>2 DEF InUnconfirmed
    <3>5. \A id \in Ids : tx'[id].state = IF id = head THEN "unconfirmed" ELSE tx[id].state
      BY <1>0, <3>1, <3>2 DEF Record
    <3>6. Queued(head)
      BY <3>2 DEF Queued
    <3>7. \A id \in Ids : InConfirmed(id)' <=> InConfirmed(id)
      BY <2>1 DEF InConfirmed
    <3> QED
      BY <2>1, <3>2, <3>3, <3>4, <3>5, <3>6, <3>7 DEF StatesInv, Has
  <2> QED
    BY <2>2, <2>3
<1>3. CASE CreateAndSendAttempt("broadcast")
  BY <1>0, <1>3, AttemptStatesInv
<1> QED
  BY <1>1, <1>2, <1>3 DEF BroadcastTransaction

(* Confirmed and unconfirmed transactions change places, and some of the confirmed ones
   are forgotten.  No nonce is in both maps, so that none is overwritten. *)
LEMMA MarkStatesInv ==
    ASSUME TypeInv, NonceInv, SigningInv, StatesInv, MarkConfirmedAndReorgedTransactions
    PROVE  StatesInv'
<1>0. /\ tx \in [Ids -> Record]
      /\ unconfirmed \in [Nonces -> Ids \cup {NoTx}]
      /\ confirmed \in [Nonces -> Ids \cup {NoTx}]
      /\ \A id \in Ids : id # NoTx
  BY BoundsAssumption, NamesAssumption DEF TypeInv, TypeOK, StoreTypeOK, Ids
<1> DEFINE mined == {n \in Held(unconfirmed) : Passed(n, latestNonce)}
           reorged == {n \in Held(confirmed) : ~Passed(n, latestNonce)}
           conf == [n \in Nonces |-> IF n \in mined THEN unconfirmed[n]
                                     ELSE IF n \in reorged THEN NoTx ELSE confirmed[n]]
           pruned == Pruned(conf)
           minedIds == {unconfirmed[n] : n \in mined}
           reorgedIds == {confirmed[n] : n \in reorged}
           prunedIds == {conf[n] : n \in pruned}
<1>1. /\ UNCHANGED <<unstarted, fatal, txIDCount>>
      /\ unconfirmed' = [n \in Nonces |-> IF n \in reorged THEN confirmed[n]
                                          ELSE IF n \in mined THEN NoTx ELSE unconfirmed[n]]
      /\ confirmed' = [n \in Nonces |-> IF n \in pruned THEN NoTx ELSE conf[n]]
      /\ transactions' = transactions \ prunedIds
      /\ tx' = [id \in Ids |->
                  IF id \in reorgedIds THEN Reorged(tx[id])
                  ELSE IF id \in minedIds THEN [tx[id] EXCEPT !.state = "confirmed"]
                  ELSE tx[id]]
  BY DEF MarkConfirmedAndReorgedTransactions
<1>2. pruned \subseteq Held(conf)
  BY DEF Pruned
<1>3. /\ \A n \in mined : n \in Nonces /\ unconfirmed[n] # NoTx /\ confirmed[n] = NoTx
      /\ \A n \in reorged : n \in Nonces /\ confirmed[n] # NoTx /\ unconfirmed[n] = NoTx
      /\ \A n \in Held(conf) : n \in Nonces /\ conf[n] # NoTx
  BY DEF NonceInv, Held
<1>4. /\ \A m, n \in Nonces, id \in Ids : unconfirmed[m] = id /\ unconfirmed[n] = id => m = n
      /\ \A m, n \in Nonces, id \in Ids : confirmed[m] = id /\ confirmed[n] = id => m = n
      /\ \A m, n \in Nonces, id \in Ids : ~(unconfirmed[m] = id /\ confirmed[n] = id)
  <2>1. \A m, n \in Nonces, id \in Ids : Signs(m, id) /\ Signs(n, id) => m = n
    BY DEF SigningInv, OneNonce
  <2>2. \A n \in Nonces, id \in Ids : ~(unconfirmed[n] = id /\ confirmed[n] = id)
    BY <1>0 DEF NonceInv, Held
  <2> QED
    BY <2>1, <2>2 DEF Signs
<1>5. conf = [n \in Nonces |-> IF n \in mined THEN unconfirmed[n]
                               ELSE IF n \in reorged THEN NoTx ELSE confirmed[n]]
  OBVIOUS
<1>6. /\ \A id \in Ids : id \in minedIds <=> \E n \in mined : unconfirmed[n] = id
      /\ \A id \in Ids : id \in reorgedIds <=> \E n \in reorged : confirmed[n] = id
      /\ \A id \in Ids : id \in prunedIds <=> \E n \in pruned : conf[n] = id
  OBVIOUS
<1> HIDE DEF mined, reorged, conf, pruned, minedIds, reorgedIds, prunedIds
<1>7. \A id \in Ids : /\ id \in minedIds => InUnconfirmed(id)
                      /\ id \in reorgedIds => InConfirmed(id)
                      /\ ~(InUnconfirmed(id) /\ InConfirmed(id))
  BY <1>3, <1>4, <1>6 DEF InUnconfirmed, InConfirmed
<1>8. \A id \in Ids :
          InUnconfirmed(id)' <=> id \in reorgedIds \/ (InUnconfirmed(id) /\ id \notin minedIds)
  <2> SUFFICES ASSUME NEW id \in Ids
               PROVE  InUnconfirmed(id)' <=>
                        id \in reorgedIds \/ (InUnconfirmed(id) /\ id \notin minedIds)
    OBVIOUS
  <2>1. ASSUME InUnconfirmed(id)'
        PROVE  id \in reorgedIds \/ (InUnconfirmed(id) /\ id \notin minedIds)
    BY <1>0, <1>1, <1>3, <1>4, <1>6, <2>1 DEF InUnconfirmed
  <2>2. ASSUME id \in reorgedIds PROVE InUnconfirmed(id)'
    BY <1>1, <1>3, <1>6, <2>2 DEF InUnconfirmed
  <2>3. ASSUME InUnconfirmed(id), id \notin minedIds PROVE InUnconfirmed(id)'
    BY <1>0, <1>1, <1>3, <1>6, <2>3 DEF InUnconfirmed
  <2> QED
    BY <2>1, <2>2, <2>3
<1>9. \A id \in Ids : (\E n \in Nonces : conf[n] = id)
                        <=> id \in minedIds \/ (InConfirmed(id) /\ id \notin reorgedIds)
  <2> SUFFICES ASSUME NEW id \in Ids
               PROVE  (\E n \in Nonces : conf[n] = id)
                        <=> id \in minedIds \/ (InConfirmed(id) /\ id \notin reorgedIds)
    OBVIOUS
  <2>1. ASSUME NEW n \in Nonces, conf[n] = id
        PROVE  id \in minedIds \/ (InConfirmed(id) /\ id \notin reorgedIds)
    BY <1>0, <1>3, <1>4, <1>5, <1>6, <2>1 DEF InConfirmed
  <2>2. ASSUME id \in minedIds PROVE \E n \in Nonces : conf[n] = id
    BY <1>3, <1>5, <1>6, <2>2
  <2>3. ASSUME InConfirmed(id), id \notin reorgedIds PROVE \E n \in Nonces : conf[n] = id
    BY <1>0, <1>3, <1>5, <1>6, <2>3 DEF InConfirmed
  <2> QED
    BY <2>1, <2>2, <2>3
<1>10. \A m, n \in Nonces, id \in Ids : conf[m] = id /\ conf[n] = id => m = n
  BY <1>0, <1>4, <1>5
<1>11. \A id \in Ids : InConfirmed(id)' <=> (\E n \in Nonces : conf[n] = id) /\ id \notin prunedIds
  BY <1>0, <1>1, <1>2, <1>3, <1>6, <1>10 DEF InConfirmed
<1>12. \A id \in Ids : tx'[id].state = IF id \in reorgedIds THEN "unconfirmed"
                                       ELSE IF id \in minedIds THEN "confirmed" ELSE tx[id].state
  BY <1>0, <1>1 DEF Reorged, Record
<1>13. \A id \in Ids : id \in prunedIds => \E n \in Nonces : conf[n] = id
  BY <1>2, <1>3, <1>6
<1>14. \A id \in Ids : Queued(id)' <=> Queued(id)
  BY <1>1 DEF Queued
<1> QED
  BY <1>1, <1>7, <1>8, <1>9, <1>11, <1>12, <1>13, <1>14 DEF StatesInv, Has

LEMMA BackfillStatesInv ==
    ASSUME TypeInv, NonceInv, SigningInv, StatesInv, BackfillTransactions
    PROVE  StatesInv'
<1>0. /\ tx \in [Ids -> Record] /\ txIDCount \in Nat
      /\ unconfirmed \in [Nonces -> Ids \cup {NoTx}]
      /\ "backfill" \in Threads
      /\ \A id \in Ids : id \in Nat /\ id # NoTx
  BY BoundsAssumption, NamesAssumption DEF TypeInv, TypeOK, StoreTypeOK, Threads, Ids
<1>1. CASE NonceAt \/ FetchUnconfirmedTransaction
  BY <1>1, StatesUnchanged DEF NonceAt, FetchUnconfirmedTransaction, storeVars
<1>2. CASE MarkConfirmedAndReorgedTransactions
  BY <1>2, MarkStatesInv
<1>3. CASE MarkUnconfirmedTransactionPurgeable
  <2>1. \A id \in Ids : tx'[id].state = tx[id].state
    <3>1. tx' = tx \/ tx' = [tx EXCEPT ![unconfirmed[cur["backfill"].nonce]].isPurgeable = TRUE]
      BY <1>3 DEF MarkUnconfirmedTransactionPurgeable
    <3>2. \A id \in Ids : tx'[id] = tx[id] \/ tx'[id] = [tx[id] EXCEPT !.isPurgeable = TRUE]
      BY <1>0, <3>1
    <3>3. \A t \in Record : [t EXCEPT !.isPurgeable = TRUE].state = t.state
      BY DEF Record
    <3> QED
      BY <1>0, <3>2, <3>3
  <2> QED
    BY <1>3, <2>1, StatesUnchanged DEF MarkUnconfirmedTransactionPurgeable
<1>4. CASE CreateEmptyUnconfirmedTransaction
  <2>1. UNCHANGED <<unstarted, confirmed, fatal>>
    BY <1>4 DEF CreateEmptyUnconfirmedTransaction
  <2>2. CASE UNCHANGED <<unconfirmed, transactions, tx, txIDCount>>
    BY <2>1, <2>2, StatesUnchanged
  <2>3. CASE ~UNCHANGED <<unconfirmed, transactions, tx, txIDCount>>
    <3>1. /\ latestNonce \in Nonces /\ txIDCount < MaxIds /\ unconfirmed[latestNonce] = NoTx
          /\ txIDCount' = txIDCount + 1
          /\ unconfirmed' = [unconfirmed EXCEPT ![latestNonce] = txIDCount]
          /\ transactions' = transactions \cup {txIDCount}
          /\ tx' = [tx EXCEPT ![txIDCount].state = "unconfirmed", ![txIDCount].isEmpty = TRUE]
      BY <1>4, <2>3 DEF CreateEmptyUnconfirmedTransaction
    <3>2. txIDCount \in Ids /\ txIDCount \notin transactions
      <4>1. txIDCount \in Ids
        BY <1>0, <3>1, BoundsAssumption DEF Ids
      <4> QED
        BY <1>0, <4>1 DEF StatesInv
    <3>3. \A id \in Ids : InUnconfirmed(id)' <=> InUnconfirmed(id) \/ id = txIDCount
      BY <1>0, <3>1, <3>2 DEF InUnconfirmed
    <3>4. \A id \in Ids : tx'[id].state = IF id = txIDCount THEN "unconfirmed" ELSE tx[id].state
      BY <1>0, <3>1, <3>2 DEF Record
    <3>5. \A id \in Ids : (Queued(id)' <=> Queued(id)) /\ (InConfirmed(id)' <=> InConfirmed(id))
      BY <2>1 DEF Queued, InConfirmed
    <3>6. \A id \in Ids : id < txIDCount => id < txIDCount' /\ id # txIDCount
      BY <1>0, <3>1
    <3>7. txIDCount < txIDCount'
      BY <1>0, <3>1
    <3>8. ASSUME NEW id \in Ids
          PROVE  /\ Queued(id)' <=> Has("unstarted", id)'
                 /\ InUnconfirmed(id)' <=> Has("unconfirmed", id)'
                 /\ InConfirmed(id)' <=> Has("confirmed", id)'
                 /\ id \in fatal' <=> Has("fatal", id)'
                 /\ id \in transactions' => id < txIDCount' /\ tx'[id].state # "new"
      <4>1. id \in fatal' <=> id \in fatal
        BY <2>1
      <4>2. CASE id = txIDCount
        <5>1. /\ ~Queued(id) /\ ~InConfirmed(id) /\ id \notin fatal
              /\ id \in transactions' /\ tx'[id].state = "unconfirmed"
          BY <3>1, <3>2, <3>4, <4>2 DEF StatesInv, Has
        <5> QED
          BY <3>3, <3>5, <3>7, <4>1, <4>2, <5>1 DEF Has
      <4>3. CASE id # txIDCount
        <5>1. (id \in transactions' <=> id \in transactions) /\ tx'[id].state = tx[id].state
          BY <3>1, <3>4, <4>3
        <5> QED
          BY <3>3, <3>5, <3>6, <4>1, <4>3, <5>1 DEF StatesInv, Has
      <4> QED
        BY <4>2, <4>3
    <3> QED
      BY <3>8 DEF StatesInv
  <2> QED
    BY <2>2, <2>3
<1>5. CASE CreateAndSendAttempt("backfill")
  BY <1>0, <1>5, AttemptStatesInv
<1> QED
  BY <1>1, <1>2, <1>3, <1>4, <1>5 DEF BackfillTransactions

LEMMA EnvironmentStatesInv ==
    ASSUME TypeInv, SigningInv, StatesInv, Environment
    PROVE  StatesInv'
<1>1. CASE Mine \/ Reorg \/ DropFromMempool
  BY <1>1, StatesUnchanged DEF Mine, Reorg, DropFromMempool, storeVars
<1>2. CASE NextBlock
  <2>1. \A id \in Ids : tx'[id].state = tx[id].state
    BY <1>2 DEF NextBlock, Record, TypeInv, TypeOK, StoreTypeOK
  <2> QED
    BY <1>2, <2>1, StatesUnchanged DEF NextBlock
<1> QED
  BY <1>1, <1>2, CreateStatesInv, AbandonStatesInv DEF Environment

(* Neither the queue nor a map holds a transaction twice. *)
LEMMA StatesPartition == TypeInv /\ SigningInv /\ StatesInv => StoreIsPartitioned
<1> SUFFICES ASSUME TypeInv, SigningInv, StatesInv PROVE StoreIsPartitioned
  OBVIOUS
<1>0. /\ unstarted \in Seq(Ids) /\ fatal \subseteq Ids
      /\ unconfirmed \in [Nonces -> Ids \cup {NoTx}]
      /\ confirmed \in [Nonces -> Ids \cup {NoTx}]
      /\ \A id \in Ids : id # NoTx
  BY BoundsAssumption, NamesAssumption DEF TypeInv, TypeOK, StoreTypeOK, Ids
<1> DEFINE in(state) == {id \in Ids : tx[id].state = state /\ id \in transactions}
           indexed(f, state) == /\ {f[n] : n \in Held(f)} = in(state)
                                /\ \A m, n \in Held(f) : f[m] = f[n] => m = n
<1>1. in("new") = {} /\ fatal = in("fatal")
  BY <1>0 DEF StatesInv, Has
<1>2. {unstarted[i] : i \in 1..Len(unstarted)} = in("unstarted")
  BY <1>0 DEF StatesInv, Has, Queued
<1>3. Len(unstarted) = Cardinality(in("unstarted"))
  <2>1. unstarted \in [1..Len(unstarted) -> in("unstarted")] /\ Len(unstarted) \in Nat
    BY <1>0, <1>2
  <2>2. \A i, j \in 1..Len(unstarted) : unstarted[i] = unstarted[j] => i = j
    BY DEF SigningInv, QueueFresh
  <2>3. ExistsBijection(1..Len(unstarted), in("unstarted"))
    <3>1. \A id \in in("unstarted") : \E i \in 1..Len(unstarted) : unstarted[i] = id
      BY <1>2
    <3>2. unstarted \in Bijection(1..Len(unstarted), in("unstarted"))
      BY <2>1, <2>2, <3>1 DEF Bijection, Injection, Surjection, IsInjective
    <3> QED
      BY <3>2 DEF ExistsBijection
  <2> QED
    BY <2>1, <2>3, FS_CountingElements
<1>4. indexed(unconfirmed, "unconfirmed")
  <2>1. {unconfirmed[n] : n \in Held(unconfirmed)} = in("unconfirmed")
    BY <1>0 DEF StatesInv, Has, InUnconfirmed, Held
  <2> QED
    BY <1>0, <2>1 DEF SigningInv, OneNonce, Signs, Held
<1>5. indexed(confirmed, "confirmed")
  <2>1. {confirmed[n] : n \in Held(confirmed)} = in("confirmed")
    BY <1>0 DEF StatesInv, Has, InConfirmed, Held
  <2> QED
    BY <1>0, <2>1 DEF SigningInv, OneNonce, Signs, Held
<1> QED
  BY <1>1, <1>2, <1>3, <1>4, <1>5 DEF StoreIsPartitioned

(* The collections of the store and its index stay together, and each transaction is in
   one of them, once, through pruning, a full queue, reorgs and abandonments, as long as
   no entries of an earlier run lead the first nonce astray. *)
THEOREM StoreIsPartitionedHolds ==
    ASSUME MaxForeign = 0
    PROVE  Spec => []StoreIsPartitioned
<1>1. TypeInv /\ NonceInv /\ [Next]_vars => NonceInv'
  <2>1. NonceInv /\ UNCHANGED vars => NonceInv'
    BY FrameNonceInv DEF vars, storeVars, loopVars, nodeVars
  <2> QED
    BY <2>1, BroadcastNonceInv, BackfillNonceInv, EnvironmentNonceInv DEF Next
<1>2. TypeInv /\ NonceInv /\ SigningInv /\ StatesInv /\ [Next]_vars => StatesInv'
  <2>1. StatesInv /\ UNCHANGED vars => StatesInv'
    BY StatesUnchanged DEF vars, storeVars
  <2> QED
    BY <2>1, BroadcastStatesInv, BackfillStatesInv, EnvironmentStatesInv DEF Next
<1>3. Init => NonceInv /\ StatesInv
  BY InitNonceInv, InitStatesInv
<1> QED
  BY <1>1, <1>2, <1>3, StatesPartition, SigningInvHolds, PTL DEF Spec

-----------------------------------------------------------------------------
(* How often a transaction is signed.  An attempt a loop has decided on is counted
   before it is made: by the broadcast loop from the assignment on, by the backfill
   loop as long as the transaction is at the nonce it looks at. *)
ByBroadcast(id) == pc["broadcast"] \in {"advance", "create"} /\ cur["broadcast"].id = id

ByBackfill(id) ==
    /\ pc["backfill"] \in {"purge", "create"} /\ cur["backfill"].id = id
    /\ unconfirmed[cur["backfill"].nonce] = id

(* The detector picks a transaction once: it is, or is about to be, purgeable. *)
Picked(id) == tx[id].isPurgeable \/ (pc["backfill"] = "purge" /\ ByBackfill(id))

One(holds) == IF holds THEN 1 ELSE 0

AttemptInv ==
    \A id \in Ids :
        /\ tx[id].attemptCount + One(ByBroadcast(id)) + One(ByBackfill(id))
              <= MaxAllowedAttempts + 1 + One(Picked(id))
        /\ Queued(id) \/ id >= txIDCount => tx[id].attemptCount = 0

(* A step that makes no attempt and decides on none. *)
LEMMA NoNewAttempt ==
    ASSUME TypeInv, AttemptInv,
           \A id \in Ids :
               /\ tx'[id].attemptCount = tx[id].attemptCount
               /\ tx[id].isPurgeable => tx'[id].isPurgeable
               /\ ByBroadcast(id)' => ByBroadcast(id)
               /\ ByBackfill(id)' => ByBackfill(id)
               /\ pc["backfill"] = "purge" /\ ByBackfill(id) /\ ByBackfill(id)' => Picked(id)'
               /\ Queued(id)' \/ id >= txIDCount' => Queued(id) \/ id >= txIDCount
    PROVE  AttemptInv'
<1>1. SUFFICES ASSUME NEW id \in Ids
               PROVE  tx'[id].attemptCount + One(ByBroadcast(id)') + One(ByBackfill(id)')
                        <= MaxAllowedAttempts + 1 + One(Picked(id)')
  BY DEF AttemptInv
<1>2. tx[id].attemptCount \in Nat /\ MaxAllowedAttempts \in Nat
  BY LimitsAssumption DEF TypeInv, TypeOK, StoreTypeOK, Record
<1>3. /\ One(ByBroadcast(id)') <= One(ByBroadcast(id))
      /\ One(ByBackfill(id)') <= One(ByBackfill(id))
  BY <1>1 DEF One
<1>4. One(Picked(id)) <= One(Picked(id)') \/ (One(ByBackfill(id)) = 1 /\ One(ByBackfill(id)') = 0)
  BY <1>1 DEF One, Picked
<1>5. /\ \A b \in BOOLEAN : One(b) \in 0..1
      /\ tx[id].attemptCount + One(ByBroadcast(id)) + One(ByBackfill(id))
              <= MaxAllowedAttempts + 1 + One(Picked(id))
  BY DEF One, AttemptInv
<1>6. /\ One(ByBroadcast(id)) \in 0..1 /\ One(ByBroadcast(id)') \in 0..1
      /\ One(ByBackfill(id)) \in 0..1 /\ One(ByBackfill(id)') \in 0..1
      /\ One(Picked(id)) \in 0..1 /\ One(Picked(id)') \in 0..1
  BY DEF One
<1>7. tx'[id].attemptCount = tx[id].attemptCount
  BY <1>1
<1> HIDE DEF One
<1> QED
  BY <1>2, <1>3, <1>4, <1>5, <1>6, <1>7

(* An attempt that was decided on is made, at the nonce where the store has the
   transaction, so that it neither waits nor is yet to be created. *)
LEMMA AttemptAttemptInv ==
    ASSUME TypeInv, SigningInv, AttemptInv, NEW th \in Threads, CreateAndSendAttempt(th)
    PROVE  AttemptInv'
<1>0. /\ tx \in [Ids -> Record] /\ unconfirmed \in [Nonces -> Ids \cup {NoTx}]
      /\ pc = [t \in Threads |-> pc[t]] /\ cur = [t \in Threads |-> cur[t]]
      /\ Threads = {"broadcast", "backfill"} /\ \A id \in Ids : id # NoTx
  BY BoundsAssumption, NamesAssumption
  DEF TypeInv, TypeOK, StoreTypeOK, LoopTypeOK, Threads, Ids
<1>1. UNCHANGED <<unstarted, unconfirmed, txIDCount>>
  BY DEF CreateAndSendAttempt, CreateAttempt, SendTransaction, RecheckPendingNonce,
         UpdateTransactionBroadcast, storeVars
<1>2. CASE \/ CreateAttempt(th) /\ Return(th) /\ UNCHANGED tx
           \/ SendTransaction(th) \/ RecheckPendingNonce(th)
           \/ UpdateTransactionBroadcast(th)
  <2>1. \A id \in Ids : /\ tx'[id].attemptCount = tx[id].attemptCount
                        /\ tx'[id].isPurgeable = tx[id].isPurgeable
    <3>1. tx' = tx \/ tx' = [tx EXCEPT ![unconfirmed[cur[th].nonce]].lastBroadcastAt = 0]
      BY <1>2 DEF SendTransaction, RecheckPendingNonce, UpdateTransactionBroadcast, storeVars
    <3> QED
      BY <1>0, <3>1 DEF Record
  <2>2. /\ pc[th] # "purge"
        /\ \/ pc' = [pc EXCEPT ![th] = "idle"] /\ cur' = [cur EXCEPT ![th] = NoCopy]
           \/ pc' = [pc EXCEPT ![th] = "update"] /\ UNCHANGED cur
           \/ pc' = [pc EXCEPT ![th] = "recheck"] /\ UNCHANGED cur
    BY <1>2 DEF CreateAttempt, SendTransaction, RecheckPendingNonce,
                UpdateTransactionBroadcast, Return, Goto
  <2>3. \A id \in Ids : /\ ByBroadcast(id)' => ByBroadcast(id)
                        /\ ByBackfill(id)' => ByBackfill(id)
                        /\ pc["backfill"] = "purge" => pc'["backfill"] = "purge"
    BY <1>0, <1>1, <1>2, <2>2 DEF ByBroadcast, ByBackfill
  <2>4. \A id \in Ids : Queued(id)' <=> Queued(id)
    BY <1>1 DEF Queued
  <2> QED
    BY <1>1, <2>1, <2>3, <2>4, NoNewAttempt DEF Picked
<1>3. CASE CreateAttempt(th) /\ ~(Return(th) /\ UNCHANGED tx)
  <2> DEFINE signed == cur[th].id
  <2>1. /\ pc[th] = "create" /\ unconfirmed[cur[th].nonce] = signed
        /\ tx' = [tx EXCEPT ![signed].attemptCount = @ + 1]
        /\ pc' = [pc EXCEPT ![th] = "send"] /\ UNCHANGED cur
    BY <1>3 DEF CreateAttempt, Goto
  <2>2. signed \in Ids /\ cur[th].nonce \in Nonces
    BY <2>1 DEF TypeInv, CopiesOK, Busy
  <2>3. ~Queued(signed) /\ ~(signed >= txIDCount)
    <3>1. Signs(cur[th].nonce, signed)
      BY <2>1 DEF Signs
    <3>2. signed < txIDCount /\ \A i \in 1..Len(unstarted) : unstarted[i] # signed
      BY <2>2, <3>1 DEF SigningInv, SignedKnown, QueueFresh
    <3>3. signed \in Nat /\ txIDCount \in Nat
      BY <2>2, BoundsAssumption DEF TypeInv, TypeOK, StoreTypeOK, Ids
    <3> HIDE DEF signed
    <3> QED
      BY <3>2, <3>3 DEF Queued
  <2> SUFFICES ASSUME NEW id \in Ids
               PROVE  /\ tx'[id].attemptCount + One(ByBroadcast(id)') + One(ByBackfill(id)')
                            <= MaxAllowedAttempts + 1 + One(Picked(id)')
                      /\ Queued(id)' \/ id >= txIDCount' => tx'[id].attemptCount = 0
    BY DEF AttemptInv
  <2> HIDE DEF signed
  <2>4. /\ tx[id].attemptCount \in Nat /\ MaxAllowedAttempts \in Nat
        /\ tx[id].attemptCount + One(ByBroadcast(id)) + One(ByBackfill(id))
              <= MaxAllowedAttempts + 1 + One(Picked(id))
        /\ Queued(id) \/ id >= txIDCount => tx[id].attemptCount = 0
    BY <1>0, LimitsAssumption DEF Record, AttemptInv
  <2>5. /\ tx'[id].attemptCount = IF id = signed THEN tx[id].attemptCount + 1
                                                 ELSE tx[id].attemptCount
        /\ tx'[id].isPurgeable = tx[id].isPurgeable
    BY <1>0, <2>1, <2>2 DEF Record
  <2>6. Queued(id)' <=> Queued(id)
    BY <1>1 DEF Queued
  <2>7. CASE th = "broadcast"
    <3>1. /\ ByBroadcast(id) <=> id = signed
          /\ ~ByBroadcast(id)'
          /\ ByBackfill(id)' <=> ByBackfill(id)
          /\ Picked(id)' <=> Picked(id)
      BY <1>0, <1>1, <2>1, <2>5, <2>7 DEF ByBroadcast, ByBackfill, Picked, signed
    <3> QED
      BY <1>1, <2>3, <2>4, <2>5, <2>6, <3>1 DEF One
  <2>8. CASE th = "backfill"
    <3>1. /\ ByBackfill(id) <=> id = signed
          /\ ~ByBackfill(id)'
          /\ ByBroadcast(id)' <=> ByBroadcast(id)
          /\ Picked(id)' <=> Picked(id)
      BY <1>0, <1>1, <2>1, <2>5, <2>8 DEF ByBroadcast, ByBackfill, Picked, signed
    <3> QED
      BY <1>1, <2>3, <2>4, <2>5, <2>6, <3>1 DEF One
  <2> QED
    BY <1>0, <2>7, <2>8
<1> QED
  BY <1>2, <1>3 DEF CreateAndSendAttempt

LEMMA EnvironmentAttemptInv ==
    ASSUME TypeInv, AttemptInv, Environment
    PROVE  AttemptInv'
<1>0. /\ tx \in [Ids -> Record] /\ unconfirmed \in [Nonces -> Ids \cup {NoTx}]
      /\ unstarted \in Seq(Ids) /\ txIDCount \in Nat
      /\ \A id \in Ids : id # NoTx /\ id \in Nat
  BY BoundsAssumption, NamesAssumption DEF TypeInv, TypeOK, StoreTypeOK, Ids
<1>1. UNCHANGED <<pc, cur>>
  BY DEF Environment, CreateTransaction, AbandonPendingTransactions, Mine, Reorg,
         DropFromMempool, NextBlock, loopVars
<1>2. \A id \in Ids : /\ tx'[id].attemptCount = tx[id].attemptCount
                      /\ tx'[id].isPurgeable = tx[id].isPurgeable
  <2>1. CASE CreateTransaction
    <3>1. tx' = [tx EXCEPT ![txIDCount].state = "unstarted"]
      BY <2>1 DEF CreateTransaction
    <3> QED
      BY <1>0, <3>1 DEF Record
  <2>2. CASE AbandonPendingTransactions
    BY <1>0, <2>2 DEF AbandonPendingTransactions, Record
  <2>3. CASE NextBlock
    BY <1>0, <2>3 DEF NextBlock, Record
  <2>4. CASE Mine \/ Reorg \/ DropFromMempool
    BY <2>4 DEF Mine, Reorg, DropFromMempool, storeVars
  <2> QED
    BY <2>1, <2>2, <2>3, <2>4 DEF Environment
<1>3. \A id \in Ids : Queued(id)' \/ id >= txIDCount' => Queued(id) \/ id >= txIDCount
  <2>1. CASE CreateTransaction
    <3> DEFINE room == IF Len(unstarted) >= MaxQueuedTransactions
                         THEN Len(unstarted) - MaxQueuedTransactions + 1 ELSE 0
    <3>1. /\ unstarted' = Append(SubSeq(unstarted, room + 1, Len(unstarted)), txIDCount)
          /\ txIDCount' = txIDCount + 1
      BY <2>1 DEF CreateTransaction
    <3>2. room \in Nat /\ room <= Len(unstarted) /\ Len(unstarted) \in Nat
      BY <1>0, LimitsAssumption
    <3> HIDE DEF room
    <3>3. /\ Len(unstarted') = Len(unstarted) - room + 1
          /\ unstarted'[Len(unstarted) - room + 1] = txIDCount
          /\ \A i \in 1..(Len(unstarted) - room) : unstarted'[i] = unstarted[room + i]
      BY <1>0, <3>1, <3>2
    <3>4. \A i \in 1..Len(unstarted') : \/ unstarted'[i] = txIDCount
                                       \/ \E j \in 1..Len(unstarted) : unstarted'[i] = unstarted[j]
      <4> SUFFICES ASSUME NEW i \in 1..Len(unstarted'), i # Len(unstarted) - room + 1
                   PROVE  \E j \in 1..Len(unstarted) : unstarted'[i] = unstarted[j]
        BY <3>3
      <4>1. i \in 1..(Len(unstarted) - room) /\ room + i \in 1..Len(unstarted)
        BY <3>2, <3>3
      <4> QED
        BY <3>3, <4>1
    <3>5. \A id \in Ids : id >= txIDCount' \/ id = txIDCount => id >= txIDCount
      BY <1>0, <3>1
    <3>6. \A id \in Ids : Queued(id)' => Queued(id) \/ id = txIDCount
      BY <3>4 DEF Queued
    <3> QED
      BY <3>5, <3>6
  <2>2. CASE AbandonPendingTransactions
    BY <2>2 DEF AbandonPendingTransactions, Queued
  <2>3. CASE Mine \/ Reorg \/ DropFromMempool \/ NextBlock
    BY <2>3 DEF Mine, Reorg, DropFromMempool, NextBlock, storeVars, Queued
  <2> QED
    BY <2>1, <2>2, <2>3 DEF Environment
<1>4. \A n \in Nonces : unconfirmed'[n] = unconfirmed[n] \/ unconfirmed'[n] = NoTx
  BY DEF Environment, CreateTransaction, AbandonPendingTransactions, Cleared, Mine, Reorg,
         DropFromMempool, NextBlock, storeVars
<1>5. \A id \in Ids : /\ ByBroadcast(id)' <=> ByBroadcast(id)
                      /\ ByBackfill(id)' => ByBackfill(id)
  <2>1. \A id \in Ids : ByBroadcast(id)' <=> ByBroadcast(id)
    BY <1>1 DEF ByBroadcast
  <2>2. pc["backfill"] \in {"purge", "create"} => cur["backfill"].nonce \in Nonces
    BY DEF TypeInv, CopiesOK, Busy, Threads
  <2> QED
    BY <1>0, <1>1, <1>4, <2>1, <2>2 DEF ByBackfill
<1> QED
  BY <1>1, <1>2, <1>3, <1>5, NoNewAttempt DEF Picked

LEMMA BroadcastAttemptInv ==
    ASSUME TypeInv, SigningInv, AttemptInv, BroadcastTransaction
    PROVE  AttemptInv'
<1>0. /\ tx \in [Ids -> Record] /\ unconfirmed \in [Nonces -> Ids \cup {NoTx}]
      /\ unstarted \in Seq(Ids)
      /\ pc = [t \in Threads |-> pc[t]] /\ cur = [t \in Threads |-> cur[t]]
      /\ "broadcast" \in Threads /\ "backfill" \in Threads
      /\ \A id \in Ids : id # NoTx
  BY BoundsAssumption, NamesAssumption
  DEF TypeInv, TypeOK, StoreTypeOK, LoopTypeOK, Threads, Ids
<1>1. CASE InitializeNonce \/ CheckInFlight \/ CheckPendingNonce \/ SetNonce
  <2>1. UNCHANGED <<unstarted, unconfirmed, tx, txIDCount, cur>>
    BY <1>1 DEF InitializeNonce, CheckInFlight, CheckPendingNonce, SetNonce, storeVars
  <2>2. /\ pc'["backfill"] = pc["backfill"]
        /\ pc'["broadcast"] \in {"advance", "create"} => pc["broadcast"] = "advance"
    BY <1>0, <1>1 DEF InitializeNonce, CheckInFlight, CheckPendingNonce, SetNonce, Goto
  <2>3. \A id \in Ids : /\ ByBroadcast(id)' => ByBroadcast(id)
                        /\ ByBackfill(id)' <=> ByBackfill(id)
                        /\ Queued(id)' <=> Queued(id)
    BY <2>1, <2>2 DEF ByBroadcast, ByBackfill, Queued
  <2> QED
    BY <2>1, <2>2, <2>3, NoNewAttempt DEF Picked
<1>2. CASE UpdateUnstartedTransactionWithNonce
  <2> DEFINE head == Head(unstarted)
             assigned == /\ unstarted # <<>> /\ nonceMap \in Nonces
                         /\ unconfirmed[nonceMap] = NoTx
  <2>1. CASE ~assigned
    <3>1. /\ UNCHANGED <<unstarted, unconfirmed, tx, txIDCount>>
          /\ pc' = [pc EXCEPT !["broadcast"] = "idle"]
          /\ cur' = [cur EXCEPT !["broadcast"] = NoCopy]
      BY <1>2, <2>1 DEF UpdateUnstartedTransactionWithNonce, Return, Goto
    <3>2. \A id \in Ids : /\ ~ByBroadcast(id)'
                          /\ ByBackfill(id)' <=> ByBackfill(id)
                          /\ Queued(id)' <=> Queued(id)
      BY <1>0, <3>1 DEF ByBroadcast, ByBackfill, Queued
    <3> QED
      BY <1>0, <3>1, <3>2, NoNewAttempt DEF Picked
  <2>2. CASE assigned
    <3>1. /\ UNCHANGED txIDCount
          /\ unstarted' = Tail(unstarted)
          /\ unconfirmed' = [unconfirmed EXCEPT ![nonceMap] = head]
          /\ tx' = [tx EXCEPT ![head].state = "unconfirmed"]
          /\ pc' = [pc EXCEPT !["broadcast"] = "advance"]
          /\ cur'["broadcast"].id = head /\ cur'["backfill"] = cur["backfill"]
      BY <1>0, <1>2, <2>2 DEF UpdateUnstartedTransactionWithNonce, Dequeued, Goto
    <3>2. /\ 1 \in 1..Len(unstarted) /\ head = unstarted[1] /\ head \in Ids
          /\ \A i \in 1..Len(unstarted') : /\ unstarted'[i] = unstarted[i + 1]
                                          /\ i + 1 \in 1..Len(unstarted)
      BY <1>0, <2>2, <3>1
    <3> SUFFICES ASSUME NEW id \in Ids
                 PROVE  /\ tx'[id].attemptCount + One(ByBroadcast(id)') + One(ByBackfill(id)')
                              <= MaxAllowedAttempts + 1 + One(Picked(id)')
                        /\ Queued(id)' \/ id >= txIDCount' => tx'[id].attemptCount = 0
      BY DEF AttemptInv
    <3>3. /\ tx[id].attemptCount \in Nat
          /\ MaxAllowedAttempts \in Nat /\ MaxAllowedAttempts >= 1
          /\ tx[id].attemptCount + One(ByBroadcast(id)) + One(ByBackfill(id))
                <= MaxAllowedAttempts + 1 + One(Picked(id))
          /\ Queued(id) \/ id >= txIDCount => tx[id].attemptCount = 0
      BY <1>0, LimitsAssumption DEF Record, AttemptInv
    <3>4. /\ tx'[id].attemptCount = tx[id].attemptCount
          /\ tx'[id].isPurgeable = tx[id].isPurgeable
      BY <1>0, <3>1, <3>2 DEF Record
    <3>5. Queued(id)' => Queued(id)
      BY <3>2 DEF Queued
    <3>6. CASE id = head
      <4>1. Queued(id)
        BY <3>2, <3>6 DEF Queued
      <4> QED
        BY <3>3, <3>4, <4>1 DEF One
    <3>7. CASE id # head
      <4>1. ByBackfill(id)' <=> ByBackfill(id)
        <5>1. pc'["backfill"] = pc["backfill"]
          BY <1>0, <3>1 DEF Threads
        <5>2. \A n \in Nonces : unconfirmed'[n] = id <=> unconfirmed[n] = id
          BY <1>0, <2>2, <3>1, <3>7
        <5>3. pc["backfill"] \in {"purge", "create"} => cur["backfill"].nonce \in Nonces
          BY DEF TypeInv, CopiesOK, Busy, Threads
        <5> QED
          BY <3>1, <5>1, <5>2, <5>3 DEF ByBackfill
      <4>2. ~ByBroadcast(id)' /\ (Picked(id)' <=> Picked(id))
        BY <1>0, <3>1, <3>4, <3>7, <4>1 DEF ByBroadcast, Picked, Threads
      <4> QED
        BY <3>1, <3>3, <3>4, <3>5, <4>1, <4>2 DEF One
    <3> QED
      BY <3>6, <3>7
  <2> QED
    BY <2>1, <2>2
<1>3. CASE CreateAndSendAttempt("broadcast")
  BY <1>0, <1>3, AttemptAttemptInv
<1> QED
  BY <1>1, <1>2, <1>3 DEF BroadcastTransaction

(* The backfill loop decides on an attempt while fewer than MaxAllowedAttempts were
   made, for a filler it has just created, or for a purge, once. *)
LEMMA BackfillAttemptInv ==
    ASSUME TypeInv, SigningInv, AttemptInv, BackfillTransactions
    PROVE  AttemptInv'
<1>0. /\ tx \in [Ids -> Record] /\ unconfirmed \in [Nonces -> Ids \cup {NoTx}]
      /\ txIDCount \in Nat
      /\ pc = [t \in Threads |-> pc[t]] /\ cur = [t \in Threads |-> cur[t]]
      /\ "broadcast" \in Threads /\ "backfill" \in Threads /\ "backfill" # "broadcast"
      /\ \A id \in Ids : id # NoTx /\ id \in Nat
  BY BoundsAssumption, NamesAssumption
  DEF TypeInv, TypeOK, StoreTypeOK, LoopTypeOK, Threads, Ids
<1>1. CASE NonceAt \/ MarkConfirmedAndReorgedTransactions
  <2>1. UNCHANGED <<unstarted, txIDCount>> /\ cur'["broadcast"] = cur["broadcast"]
    BY <1>0, <1>1 DEF NonceAt, MarkConfirmedAndReorgedTransactions, storeVars
  <2>2. /\ pc'["broadcast"] = pc["broadcast"]
        /\ pc["backfill"] # "purge" /\ pc'["backfill"] \in {"mark", "fetch"}
    BY <1>0, <1>1 DEF NonceAt, MarkConfirmedAndReorgedTransactions, Goto
  <2>3. \A id \in Ids : /\ tx'[id].attemptCount = tx[id].attemptCount
                        /\ tx'[id].isPurgeable = tx[id].isPurgeable
    <3>1. \A id \in Ids : tx'[id] \in {tx[id], Reorged(tx[id]), [tx[id] EXCEPT !.state = "confirmed"]}
      BY <1>0, <1>1 DEF NonceAt, MarkConfirmedAndReorgedTransactions, storeVars
    <3>2. \A t \in Record : \A u \in {t, Reorged(t), [t EXCEPT !.state = "confirmed"]} :
              u.attemptCount = t.attemptCount /\ u.isPurgeable = t.isPurgeable
      BY DEF Reorged, Record
    <3> QED
      BY <1>0, <3>1, <3>2
  <2>4. \A id \in Ids : /\ ByBroadcast(id)' <=> ByBroadcast(id)
                        /\ ~ByBackfill(id)'
                        /\ Queued(id)' <=> Queued(id)
    BY <2>1, <2>2 DEF ByBroadcast, ByBackfill, Queued
  <2> QED
    BY <2>1, <2>2, <2>3, <2>4, NoNewAttempt
<1>2. CASE FetchUnconfirmedTransaction
  <2> DEFINE found == IF latestNonce \in Nonces THEN unconfirmed[latestNonce] ELSE NoTx
  <2>1. UNCHANGED <<unstarted, unconfirmed, tx, txIDCount>> /\ pc["backfill"] = "fetch"
    BY <1>2 DEF FetchUnconfirmedTransaction, storeVars
  <2>2. /\ cur'["broadcast"] = cur["broadcast"] /\ pc'["broadcast"] = pc["broadcast"]
        /\ \/ pc'["backfill"] \in {"idle", "gap"}
           \/ /\ pc'["backfill"] = "purge" /\ ~tx[found].isPurgeable /\ found # NoTx
              /\ cur'["backfill"].id = found /\ cur'["backfill"].nonce = latestNonce
           \/ /\ pc'["backfill"] = "create" /\ AttemptsLeft(tx[found]) /\ found # NoTx
              /\ cur'["backfill"].id = found
    BY <1>0, <1>2 DEF FetchUnconfirmedTransaction, Return, Goto
  <2> SUFFICES ASSUME NEW id \in Ids
               PROVE  /\ tx'[id].attemptCount + One(ByBroadcast(id)') + One(ByBackfill(id)')
                            <= MaxAllowedAttempts + 1 + One(Picked(id)')
                      /\ Queued(id)' \/ id >= txIDCount' => tx'[id].attemptCount = 0
    BY DEF AttemptInv
  <2>3. /\ tx[id].attemptCount \in Nat /\ MaxAllowedAttempts \in Nat
        /\ tx[id].attemptCount + One(ByBroadcast(id)) + One(ByBackfill(id))
              <= MaxAllowedAttempts + 1 + One(Picked(id))
        /\ Queued(id) \/ id >= txIDCount => tx[id].attemptCount = 0
    BY <1>0, LimitsAssumption DEF Record, AttemptInv
  <2>4. /\ ByBroadcast(id)' <=> ByBroadcast(id)
        /\ Queued(id)' <=> Queued(id)
        /\ ~ByBackfill(id) /\ (Picked(id) <=> tx[id].isPurgeable)
    BY <2>1, <2>2 DEF ByBroadcast, ByBackfill, Queued, Picked
  <2>5. CASE ~ByBackfill(id)'
    BY <2>1, <2>3, <2>4, <2>5 DEF One, Picked
  <2>6. CASE ByBackfill(id)' /\ pc'["backfill"] = "purge"
    <3>1. found = id
      BY <2>2, <2>6 DEF ByBackfill
    <3>2. ~tx[id].isPurgeable /\ Picked(id)'
      BY <2>2, <2>6, <3>1 DEF Picked
    <3> HIDE DEF found
    <3> QED
      BY <2>1, <2>3, <2>4, <2>6, <3>2 DEF One
  <2>7. CASE ByBackfill(id)' /\ pc'["backfill"] = "create"
    <3>1. found = id
      BY <2>2, <2>7 DEF ByBackfill
    <3>2. tx[id].attemptCount < MaxAllowedAttempts
      BY <2>2, <2>7, <3>1 DEF AttemptsLeft
    <3> HIDE DEF found
    <3> QED
      BY <2>1, <2>3, <2>4, <2>7, <3>2 DEF One
  <2> QED
    BY <2>2, <2>5, <2>6, <2>7 DEF ByBackfill
<1>3. CASE MarkUnconfirmedTransactionPurgeable
  <2>1. UNCHANGED <<unstarted, unconfirmed, txIDCount>> /\ pc["backfill"] = "purge"
    BY <1>3 DEF MarkUnconfirmedTransactionPurgeable
  <2>2. cur["backfill"].nonce \in Nonces
    BY <2>1 DEF TypeInv, CopiesOK, Busy, Threads
  <2>3. /\ cur'["broadcast"] = cur["broadcast"] /\ pc'["broadcast"] = pc["broadcast"]
        /\ \/ pc'["backfill"] = "idle" /\ UNCHANGED tx /\ unconfirmed[cur["backfill"].nonce] = NoTx
           \/ /\ pc'["backfill"] = "create" /\ UNCHANGED cur
              /\ unconfirmed[cur["backfill"].nonce] # NoTx
              /\ tx' = [tx EXCEPT ![unconfirmed[cur["backfill"].nonce]].isPurgeable = TRUE]
    BY <1>0, <1>3 DEF MarkUnconfirmedTransactionPurgeable, Return, Goto
  <2>4. \A id \in Ids : /\ tx'[id].attemptCount = tx[id].attemptCount
                        /\ tx[id].isPurgeable => tx'[id].isPurgeable
    BY <1>0, <2>2, <2>3 DEF Record
  <2>5. \A id \in Ids : /\ ByBroadcast(id)' <=> ByBroadcast(id)
                        /\ ByBackfill(id)' => ByBackfill(id)
                        /\ Queued(id)' <=> Queued(id)
    BY <2>1, <2>3 DEF ByBroadcast, ByBackfill, Queued
  <2>6. \A id \in Ids : ByBackfill(id) /\ ByBackfill(id)' => tx'[id].isPurgeable
    BY <1>0, <2>1, <2>2, <2>3 DEF ByBackfill, Record
  <2> QED
    BY <2>1, <2>4, <2>5, <2>6, NoNewAttempt DEF Picked
<1>4. CASE CreateEmptyUnconfirmedTransaction
  <2> DEFINE free == /\ latestNonce \in Nonces
                     /\ unconfirmed[latestNonce] = NoTx /\ confirmed[latestNonce] = NoTx
  <2>1. UNCHANGED unstarted /\ pc["backfill"] = "gap"
    BY <1>4 DEF CreateEmptyUnconfirmedTransaction
  <2>2. cur'["broadcast"] = cur["broadcast"] /\ pc'["broadcast"] = pc["broadcast"]
    BY <1>0, <1>4 DEF CreateEmptyUnconfirmedTransaction, Return, Goto
  <2>3. CASE ~free
    <3>1. UNCHANGED <<unconfirmed, tx, txIDCount>> /\ pc'["backfill"] = "idle"
      BY <1>0, <1>4, <2>3 DEF CreateEmptyUnconfirmedTransaction, Return, Goto
    <3>2. \A id \in Ids : /\ ByBroadcast(id)' <=> ByBroadcast(id)
                          /\ ~ByBackfill(id)'
                          /\ Queued(id)' <=> Queued(id)
      BY <2>1, <2>2, <3>1 DEF ByBroadcast, ByBackfill, Queued
    <3> QED
      BY <2>1, <3>1, <3>2, NoNewAttempt
  <2>4. CASE free
    <3>1. /\ txIDCount < MaxIds /\ txIDCount' = txIDCount + 1
          /\ tx' = [tx EXCEPT ![txIDCount].state = "unconfirmed", ![txIDCount].isEmpty = TRUE]
          /\ cur'["backfill"].id = txIDCount /\ pc'["backfill"] = "create"
      <4>1. cur \in [Threads -> Copy]
        BY DEF TypeInv, TypeOK, LoopTypeOK
      <4>2. cur' = [cur EXCEPT !["backfill"].id = txIDCount]
        BY <1>4, <2>4 DEF CreateEmptyUnconfirmedTransaction
      <4>3. cur'["backfill"].id = txIDCount
        BY <1>0, <4>1, <4>2 DEF Copy
      <4> QED
        BY <1>0, <1>4, <2>4, <4>3 DEF CreateEmptyUnconfirmedTransaction, Goto
    <3> SUFFICES ASSUME NEW id \in Ids
                 PROVE  /\ tx'[id].attemptCount + One(ByBroadcast(id)') + One(ByBackfill(id)')
                              <= MaxAllowedAttempts + 1 + One(Picked(id)')
                        /\ Queued(id)' \/ id >= txIDCount' => tx'[id].attemptCount = 0
      BY DEF AttemptInv
    <3>2. /\ tx[id].attemptCount \in Nat
          /\ MaxAllowedAttempts \in Nat /\ MaxAllowedAttempts >= 1
          /\ tx[id].attemptCount + One(ByBroadcast(id)) + One(ByBackfill(id))
                <= MaxAllowedAttempts + 1 + One(Picked(id))
          /\ Queued(id) \/ id >= txIDCount => tx[id].attemptCount = 0
      BY <1>0, LimitsAssumption DEF Record, AttemptInv
    <3>3. /\ tx'[id].attemptCount = tx[id].attemptCount
          /\ tx'[id].isPurgeable = tx[id].isPurgeable
      BY <1>0, <3>1 DEF Record
    <3>4. /\ ByBroadcast(id)' <=> ByBroadcast(id)
          /\ Queued(id)' <=> Queued(id)
          /\ Picked(id) <=> tx[id].isPurgeable
          /\ Picked(id)' <=> tx'[id].isPurgeable
      BY <2>1, <2>2, <3>1 DEF ByBroadcast, ByBackfill, Queued, Picked
    <3>5. id >= txIDCount' => id >= txIDCount
      BY <1>0, <3>1
    <3>6. CASE id = txIDCount
      <4>1. tx[id].attemptCount = 0
        BY <1>0, <3>2, <3>6
      <4> QED
        BY <3>3, <4>1, <3>2 DEF One
    <3>7. CASE id # txIDCount
      <4>1. ~ByBackfill(id)'
        BY <3>1, <3>7 DEF ByBackfill
      <4> QED
        BY <3>2, <3>3, <3>4, <3>5, <4>1 DEF One
    <3> QED
      BY <3>6, <3>7
  <2> QED
    BY <2>3, <2>4
<1>5. CASE CreateAndSendAttempt("backfill")
  BY <1>0, <1>5, AttemptAttemptInv
<1> QED
  BY <1>1, <1>2, <1>3, <1>4, <1>5 DEF BackfillTransactions

LEMMA InitAttemptInv == Init => AttemptInv
<1>1. Init => \A id \in Ids : /\ tx[id].attemptCount = 0
                             /\ ~ByBroadcast(id) /\ ~ByBackfill(id)
  BY DEF Init, ByBroadcast, ByBackfill, Threads
<1>2. \A b \in BOOLEAN : One(b) \in 0..1 /\ One(FALSE) = 0
  BY DEF One
<1> QED
  BY <1>1, <1>2, LimitsAssumption DEF AttemptInv, One

(* Whatever is lost, reorged or abandoned, and however the loops overtake each other, a
   transaction is signed at most two times beyond the limit: the broadcast loop may still be
   about to make the attempt it decided on first, and a purge is decided before the
   limit is looked at. *)
THEOREM AttemptBoundHolds == Spec => []AttemptBound
<1>1. TypeInv /\ SigningInv /\ AttemptInv /\ [Next]_vars => AttemptInv'
  <2>1. AttemptInv /\ UNCHANGED vars => AttemptInv'
    BY DEF AttemptInv, ByBroadcast, ByBackfill, Picked, Queued, vars, storeVars, loopVars
  <2> QED
    BY <2>1, BroadcastAttemptInv, BackfillAttemptInv, EnvironmentAttemptInv DEF Next
<1>2. TypeInv /\ AttemptInv => AttemptBound
  <2> SUFFICES ASSUME TypeInv, AttemptInv, NEW id \in Ids
               PROVE  tx[id].attemptCount <= MaxAllowedAttempts + 2
    BY DEF AttemptBound
  <2>1. /\ tx[id].attemptCount \in Nat /\ MaxAllowedAttempts \in Nat
        /\ tx[id].attemptCount + One(ByBroadcast(id)) + One(ByBackfill(id))
              <= MaxAllowedAttempts + 1 + One(Picked(id))
    BY LimitsAssumption DEF TypeInv, TypeOK, StoreTypeOK, Record, AttemptInv
  <2>2. /\ One(ByBroadcast(id)) \in 0..1 /\ One(ByBackfill(id)) \in 0..1
        /\ One(Picked(id)) \in 0..1
    BY DEF One
  <2> QED
    BY <2>1, <2>2
<1> QED
  BY <1>1, <1>2, InitAttemptInv, SigningInvHolds, PTL DEF Spec

-----------------------------------------------------------------------------
(* What the store calls confirmed is what the chain executed.  The chain and the pool
   only hold what was sent; what was signed for a nonce is held there by the store,
   or was pruned; and as long as no reorg happens, the backfill loop never looks
   back to a nonce that was confirmed. *)
SentBehind == \A n \in Nonces, id \in Ids : <<n, id>> \in sent => n < Frontier

NodeSigned ==
    /\ \A n \in Nonces : mempool[n] # NoAttempt => <<n, mempool[n].id>> \in sent
    /\ \A i \in 1..Len(chain) : <<i - 1, chain[i].id>> \in sent

(* Only what is purgeable or fills a gap is sent without its payload. *)
Emptied(id) == tx[id].isPurgeable \/ tx[id].isEmpty

PayloadInv ==
    /\ \A n \in Nonces : mempool[n].isEmpty => Emptied(mempool[n].id)
    /\ \A i \in 1..Len(chain) : chain[i].isEmpty => Emptied(chain[i].id)

CopiesTrue ==
    /\ \A th \in Threads : pc[th] \in {"advance", "create", "send"} /\ cur[th].isPurgeable =>
                               tx[cur[th].id].isPurgeable
    /\ pc["backfill"] \in {"idle", "mark", "fetch", "gap"} => ~cur["backfill"].isPurgeable
    /\ pc["backfill"] = "purge" => unconfirmed[latestNonce] \in {cur["backfill"].id, NoTx}

HeldAt(n, id) == unconfirmed[n] = id \/ confirmed[n] = id

HeldOrPruned ==
    \A n \in Nonces, id \in Ids : Signs(n, id) => HeldAt(n, id) \/ id \notin transactions

RequestAlone ==
    \A n \in Nonces, i, j \in Ids :
        HeldAt(n, i) /\ ~tx[i].isEmpty /\ Signs(n, j) => j = i

OwnersInv == used.abandons = 0 => HeldOrPruned /\ RequestAlone

(* The nonces the backfill loop has seen mined, or will when it looks next. *)
SeenMined == IF pc["backfill"] \in {"mark", "fetch", "gap"} THEN latestNonce ELSE Len(chain)

MinedInv ==
    used.reorgs = 0 =>
        /\ SeenMined <= Len(chain)
        /\ \A n \in Held(confirmed) : n < SeenMined
        /\ used.abandons = 0 =>
             /\ \A n \in Nonces, id \in Ids : Signs(n, id) => HeldAt(n, id) \/ n < SeenMined
             /\ \A n \in Nonces, i, j \in Ids : Signs(n, i) /\ Signs(n, j) => i = j

ExecInv == SentBehind /\ NodeSigned /\ PayloadInv /\ CopiesTrue /\ OwnersInv /\ MinedInv

-----------------------------------------------------------------------------
LEMMA InitExecInv == MaxForeign = 0 /\ Init => ExecInv
<1> SUFFICES ASSUME MaxForeign = 0, Init PROVE ExecInv
  OBVIOUS
<1>1. /\ unconfirmed = [n \in Nonces |-> NoTx] /\ confirmed = [n \in Nonces |-> NoTx]
      /\ sent = {} /\ chain = <<>>
      /\ pc = [th \in Threads |-> IF th = "broadcast" THEN "init" ELSE "idle"]
      /\ cur = [th \in Threads |-> NoCopy]
      /\ \A id \in Ids : id # NoTx
  BY NamesAssumption, BoundsAssumption DEF Init, Ids
<1>2. mempool = [n \in Nonces |-> NoAttempt]
  BY BoundsAssumption DEF Init, Nonces
<1>3. Held(unconfirmed) = {} /\ Held(confirmed) = {} /\ Len(chain) = 0
  BY <1>1 DEF Held
<1>4. pc["broadcast"] = "init" /\ pc["backfill"] = "idle" /\ \A th \in Threads : pc[th] \notin Busy
  BY <1>1 DEF Threads, Busy
<1>5. \A n \in Nonces, id \in Ids : ~Signs(n, id) /\ ~HeldAt(n, id)
  BY <1>1, <1>4 DEF Signs, HeldAt
<1>6. SentBehind /\ NodeSigned /\ PayloadInv
  BY <1>1, <1>2, <1>3 DEF SentBehind, NodeSigned, PayloadInv, NoAttempt
<1>7. CopiesTrue
  BY <1>1, <1>4 DEF CopiesTrue, Threads, NoCopy, Busy
<1>8. OwnersInv
  BY <1>5 DEF OwnersInv, HeldOrPruned, RequestAlone
<1>9. MinedInv
  BY <1>3, <1>4, <1>5 DEF MinedInv, SeenMined
<1> QED
  BY <1>6, <1>7, <1>8, <1>9 DEF ExecInv

(* The first nonce the broadcast loop has not taken only grows. *)
LEMMA FrontierGrows ==
    ASSUME TypeInv, TypeInv', NonceInv, [Next]_vars
    PROVE  Frontier <= Frontier'
<1>0. /\ Frontier \in Nat /\ nonceMap \in Nat
      /\ pc \in [Threads -> {"init", "idle", "pending", "assign", "advance", "create", "send",
                             "recheck", "update", "mark", "fetch", "purge", "gap"}]
      /\ "broadcast" \in Threads /\ "backfill" \in Threads
  BY FrontierNat DEF TypeInv, TypeOK, LoopTypeOK, Threads
<1>1. ASSUME UNCHANGED nonceMap, pc'["broadcast"] = pc["broadcast"]
      PROVE  Frontier <= Frontier'
  BY <1>0, <1>1 DEF Frontier
<1>2. CASE Environment \/ UNCHANGED vars
  <2>1. UNCHANGED <<nonceMap, pc>>
    BY <1>2 DEF Environment, CreateTransaction, AbandonPendingTransactions, Mine, Reorg,
                DropFromMempool, NextBlock, loopVars, vars
  <2> QED
    BY <1>1, <2>1
<1>3. CASE BackfillTransactions
  <2>1. UNCHANGED nonceMap /\ \E label : pc' = [pc EXCEPT !["backfill"] = label]
    <3>1. UNCHANGED nonceMap
      BY <1>3 DEF BackfillTransactions, NonceAt, MarkConfirmedAndReorgedTransactions,
           FetchUnconfirmedTransaction, MarkUnconfirmedTransactionPurgeable,
           CreateEmptyUnconfirmedTransaction, CreateAndSendAttempt, CreateAttempt,
           SendTransaction, RecheckPendingNonce, UpdateTransactionBroadcast
    <3>2. \E label : pc' = [pc EXCEPT !["backfill"] = label]
      BY <1>3 DEF BackfillTransactions, NonceAt, MarkConfirmedAndReorgedTransactions,
           FetchUnconfirmedTransaction, MarkUnconfirmedTransactionPurgeable,
           CreateEmptyUnconfirmedTransaction, CreateAndSendAttempt, CreateAttempt,
           SendTransaction, RecheckPendingNonce, UpdateTransactionBroadcast, Return, Goto
    <3> QED
      BY <3>1, <3>2
  <2> QED
    BY <1>0, <1>1, <2>1
<1>4. CASE BroadcastTransaction
  <2>1. CASE InitializeNonce
    <3>1. pc'["broadcast"] = "idle" /\ pc["broadcast"] = "init" /\ nonceMap = 0
      BY <1>0, <2>1 DEF InitializeNonce, Goto, NonceInv
    <3>2. nonceMap' \in Nat
      BY FrontierNat, BoundsAssumption DEF TypeInv, TypeOK, LoopTypeOK
    <3> QED
      BY <3>1, <3>2 DEF Frontier
  <2>2. CASE SetNonce
    <3>1. /\ pc'["broadcast"] = "create" /\ pc["broadcast"] = "advance"
          /\ nonceMap' = nonceMap + 1
      BY <1>0, <2>2 DEF SetNonce, Goto, NextNonce, NonceInv
    <3> QED
      BY <1>0, <3>1 DEF Frontier
  <2>3. CASE ~(InitializeNonce \/ SetNonce)
    <3>1. UNCHANGED nonceMap /\ pc["broadcast"] # "advance"
      BY <1>4, <2>3
      DEF BroadcastTransaction, CheckInFlight, CheckPendingNonce,
          UpdateUnstartedTransactionWithNonce, CreateAndSendAttempt, CreateAttempt,
          SendTransaction, RecheckPendingNonce, UpdateTransactionBroadcast
    <3> QED
      BY <1>0, <3>1 DEF Frontier
  <2> QED
    BY <2>1, <2>2, <2>3
<1> QED
  BY <1>2, <1>3, <1>4 DEF Next

(* Who touches the pool, the chain and the record of what was sent. *)
LEMMA NodeSteps ==
    ASSUME [Next]_vars
    PROVE  \/ UNCHANGED <<chain, mempool, sent>>
           \/ \E th \in Threads : SendTransaction(th)
           \/ Mine \/ Reorg \/ DropFromMempool
<1>1. ASSUME NEW th, CreateAndSendAttempt(th), ~SendTransaction(th)
      PROVE  UNCHANGED <<chain, mempool, sent>>
  BY <1>1 DEF CreateAndSendAttempt, CreateAttempt, RecheckPendingNonce,
              UpdateTransactionBroadcast, nodeVars
<1>2. CASE BroadcastTransaction
  BY <1>1, <1>2 DEF BroadcastTransaction, InitializeNonce, CheckInFlight, CheckPendingNonce,
       UpdateUnstartedTransactionWithNonce, SetNonce, CreateAndSendAttempt, nodeVars, Threads
<1>3. CASE BackfillTransactions
  BY <1>1, <1>3 DEF BackfillTransactions, NonceAt, MarkConfirmedAndReorgedTransactions,
       FetchUnconfirmedTransaction, MarkUnconfirmedTransactionPurgeable,
       CreateEmptyUnconfirmedTransaction, CreateAndSendAttempt, nodeVars, Threads
<1>4. CASE Environment \/ UNCHANGED vars
  BY <1>4 DEF Environment, CreateTransaction, AbandonPendingTransactions, NextBlock, nodeVars, vars
<1> QED
  BY <1>2, <1>3, <1>4 DEF Next

LEMMA NodeSignedStep ==
    ASSUME TypeInv, TypeInv', NonceInv, SentBehind, NodeSigned, [Next]_vars
    PROVE  SentBehind' /\ NodeSigned'
<1>0. /\ chain \in Seq(Attempt) /\ Len(chain) \in Nat
      /\ mempool \in [Nonces -> Attempt \cup {NoAttempt}]
      /\ \A n \in Nonces : n \in Nat
      /\ Frontier \in Nat /\ Frontier' \in Nat /\ Frontier <= Frontier'
  <2>1. nonceMap' \in Nat
    BY BoundsAssumption DEF TypeInv, TypeOK, LoopTypeOK
  <2>2. Frontier' \in Nat
    <3>1. Frontier' = nonceMap' \/ Frontier' = nonceMap' + 1
      BY DEF Frontier
    <3> QED
      BY <2>1, <3>1
  <2>3. /\ chain \in Seq(Attempt) /\ Len(chain) \in Nat
        /\ mempool \in [Nonces -> Attempt \cup {NoAttempt}]
        /\ \A n \in Nonces : n \in Nat
    BY BoundsAssumption DEF TypeInv, TypeOK, NodeTypeOK, Nonces
  <2> QED
    BY <2>2, <2>3, FrontierNat, FrontierGrows
<1>1. CASE UNCHANGED <<chain, mempool, sent>>
  BY <1>0, <1>1 DEF SentBehind, NodeSigned
<1>2. ASSUME NEW th \in Threads, SendTransaction(th)
      PROVE  SentBehind' /\ NodeSigned'
  <2> DEFINE n == cur[th].nonce
             id == cur[th].id
  <2>1. /\ n \in Nonces /\ id \in Ids /\ n < Frontier
        /\ sent' = sent \cup {<<n, id>>} /\ chain' = chain
        /\ mempool' = mempool \/ mempool' = [mempool EXCEPT ![n] = CurrentAttempt(th)]
    BY <1>2 DEF SendTransaction, TypeInv, CopiesOK, NonceInv, BehindFrontier, Busy
  <2>2. CurrentAttempt(th).id = id
    BY DEF CurrentAttempt
  <2>3. \A m \in Nonces : mempool'[m] = mempool[m] \/ (m = n /\ mempool'[m].id = id)
    BY <1>0, <2>1, <2>2
  <2> HIDE DEF n, id
  <2>4. SentBehind'
    BY <1>0, <2>1 DEF SentBehind
  <2>5. NodeSigned'
    BY <2>1, <2>3 DEF NodeSigned
  <2> QED
    BY <2>4, <2>5
<1>3. CASE Mine
  <2>1. /\ chain' = Append(chain, mempool[Len(chain)]) /\ sent' = sent
        /\ Len(chain) \in Nonces /\ mempool[Len(chain)] # NoAttempt
        /\ mempool' = [mempool EXCEPT ![Len(chain)] = NoAttempt]
    BY <1>3 DEF Mine
  <2>2. mempool[Len(chain)] \in Attempt
    BY <1>0, <2>1
  <2>3. \A i \in 1..Len(chain') : \/ i \in 1..Len(chain) /\ chain'[i] = chain[i]
                                  \/ i = Len(chain) + 1 /\ chain'[i] = mempool[i - 1]
    BY <1>0, <2>1, <2>2
  <2>4. \A m \in Nonces : mempool'[m] = mempool[m] \/ mempool'[m] = NoAttempt
    BY <1>0, <2>1
  <2>5. NodeSigned'
    <3>1. \A i \in 1..Len(chain') : <<i - 1, chain'[i].id>> \in sent
      BY <1>0, <2>1, <2>3 DEF NodeSigned
    <3> QED
      BY <2>1, <2>4, <3>1 DEF NodeSigned
  <2> QED
    BY <1>0, <2>1, <2>5 DEF SentBehind
<1>4. CASE Reorg
  <2>1. PICK height \in 0..(Len(chain) - 1) :
          /\ chain' = SubSeq(chain, 1, height) /\ sent' = sent
          /\ mempool' = [n \in Nonces |-> IF n \in height..(Len(chain) - 1)
                                          THEN chain[n + 1] ELSE mempool[n]]
    BY <1>4 DEF Reorg
  <2>2. Len(chain') = height /\ \A i \in 1..Len(chain') : chain'[i] = chain[i] /\ i \in 1..Len(chain)
    BY <1>0, <2>1
  <2>3. \A m \in Nonces : \/ mempool'[m] = mempool[m]
                          \/ m + 1 \in 1..Len(chain) /\ mempool'[m] = chain[m + 1]
    BY <1>0, <2>1
  <2>4. NodeSigned'
    <3>1. \A m \in Nonces : mempool'[m] # NoAttempt => <<m, mempool'[m].id>> \in sent
      <4> SUFFICES ASSUME NEW m \in Nonces, mempool'[m] # NoAttempt
                   PROVE  <<m, mempool'[m].id>> \in sent
        OBVIOUS
      <4>1. CASE mempool'[m] = mempool[m]
        BY <4>1 DEF NodeSigned
      <4>2. CASE m + 1 \in 1..Len(chain) /\ mempool'[m] = chain[m + 1]
        <5>1. (m + 1) - 1 = m
          BY <1>0
        <5> QED
          BY <4>2, <5>1 DEF NodeSigned
      <4> QED
        BY <2>3, <4>1, <4>2
    <3> QED
      BY <2>1, <2>2, <3>1 DEF NodeSigned
  <2> QED
    BY <1>0, <2>1, <2>4 DEF SentBehind
<1>5. CASE DropFromMempool
  <2>1. /\ UNCHANGED <<chain, sent>>
        /\ \A m \in Nonces : mempool'[m] = mempool[m] \/ mempool'[m] = NoAttempt
    BY <1>0, <1>5 DEF DropFromMempool
  <2> QED
    BY <1>0, <2>1 DEF SentBehind, NodeSigned
<1> QED
  BY <1>1, <1>2, <1>3, <1>4, <1>5, NodeSteps

(* Marks on a transaction stay; only a new one becomes the empty one of a gap. *)
LEMMA MarksStay ==
    ASSUME TypeInv, [Next]_vars
    PROVE  \A id \in Ids :
              /\ tx[id].isPurgeable => tx'[id].isPurgeable
              /\ tx'[id].isEmpty = tx[id].isEmpty \/ (id = txIDCount /\ tx'[id].isEmpty)
<1> DEFINE Stay == \A id \in Ids :
                      /\ tx[id].isPurgeable => tx'[id].isPurgeable
                      /\ \/ tx'[id].isEmpty = tx[id].isEmpty
                         \/ id = txIDCount /\ tx'[id].isEmpty
<1>0. tx \in [Ids -> Record]
  BY DEF TypeInv, TypeOK, StoreTypeOK
<1>1. CASE tx' = tx
  BY <1>1
<1>2. ASSUME NEW th \in Threads, CreateAndSendAttempt(th) PROVE Stay
  <2>1. \/ tx' = tx
        \/ tx' = [tx EXCEPT ![cur[th].id].attemptCount = @ + 1]
        \/ tx' = [tx EXCEPT ![unconfirmed[cur[th].nonce]].lastBroadcastAt = 0]
    BY <1>2 DEF CreateAndSendAttempt, CreateAttempt, SendTransaction, RecheckPendingNonce,
           UpdateTransactionBroadcast, storeVars
  <2> QED
    BY <1>0, <2>1 DEF Record
<1>3. CASE BroadcastTransaction
  <2>1. CASE UpdateUnstartedTransactionWithNonce
    <3>1. tx' = tx \/ tx' = [tx EXCEPT ![Head(unstarted)].state = "unconfirmed"]
      BY <2>1 DEF UpdateUnstartedTransactionWithNonce
    <3> QED
      BY <1>0, <3>1 DEF Record
  <2>2. CASE InitializeNonce \/ CheckInFlight \/ CheckPendingNonce \/ SetNonce
    BY <1>1, <2>2 DEF InitializeNonce, CheckInFlight, CheckPendingNonce, SetNonce, storeVars
  <2> QED
    BY <1>2, <1>3, <2>1, <2>2 DEF BroadcastTransaction, Threads
<1>4. CASE BackfillTransactions
  <2>1. CASE MarkConfirmedAndReorgedTransactions
    BY <1>0, <2>1 DEF MarkConfirmedAndReorgedTransactions, Reorged, Record
  <2>2. CASE MarkUnconfirmedTransactionPurgeable
    <3>1. tx' = tx \/ tx' = [tx EXCEPT ![unconfirmed[cur["backfill"].nonce]].isPurgeable = TRUE]
      BY <2>2 DEF MarkUnconfirmedTransactionPurgeable
    <3>2. \A id \in Ids : tx'[id] = tx[id] \/ tx'[id] = [tx[id] EXCEPT !.isPurgeable = TRUE]
      BY <1>0, <3>1
    <3>3. \A t \in Record : [t EXCEPT !.isPurgeable = TRUE].isEmpty = t.isEmpty
      BY DEF Record
    <3>4. \A t \in Record : [t EXCEPT !.isPurgeable = TRUE].isPurgeable = TRUE
      BY DEF Record
    <3>5. \A id \in Ids : tx'[id].isEmpty = tx[id].isEmpty
      BY <1>0, <3>2, <3>3
    <3>6. \A id \in Ids : tx[id].isPurgeable => tx'[id].isPurgeable
      BY <1>0, <3>2, <3>4
    <3> QED
      BY <3>5, <3>6
  <2>3. CASE CreateEmptyUnconfirmedTransaction
    <3>1. \/ tx' = tx
          \/ tx' = [tx EXCEPT ![txIDCount].state = "unconfirmed", ![txIDCount].isEmpty = TRUE]
      BY <2>3 DEF CreateEmptyUnconfirmedTransaction
    <3> QED
      BY <1>0, <3>1 DEF Record
  <2>4. CASE NonceAt \/ FetchUnconfirmedTransaction
    BY <1>1, <2>4 DEF NonceAt, FetchUnconfirmedTransaction, storeVars
  <2> QED
    BY <1>2, <1>4, <2>1, <2>2, <2>3, <2>4 DEF BackfillTransactions, Threads
<1>5. CASE Environment
  <2>1. CASE CreateTransaction
    <3>1. tx' = [tx EXCEPT ![txIDCount].state = "unstarted"]
      BY <2>1 DEF CreateTransaction
    <3> QED
      BY <1>0, <3>1 DEF Record
  <2>2. CASE AbandonPendingTransactions
    BY <1>0, <2>2 DEF AbandonPendingTransactions, Record
  <2>3. CASE NextBlock
    BY <1>0, <2>3 DEF NextBlock, Record
  <2>4. CASE Mine \/ Reorg \/ DropFromMempool
    BY <1>1, <2>4 DEF Mine, Reorg, DropFromMempool, storeVars
  <2> QED
    BY <1>5, <2>1, <2>2, <2>3, <2>4 DEF Environment
<1> QED
  BY <1>1, <1>3, <1>4, <1>5 DEF Next, vars, storeVars

LEMMA PayloadStep ==
    ASSUME TypeInv, TypeInv', MaxForeign = 0, SigningInv, NodeSigned, PayloadInv, CopiesTrue,
           [Next]_vars
    PROVE  PayloadInv'
<1> DEFINE EmptiedNext(id) == tx'[id].isPurgeable \/ tx'[id].isEmpty
<1>0. /\ chain \in Seq(Attempt) /\ Len(chain) \in Nat
      /\ mempool \in [Nonces -> Attempt \cup {NoAttempt}]
      /\ sent \subseteq Nonces \X Ids
      /\ \A n \in Nonces : n \in Nat
  BY BoundsAssumption DEF TypeInv, TypeOK, NodeTypeOK, Nonces
<1>1. \A id \in Ids : Emptied(id) => EmptiedNext(id)
  <2>1. tx \in [Ids -> Record]
    BY DEF TypeInv, TypeOK, StoreTypeOK
  <2> QED
    BY <2>1, MarksStay DEF Emptied, Record
<1>2. /\ \A n \in Nonces : mempool[n].isEmpty => EmptiedNext(mempool[n].id)
      /\ \A i \in 1..Len(chain) : chain[i].isEmpty => EmptiedNext(chain[i].id)
  <2>1. \A n \in Nonces : mempool[n].isEmpty => mempool[n].id \in Ids
    <3>1. ~NoAttempt.isEmpty
      BY DEF NoAttempt
    <3>2. \A n \in Nonces : mempool[n] # NoAttempt => mempool[n].id \in Ids
      BY <1>0 DEF NodeSigned
    <3> QED
      BY <3>1, <3>2
  <2>2. \A i \in 1..Len(chain) : chain[i].id \in Ids
    BY <1>0 DEF NodeSigned
  <2> QED
    BY <1>1, <2>1, <2>2 DEF PayloadInv
<1> HIDE DEF EmptiedNext
<1>a. ASSUME \A n \in Nonces : mempool'[n].isEmpty => EmptiedNext(mempool'[n].id),
             \A i \in 1..Len(chain') : chain'[i].isEmpty => EmptiedNext(chain'[i].id)
      PROVE  PayloadInv'
  BY <1>a DEF PayloadInv, Emptied, EmptiedNext
<1>3. CASE UNCHANGED <<chain, mempool, sent>>
  BY <1>2, <1>3, <1>a
<1>4. ASSUME NEW th \in Threads, SendTransaction(th)
      PROVE  PayloadInv'
  <2> DEFINE n == cur[th].nonce
  <2>1. /\ n \in Nonces /\ cur[th].id \in Ids /\ pc[th] = "send"
        /\ chain' = chain /\ tx' = tx
        /\ mempool' = mempool \/ mempool' = [mempool EXCEPT ![n] = CurrentAttempt(th)]
    BY <1>4 DEF SendTransaction, TypeInv, CopiesOK, Busy, storeVars
  <2>2. CurrentAttempt(th).isEmpty => Emptied(CurrentAttempt(th).id)
    BY <2>1 DEF CurrentAttempt, CopiesTrue, Emptied
  <2>3. \A m \in Nonces : mempool'[m] = mempool[m] \/ mempool'[m] = CurrentAttempt(th)
    BY <1>0, <2>1
  <2> HIDE DEF n
  <2>4. \A m \in Nonces : mempool'[m].isEmpty => Emptied(mempool'[m].id)
    BY <2>2, <2>3 DEF PayloadInv
  <2> QED
    BY <2>1, <2>4 DEF PayloadInv, Emptied
<1>5. CASE Mine
  <2>1. /\ chain' = Append(chain, mempool[Len(chain)])
        /\ Len(chain) \in Nonces /\ mempool[Len(chain)] # NoAttempt
        /\ mempool' = [mempool EXCEPT ![Len(chain)] = NoAttempt]
    BY <1>5 DEF Mine
  <2>2. mempool[Len(chain)] \in Attempt
    BY <1>0, <2>1
  <2>3. \A i \in 1..Len(chain') : \/ i \in 1..Len(chain) /\ chain'[i] = chain[i]
                                  \/ chain'[i] = mempool[Len(chain)]
    BY <1>0, <2>1, <2>2
  <2>4. \A m \in Nonces : mempool'[m] = mempool[m] \/ mempool'[m] = NoAttempt
    BY <1>0, <2>1
  <2>5. ~NoAttempt.isEmpty
    BY DEF NoAttempt
  <2>6. \A i \in 1..Len(chain') : chain'[i].isEmpty => EmptiedNext(chain'[i].id)
    BY <1>2, <2>1, <2>3
  <2>7. \A m \in Nonces : mempool'[m].isEmpty => EmptiedNext(mempool'[m].id)
    BY <1>2, <2>4, <2>5
  <2> QED
    BY <1>a, <2>6, <2>7
<1>6. CASE Reorg
  <2>1. PICK height \in 0..(Len(chain) - 1) :
          /\ chain' = SubSeq(chain, 1, height)
          /\ mempool' = [n \in Nonces |-> IF n \in height..(Len(chain) - 1)
                                          THEN chain[n + 1] ELSE mempool[n]]
    BY <1>6 DEF Reorg
  <2>2. Len(chain') = height /\ \A i \in 1..Len(chain') : chain'[i] = chain[i] /\ i \in 1..Len(chain)
    BY <1>0, <2>1
  <2>3. \A m \in Nonces : \/ mempool'[m] = mempool[m]
                          \/ m + 1 \in 1..Len(chain) /\ mempool'[m] = chain[m + 1]
    BY <1>0, <2>1
  <2>4. \A i \in 1..Len(chain') : chain'[i].isEmpty => EmptiedNext(chain'[i].id)
    BY <1>2, <2>2
  <2>5. \A m \in Nonces : mempool'[m].isEmpty => EmptiedNext(mempool'[m].id)
    BY <1>2, <2>3
  <2> QED
    BY <1>a, <2>4, <2>5
<1>7. CASE DropFromMempool
  <2>1. /\ UNCHANGED <<chain, sent>>
        /\ \A m \in Nonces : mempool'[m] = mempool[m] \/ mempool'[m] = NoAttempt
    BY <1>0, <1>7 DEF DropFromMempool
  <2>2. ~NoAttempt.isEmpty
    BY DEF NoAttempt
  <2>3. \A m \in Nonces : mempool'[m].isEmpty => EmptiedNext(mempool'[m].id)
    BY <1>2, <2>1, <2>2
  <2> QED
    BY <1>2, <1>a, <2>1, <2>3
<1> QED
  BY <1>3, <1>4, <1>5, <1>6, <1>7, NodeSteps

(* The copies the goroutines work on, when the other one or a caller moves. *)
LEMMA CopiesStep ==
    ASSUME TypeInv, TypeInv', NonceInv, CopiesTrue, [Next]_vars
    PROVE  CopiesTrue'
<1>0. /\ tx \in [Ids -> Record] /\ unconfirmed \in [Nonces -> Ids \cup {NoTx}]
      /\ "broadcast" \in Threads /\ "backfill" \in Threads
      /\ \A th \in Threads : th = "broadcast" \/ th = "backfill"
      /\ pc \in [Threads -> {"init", "idle", "pending", "assign", "advance", "create", "send",
                             "recheck", "update", "mark", "fetch", "purge", "gap"}]
      /\ cur \in [Threads -> Copy]
  BY DEF TypeInv, TypeOK, StoreTypeOK, LoopTypeOK, Threads
<1>1. \A th \in Threads : /\ pc[th] \in {"advance", "create", "send"} /\ cur[th].isPurgeable
                             => tx'[cur[th].id].isPurgeable
  BY MarksStay DEF CopiesTrue, TypeInv, CopiesOK, Busy
<1>2. \A th \in Threads : pc[th] \in Busy => cur[th].nonce \in Nonces /\ cur[th].id \in Ids
  BY DEF TypeInv, CopiesOK
<1>3. ~NoCopy.isPurgeable
  BY DEF NoCopy
<1> DEFINE Agrees(th) == /\ pc'[th] \in {"advance", "create", "send"} /\ cur'[th].isPurgeable
                            => tx'[cur'[th].id].isPurgeable
           Fresh == pc'["backfill"] \in {"idle", "mark", "fetch", "gap"}
                      => ~cur'["backfill"].isPurgeable
           Purging == pc'["backfill"] = "purge" =>
                        unconfirmed'[cur'["backfill"].nonce] \in {cur'["backfill"].id, NoTx}
<1>4. ASSUME Agrees("broadcast"), Agrees("backfill"), Fresh, Purging
      PROVE  CopiesTrue'
  BY <1>0, <1>4 DEF CopiesTrue, latestNonce
<1>5. ASSUME NEW th \in Threads, pc'[th] = pc[th], cur'[th] = cur[th]
      PROVE  Agrees(th)
  BY <1>1, <1>5
<1>6. ASSUME pc'["backfill"] = pc["backfill"], cur'["backfill"] = cur["backfill"],
             pc["backfill"] = "purge" =>
               unconfirmed'[cur["backfill"].nonce] \in {unconfirmed[cur["backfill"].nonce], NoTx}
      PROVE  Fresh /\ Purging
  BY <1>6 DEF CopiesTrue, latestNonce
<1>7. ASSUME NEW th \in Threads, CreateAndSendAttempt(th)
      PROVE  CopiesTrue'
  <2>1. PICK label \in {"send", "update", "recheck", "idle"} :
            /\ pc' = [pc EXCEPT ![th] = label]
            /\ \/ cur' = [cur EXCEPT ![th] = NoCopy] /\ label = "idle"
               \/ cur' = cur /\ label # "idle"
            /\ label = "send" => pc[th] = "create"
    BY <1>7 DEF CreateAndSendAttempt, CreateAttempt, SendTransaction, RecheckPendingNonce,
           UpdateTransactionBroadcast, Return, Goto
  <2>2. UNCHANGED unconfirmed
    BY <1>7 DEF CreateAndSendAttempt, CreateAttempt, SendTransaction, RecheckPendingNonce,
           UpdateTransactionBroadcast, storeVars
  <2>3. /\ pc'[th] = label
        /\ label = "idle" => cur'[th] = NoCopy
        /\ label # "idle" => cur'[th] = cur[th]
        /\ \A other \in Threads : other # th => pc'[other] = pc[other] /\ cur'[other] = cur[other]
    BY <1>0, <2>1
  <2>4. Agrees(th)
    BY <1>1, <2>1, <2>3
  <2>5. ASSUME NEW other \in Threads, other # th PROVE Agrees(other)
    BY <1>5, <2>3, <2>5
  <2>6. Fresh /\ Purging
    <3>1. CASE th = "backfill"
      BY <1>3, <2>1, <2>3, <3>1
    <3>2. CASE th # "backfill"
      BY <1>0, <1>6, <2>2, <2>3, <3>2
    <3> QED
      BY <3>1, <3>2
  <2> QED
    BY <1>0, <1>4, <2>4, <2>5, <2>6
<1>8. CASE Environment \/ UNCHANGED vars
  <2>1. UNCHANGED <<pc, cur>>
    BY <1>8 DEF Environment, CreateTransaction, AbandonPendingTransactions, Mine, Reorg,
                DropFromMempool, NextBlock, loopVars, vars
  <2>2. UNCHANGED unconfirmed \/ unconfirmed' = [n \in Nonces |-> NoTx]
    BY <1>8 DEF Environment, CreateTransaction, AbandonPendingTransactions, Cleared, Mine, Reorg,
                DropFromMempool, NextBlock, storeVars, vars
  <2>3. pc["backfill"] = "purge" =>
          unconfirmed'[cur["backfill"].nonce] \in {unconfirmed[cur["backfill"].nonce], NoTx}
    BY <1>0, <1>2, <2>2 DEF Busy
  <2> QED
    BY <1>0, <1>4, <1>5, <1>6, <2>1, <2>3
<1>9. CASE BroadcastTransaction
  <2>1. CASE InitializeNonce \/ CheckInFlight \/ CheckPendingNonce
    <3>1. UNCHANGED <<unconfirmed, cur>>
      BY <2>1 DEF InitializeNonce, CheckInFlight, CheckPendingNonce, storeVars
    <3>2. \E label \in {"idle", "pending", "assign"} : pc' = [pc EXCEPT !["broadcast"] = label]
      BY <2>1 DEF InitializeNonce, CheckInFlight, CheckPendingNonce, Goto
    <3>3. pc'["backfill"] = pc["backfill"] /\ pc'["broadcast"] \in {"idle", "pending", "assign"}
      BY <1>0, <3>2
    <3>4. Agrees("broadcast")
      BY <3>3
    <3> QED
      BY <1>0, <1>4, <1>5, <1>6, <3>1, <3>3, <3>4
  <2>2. CASE UpdateUnstartedTransactionWithNonce
    <3> DEFINE id == Head(unstarted)
               copy == [id |-> id, nonce |-> nonceMap, isPurgeable |-> tx[id].isPurgeable]
    <3>1. CASE UNCHANGED unconfirmed /\ Return("broadcast")
      <4>1. /\ pc' = [pc EXCEPT !["broadcast"] = "idle"]
            /\ cur' = [cur EXCEPT !["broadcast"] = NoCopy]
        BY <3>1 DEF Return, Goto
      <4>2. /\ pc'["broadcast"] = "idle"
            /\ pc'["backfill"] = pc["backfill"] /\ cur'["backfill"] = cur["backfill"]
        BY <1>0, <4>1
      <4>3. Agrees("broadcast")
        BY <4>2
      <4> QED
        BY <1>0, <1>4, <1>5, <1>6, <3>1, <4>2, <4>3
    <3>2. CASE ~(UNCHANGED unconfirmed /\ Return("broadcast"))
      <4>1. /\ nonceMap \in Nonces /\ unstarted # <<>> /\ pc["broadcast"] = "assign"
            /\ unconfirmed' = [unconfirmed EXCEPT ![nonceMap] = id]
            /\ tx' = [tx EXCEPT ![id].state = "unconfirmed"]
            /\ cur' = [cur EXCEPT !["broadcast"] = copy]
            /\ pc' = [pc EXCEPT !["broadcast"] = "advance"]
        BY <2>2, <3>2 DEF UpdateUnstartedTransactionWithNonce, Goto
      <4>2. id \in Ids
        BY <4>1 DEF TypeInv, TypeOK, StoreTypeOK
      <4>3. tx[id].isPurgeable => tx'[id].isPurgeable
        BY <4>2, MarksStay
      <4>4. /\ cur'["broadcast"] = copy
            /\ pc'["backfill"] = pc["backfill"] /\ cur'["backfill"] = cur["backfill"]
        BY <1>0, <4>1
      <4>5. cur'["broadcast"].id = id /\ cur'["broadcast"].isPurgeable = tx[id].isPurgeable
        BY <4>4
      <4> HIDE DEF id, copy
      <4>6. Agrees("broadcast")
        BY <4>3, <4>5
      <4>7. pc["backfill"] = "purge" => cur["backfill"].nonce # nonceMap
        <5>1. Frontier = nonceMap /\ nonceMap \in Nat
          BY <4>1, FrontierNat DEF Frontier
        <5> QED
          BY <1>0, <5>1 DEF NonceInv, BehindFrontier, Busy
      <4>8. pc["backfill"] = "purge" =>
              unconfirmed'[cur["backfill"].nonce] \in {unconfirmed[cur["backfill"].nonce], NoTx}
        BY <1>0, <1>2, <4>1, <4>7 DEF Busy
      <4> QED
        BY <1>0, <1>4, <1>5, <1>6, <4>4, <4>6, <4>8
    <3> QED
      BY <3>1, <3>2
  <2>3. CASE SetNonce
    <3>1. /\ UNCHANGED <<unconfirmed, cur>> /\ pc["broadcast"] = "advance"
          /\ pc' = [pc EXCEPT !["broadcast"] = "create"]
      BY <2>3 DEF SetNonce, Goto, storeVars
    <3>2. pc'["backfill"] = pc["backfill"]
      BY <1>0, <3>1
    <3>3. Agrees("broadcast")
      BY <1>0, <1>1, <3>1
    <3> QED
      BY <1>0, <1>4, <1>5, <1>6, <3>1, <3>2, <3>3
  <2> QED
    BY <1>0, <1>7, <1>9, <2>1, <2>2, <2>3 DEF BroadcastTransaction
<1>10. CASE BackfillTransactions
  <2>a. ASSUME NEW label, pc' = [pc EXCEPT !["backfill"] = label],
               cur'["broadcast"] = cur["broadcast"]
        PROVE  pc'["backfill"] = label /\ Agrees("broadcast")
    BY <1>0, <1>5, <2>a
  <2>b. ASSUME NEW copy, cur' = [cur EXCEPT !["backfill"] = copy]
        PROVE  cur'["backfill"] = copy /\ cur'["broadcast"] = cur["broadcast"]
    BY <1>0, <2>b
  <2>c. ASSUME Return("backfill") PROVE CopiesTrue'
    <3>1. cur'["backfill"] = NoCopy /\ cur'["broadcast"] = cur["broadcast"]
      BY <2>b, <2>c DEF Return
    <3>2. pc'["backfill"] = "idle" /\ Agrees("broadcast")
      BY <2>a, <2>c, <3>1 DEF Return, Goto
    <3> QED
      BY <1>3, <1>4, <3>1, <3>2
  <2>1. CASE NonceAt
    <3>1. /\ cur' = [cur EXCEPT !["backfill"].nonce = Len(chain)]
          /\ pc["backfill"] = "idle" /\ pc' = [pc EXCEPT !["backfill"] = "mark"]
      BY <2>1 DEF NonceAt, Goto
    <3>2. /\ cur'["backfill"].isPurgeable = cur["backfill"].isPurgeable
          /\ cur'["broadcast"] = cur["broadcast"]
      BY <1>0, <3>1 DEF Copy
    <3>3. pc'["backfill"] = "mark" /\ Agrees("broadcast")
      BY <2>a, <3>1, <3>2
    <3> QED
      BY <1>4, <3>1, <3>2, <3>3 DEF CopiesTrue
  <2>2. CASE MarkConfirmedAndReorgedTransactions
    <3>1. /\ pc["backfill"] = "mark" /\ pc' = [pc EXCEPT !["backfill"] = "fetch"] /\ cur' = cur
      BY <2>2 DEF MarkConfirmedAndReorgedTransactions, Goto
    <3>2. pc'["backfill"] = "fetch" /\ Agrees("broadcast")
      BY <2>a, <3>1
    <3> QED
      BY <1>4, <3>1, <3>2 DEF CopiesTrue
  <2>3. CASE FetchUnconfirmedTransaction
    <3> DEFINE id == IF latestNonce \in Nonces THEN unconfirmed[latestNonce] ELSE NoTx
               copy(purge) == [id |-> id, nonce |-> latestNonce, isPurgeable |-> purge]
    <3>1. /\ pc["backfill"] = "fetch" /\ UNCHANGED <<tx, unconfirmed>>
          /\ \/ Return("backfill")
             \/ Goto("backfill", "gap") /\ UNCHANGED cur
             \/ /\ id # NoTx
                /\ cur' = [cur EXCEPT !["backfill"] = copy(TRUE)] /\ Goto("backfill", "purge")
             \/ /\ id # NoTx
                /\ cur' = [cur EXCEPT !["backfill"] = copy(tx[id].isPurgeable)]
                /\ Goto("backfill", "create")
      BY <2>3 DEF FetchUnconfirmedTransaction, storeVars
    <3>2. CASE Goto("backfill", "gap") /\ UNCHANGED cur
      <4>1. pc'["backfill"] = "gap" /\ Agrees("broadcast")
        BY <2>a, <3>2 DEF Goto
      <4> QED
        BY <1>4, <3>1, <3>2, <4>1 DEF CopiesTrue
    <3>3. CASE /\ id # NoTx
               /\ cur' = [cur EXCEPT !["backfill"] = copy(TRUE)] /\ Goto("backfill", "purge")
      <4>1. cur'["backfill"] = copy(TRUE) /\ cur'["broadcast"] = cur["broadcast"]
        BY <2>b, <3>3
      <4>2. pc'["backfill"] = "purge" /\ Agrees("broadcast")
        BY <2>a, <3>3, <4>1 DEF Goto
      <4>3. unconfirmed'[cur'["backfill"].nonce] = cur'["backfill"].id
        BY <3>1, <3>3, <4>1
      <4> QED
        BY <1>4, <4>2, <4>3
    <3>4. CASE /\ id # NoTx
               /\ cur' = [cur EXCEPT !["backfill"] = copy(tx[id].isPurgeable)]
               /\ Goto("backfill", "create")
      <4>1. /\ cur'["backfill"] = copy(tx[id].isPurgeable)
            /\ cur'["broadcast"] = cur["broadcast"]
        BY <2>b, <3>4
      <4>2. pc'["backfill"] = "create" /\ Agrees("broadcast")
        BY <2>a, <3>4, <4>1 DEF Goto
      <4>3. cur'["backfill"].id = id /\ cur'["backfill"].isPurgeable = tx[id].isPurgeable
        BY <4>1
      <4> HIDE DEF id, copy
      <4> QED
        BY <1>4, <3>1, <4>2, <4>3
    <3> QED
      BY <2>c, <3>1, <3>2, <3>3, <3>4
  <2>4. CASE MarkUnconfirmedTransactionPurgeable
    <3> DEFINE id == unconfirmed[cur["backfill"].nonce]
    <3>1. /\ pc["backfill"] = "purge"
          /\ \/ Return("backfill")
             \/ /\ id # NoTx /\ cur' = cur
                /\ tx' = [tx EXCEPT ![id].isPurgeable = TRUE]
                /\ pc' = [pc EXCEPT !["backfill"] = "create"]
      BY <2>4 DEF MarkUnconfirmedTransactionPurgeable, Goto
    <3>2. CASE /\ id # NoTx /\ cur' = cur
               /\ tx' = [tx EXCEPT ![id].isPurgeable = TRUE]
               /\ pc' = [pc EXCEPT !["backfill"] = "create"]
      <4>1. pc'["backfill"] = "create" /\ Agrees("broadcast")
        BY <2>a, <3>2
      <4>2. id = cur["backfill"].id /\ id \in Ids
        BY <1>0, <1>2, <3>1, <3>2 DEF CopiesTrue, latestNonce, Busy
      <4> HIDE DEF id
      <4>3. tx'[id].isPurgeable = TRUE
        BY <1>0, <3>2, <4>2 DEF Record
      <4> QED
        BY <1>4, <3>2, <4>1, <4>2, <4>3
    <3> QED
      BY <2>c, <3>1, <3>2
  <2>5. CASE CreateEmptyUnconfirmedTransaction
    <3>1. /\ pc["backfill"] = "gap"
          /\ \/ Return("backfill")
             \/ /\ cur' = [cur EXCEPT !["backfill"].id = txIDCount]
                /\ pc' = [pc EXCEPT !["backfill"] = "create"]
      BY <2>5 DEF CreateEmptyUnconfirmedTransaction, Goto
    <3>2. CASE /\ cur' = [cur EXCEPT !["backfill"].id = txIDCount]
               /\ pc' = [pc EXCEPT !["backfill"] = "create"]
      <4>1. /\ cur'["backfill"].isPurgeable = cur["backfill"].isPurgeable
            /\ cur'["broadcast"] = cur["broadcast"]
        BY <1>0, <3>2 DEF Copy
      <4>2. pc'["backfill"] = "create" /\ Agrees("broadcast")
        BY <2>a, <3>2, <4>1
      <4> QED
        BY <1>4, <3>1, <4>1, <4>2 DEF CopiesTrue
    <3> QED
      BY <2>c, <3>1, <3>2
  <2> QED
    BY <1>0, <1>7, <1>10, <2>1, <2>2, <2>3, <2>4, <2>5 DEF BackfillTransactions
<1> QED
  BY <1>8, <1>9, <1>10 DEF Next

(* What went wrong is counted and never forgotten. *)
LEMMA TroublesStay ==
    ASSUME TypeInv, [Next]_vars
    PROVE  /\ used'.abandons = 0 => used.abandons = 0
           /\ used'.reorgs = 0 => used.reorgs = 0 /\ ~Reorg
           /\ AbandonPendingTransactions => used'.abandons # 0
           /\ used'.drops = 0 => used.drops = 0 /\ ~DropFromMempool
<1>0. /\ used \in [faults : Nat, drops : Nat, reorgs : Nat, abandons : Nat]
  BY BoundsAssumption DEF TypeInv, TypeOK, NodeTypeOK, Budget
<1>1. ASSUME used' = used \/ Fault
      PROVE  UNCHANGED <<used.abandons, used.reorgs, used.drops>>
  BY <1>0, <1>1 DEF Fault
<1>2. ASSUME NEW th, CreateAndSendAttempt(th)
      PROVE  used' = used \/ Fault
  BY <1>2 DEF CreateAndSendAttempt, CreateAttempt, SendTransaction, RecheckPendingNonce,
              UpdateTransactionBroadcast, nodeVars
<1>3. CASE BroadcastTransaction
  <2>1. used' = used \/ Fault
    BY <1>2, <1>3 DEF BroadcastTransaction, InitializeNonce, CheckInFlight, CheckPendingNonce,
         UpdateUnstartedTransactionWithNonce, SetNonce, nodeVars
  <2>2. ~Reorg /\ ~DropFromMempool /\ ~AbandonPendingTransactions
    BY <1>0, <1>1, <2>1 DEF Reorg, DropFromMempool, AbandonPendingTransactions
  <2> QED
    BY <1>1, <2>1, <2>2
<1>4. CASE BackfillTransactions
  <2>1. used' = used \/ Fault
    BY <1>2, <1>4 DEF BackfillTransactions, NonceAt, MarkConfirmedAndReorgedTransactions,
         FetchUnconfirmedTransaction, MarkUnconfirmedTransactionPurgeable,
         CreateEmptyUnconfirmedTransaction, nodeVars
  <2>2. ~Reorg /\ ~DropFromMempool /\ ~AbandonPendingTransactions
    BY <1>0, <1>1, <2>1 DEF Reorg, DropFromMempool, AbandonPendingTransactions
  <2> QED
    BY <1>1, <2>1, <2>2
<1>5. CASE CreateTransaction \/ Mine \/ NextBlock \/ UNCHANGED vars
  <2>1. used' = used
    BY <1>5 DEF CreateTransaction, Mine, NextBlock, nodeVars, vars
  <2>2. ~Reorg /\ ~DropFromMempool /\ ~AbandonPendingTransactions
    BY <1>0, <2>1 DEF Reorg, DropFromMempool, AbandonPendingTransactions
  <2> QED
    BY <2>1, <2>2
<1>6. CASE AbandonPendingTransactions
  <2>1. used' = [used EXCEPT !.abandons = @ + 1]
    BY <1>6 DEF AbandonPendingTransactions
  <2> QED
    BY <1>0, <2>1 DEF Reorg, DropFromMempool
<1>7. CASE Reorg
  <2>1. used' = [used EXCEPT !.reorgs = @ + 1]
    BY <1>7 DEF Reorg
  <2> QED
    BY <1>0, <2>1 DEF AbandonPendingTransactions, DropFromMempool
<1>8. CASE DropFromMempool
  <2>1. used' = [used EXCEPT !.drops = @ + 1]
    BY <1>8 DEF DropFromMempool
  <2> QED
    BY <1>0, <2>1 DEF AbandonPendingTransactions, Reorg
<1> QED
  BY <1>3, <1>4, <1>5, <1>6, <1>7, <1>8 DEF Next, Environment

(* Without a reorg the backfill loop never looks back. *)
LEMMA MinedGrows ==
    ASSUME TypeInv, TypeInv', MinedInv, [Next]_vars, used'.reorgs = 0
    PROVE  /\ SeenMined <= SeenMined' /\ SeenMined' <= Len(chain')
           /\ SeenMined \in Nat /\ SeenMined' \in Nat
<1> DEFINE Looking == {"mark", "fetch", "gap"}
<1>0. /\ chain \in Seq(Attempt) /\ Len(chain) \in Nat /\ Len(chain') \in Nat
      /\ cur["backfill"].nonce \in Nat /\ cur'["backfill"].nonce \in Nat
      /\ cur \in [Threads -> Copy]
      /\ pc \in [Threads -> {"init", "idle", "pending", "assign", "advance", "create", "send",
                             "recheck", "update", "mark", "fetch", "purge", "gap"}]
      /\ "broadcast" \in Threads /\ "backfill" \in Threads
  <2>1. "broadcast" \in Threads /\ "backfill" \in Threads
    BY DEF Threads
  <2>2. /\ cur \in [Threads -> Copy] /\ cur' \in [Threads -> Copy]
        /\ pc \in [Threads -> {"init", "idle", "pending", "assign", "advance", "create", "send",
                               "recheck", "update", "mark", "fetch", "purge", "gap"}]
    BY DEF TypeInv, TypeOK, LoopTypeOK
  <2>3. cur["backfill"].nonce \in Nat /\ cur'["backfill"].nonce \in Nat
    BY <2>1, <2>2, BoundsAssumption DEF Copy
  <2>4. chain \in Seq(Attempt) /\ chain' \in Seq(Attempt)
    BY DEF TypeInv, TypeOK, NodeTypeOK
  <2> QED
    BY <2>1, <2>2, <2>3, <2>4
<1>1. used.reorgs = 0 /\ ~Reorg
  BY TroublesStay
<1>2. /\ SeenMined = IF pc["backfill"] \in Looking THEN cur["backfill"].nonce ELSE Len(chain)
      /\ SeenMined' = IF pc'["backfill"] \in Looking THEN cur'["backfill"].nonce ELSE Len(chain')
      /\ SeenMined <= Len(chain)
  BY <1>1 DEF MinedInv, SeenMined, latestNonce
<1>3. Len(chain) <= Len(chain')
  <2>1. ASSUME Mine PROVE Len(chain') = Len(chain) + 1
    <3>1. chain' = Append(chain, mempool[Len(chain)])
      BY <2>1 DEF Mine
    <3> QED
      BY <1>0, <3>1
  <2>2. ASSUME NEW th, SendTransaction(th) PROVE chain' = chain
    BY <2>2 DEF SendTransaction
  <2>3. ASSUME DropFromMempool PROVE chain' = chain
    BY <2>3 DEF DropFromMempool
  <2> QED
    BY <1>0, <1>1, <2>1, <2>2, <2>3, NodeSteps
<1>4. ASSUME \/ pc'["backfill"] \notin Looking
             \/ pc["backfill"] \in Looking /\ cur'["backfill"].nonce = cur["backfill"].nonce
             \/ pc["backfill"] \notin Looking /\ cur'["backfill"].nonce = Len(chain)
      PROVE  /\ SeenMined <= SeenMined' /\ SeenMined' <= Len(chain')
             /\ SeenMined \in Nat /\ SeenMined' \in Nat
  BY <1>0, <1>2, <1>3, <1>4
<1>5. ASSUME pc'["backfill"] = pc["backfill"], cur'["backfill"] = cur["backfill"]
      PROVE  \/ pc'["backfill"] \notin Looking
             \/ pc["backfill"] \in Looking /\ cur'["backfill"].nonce = cur["backfill"].nonce
  BY <1>5
<1>6. ASSUME NEW th \in Threads, CreateAndSendAttempt(th)
      PROVE  \/ pc'["backfill"] \notin Looking
             \/ pc["backfill"] \in Looking /\ cur'["backfill"].nonce = cur["backfill"].nonce
  <2>1. PICK label \in {"send", "update", "recheck", "idle"} :
            /\ pc' = [pc EXCEPT ![th] = label]
            /\ cur' = [cur EXCEPT ![th] = NoCopy] \/ cur' = cur
    BY <1>6 DEF CreateAndSendAttempt, CreateAttempt, SendTransaction, RecheckPendingNonce,
           UpdateTransactionBroadcast, Return, Goto
  <2>2. CASE th = "backfill"
    BY <1>0, <2>1, <2>2
  <2>3. CASE th # "backfill"
    BY <1>0, <1>5, <2>1, <2>3
  <2> QED
    BY <2>2, <2>3
<1>7. CASE Environment \/ UNCHANGED vars
  <2>1. UNCHANGED <<pc, cur>>
    BY <1>7 DEF Environment, CreateTransaction, AbandonPendingTransactions, Mine, Reorg,
                DropFromMempool, NextBlock, loopVars, vars
  <2> QED
    BY <1>4, <1>5, <2>1
<1>8. CASE BroadcastTransaction
  <2>1. CASE \E th \in Threads : CreateAndSendAttempt(th)
    BY <1>4, <1>6, <2>1
  <2>2. CASE ~\E th \in Threads : CreateAndSendAttempt(th)
    <3>1. /\ \E label : pc' = [pc EXCEPT !["broadcast"] = label]
          /\ cur' = cur \/ \E copy : cur' = [cur EXCEPT !["broadcast"] = copy]
      BY <1>0, <1>8, <2>2
      DEF BroadcastTransaction, InitializeNonce, CheckInFlight, CheckPendingNonce,
          UpdateUnstartedTransactionWithNonce, SetNonce, Return, Goto
    <3>2. pc'["backfill"] = pc["backfill"] /\ cur'["backfill"] = cur["backfill"]
      BY <1>0, <3>1
    <3> QED
      BY <1>4, <1>5, <3>2
  <2> QED
    BY <2>1, <2>2
<1>9. CASE BackfillTransactions
  <2>a. ASSUME NEW label, pc' = [pc EXCEPT !["backfill"] = label]
        PROVE  pc'["backfill"] = label
    BY <1>0, <2>a
  <2>1. CASE NonceAt
    <3>1. /\ pc["backfill"] = "idle" /\ cur' = [cur EXCEPT !["backfill"].nonce = Len(chain)]
      BY <2>1 DEF NonceAt
    <3>2. cur'["backfill"].nonce = Len(chain)
      BY <1>0, <3>1 DEF Copy
    <3> QED
      BY <1>4, <3>1, <3>2
  <2>2. CASE MarkConfirmedAndReorgedTransactions
    <3>1. pc["backfill"] = "mark" /\ cur' = cur
      BY <2>2 DEF MarkConfirmedAndReorgedTransactions
    <3> QED
      BY <1>4, <3>1
  <2>3. CASE FetchUnconfirmedTransaction
    <3>1. /\ pc["backfill"] = "fetch"
          /\ \/ cur' = cur
             \/ \E label \in {"idle", "purge", "create"} : pc' = [pc EXCEPT !["backfill"] = label]
      BY <2>3 DEF FetchUnconfirmedTransaction, Return, Goto
    <3> QED
      BY <1>4, <2>a, <3>1
  <2>4. CASE MarkUnconfirmedTransactionPurgeable \/ CreateEmptyUnconfirmedTransaction
    <3>1. \E label \in {"idle", "create"} : pc' = [pc EXCEPT !["backfill"] = label]
      BY <2>4 DEF MarkUnconfirmedTransactionPurgeable, CreateEmptyUnconfirmedTransaction,
                  Return, Goto
    <3> QED
      BY <1>4, <2>a, <3>1
  <2> QED
    BY <1>0, <1>4, <1>6, <1>9, <2>1, <2>2, <2>3, <2>4 DEF BackfillTransactions
<1> QED
  BY <1>7, <1>8, <1>9 DEF Next

(* A step that signs nothing new and leaves the two maps alone, but for an
   abandonment, which empties one. *)
LEMMA QuietOwners ==
    ASSUME TypeInv, TypeInv', SigningInv, OwnersInv, MinedInv, [Next]_vars,
           \A n \in Nonces, id \in Ids : Signs(n, id)' => Signs(n, id),
           UNCHANGED confirmed, UNCHANGED unconfirmed \/ used'.abandons # 0,
           transactions' \subseteq transactions \cup {txIDCount}
    PROVE  OwnersInv' /\ MinedInv'
<1>0. \A n \in Nonces, id \in Ids : Signs(n, id) => id # txIDCount
  <2>1. txIDCount \in Nat /\ \A id \in Ids : id \in Nat
    BY BoundsAssumption DEF TypeInv, TypeOK, StoreTypeOK, Ids
  <2> QED
    BY <2>1 DEF SigningInv, SignedKnown
<1>1. \A n \in Nonces, id \in Ids : HeldAt(n, id) => Signs(n, id)
  BY DEF HeldAt, Signs
<1>2. \A n \in Nonces, id \in Ids : Signs(n, id) => tx'[id].isEmpty = tx[id].isEmpty
  BY <1>0, MarksStay
<1>3. OwnersInv'
  <2> SUFFICES ASSUME used'.abandons = 0 PROVE HeldOrPruned' /\ RequestAlone'
    BY DEF OwnersInv
  <2>1. HeldOrPruned /\ RequestAlone
    BY TroublesStay DEF OwnersInv
  <2>2. \A n \in Nonces, id \in Ids : HeldAt(n, id)' <=> HeldAt(n, id)
    BY DEF HeldAt
  <2>3. HeldOrPruned'
    BY <1>0, <2>1, <2>2 DEF HeldOrPruned
  <2>4. RequestAlone'
    BY <1>1, <1>2, <2>1, <2>2 DEF RequestAlone
  <2> QED
    BY <2>3, <2>4
<1>4. MinedInv'
  <2> SUFFICES ASSUME used'.reorgs = 0 PROVE MinedInv'
    BY DEF MinedInv
  <2>1. used.reorgs = 0 /\ \A n \in Nonces : n \in Nat
    BY TroublesStay, BoundsAssumption DEF Nonces
  <2>2. /\ SeenMined <= SeenMined' /\ SeenMined' <= Len(chain')
        /\ SeenMined \in Nat /\ SeenMined' \in Nat
    BY MinedGrows
  <2>3. \A n \in Held(confirmed') : n < SeenMined'
    BY <2>1, <2>2 DEF MinedInv, Held
  <2>4. ASSUME used'.abandons = 0
        PROVE  /\ \A n \in Nonces, id \in Ids : Signs(n, id)' => HeldAt(n, id)' \/ n < SeenMined'
               /\ \A n \in Nonces, i, j \in Ids : Signs(n, i)' /\ Signs(n, j)' => i = j
    <3>1. /\ \A n \in Nonces, id \in Ids : Signs(n, id) => HeldAt(n, id) \/ n < SeenMined
          /\ \A n \in Nonces, i, j \in Ids : Signs(n, i) /\ Signs(n, j) => i = j
      BY <2>1, <2>4, TroublesStay DEF MinedInv
    <3>2. \A n \in Nonces, id \in Ids : HeldAt(n, id)' <=> HeldAt(n, id)
      BY <2>4 DEF HeldAt
    <3> QED
      BY <2>1, <2>2, <3>1, <3>2
  <2> QED
    BY <2>2, <2>3, <2>4 DEF MinedInv
<1> QED
  BY <1>3, <1>4

(* A transaction new to the nonces takes one nobody holds: the broadcast loop's one
   nobody ever signed for, or the backfill loop's gap, with an empty one. *)
LEMMA TakeOwners ==
    ASSUME TypeInv, TypeInv', SigningInv, OwnersInv, MinedInv, [Next]_vars,
           NEW n \in Nonces, NEW id \in Ids, \A m \in Nonces : ~Signs(m, id),
           \A m \in Nonces, j \in Ids : Signs(m, j)' => Signs(m, j) \/ (m = n /\ j = id),
           unconfirmed[n] = NoTx, confirmed[n] = NoTx,
           unconfirmed' = [unconfirmed EXCEPT ![n] = id], UNCHANGED confirmed,
           transactions' \subseteq transactions \cup {id},
           \A j \in Ids : Signs(n, j) => tx'[id].isEmpty,
           used.reorgs = 0 /\ used.abandons = 0 => \A j \in Ids : ~Signs(n, j)
    PROVE  OwnersInv' /\ MinedInv'
<1>0. \A m \in Nonces, j \in Ids : Signs(m, j) => j # txIDCount /\ j # id /\ j # NoTx
  <2>1. txIDCount \in Nat /\ \A j \in Ids : j \in Nat
    BY BoundsAssumption DEF TypeInv, TypeOK, StoreTypeOK, Ids
  <2> QED
    BY <2>1, NamesAssumption DEF SigningInv, SignedKnown
<1>1. \A m \in Nonces, j \in Ids : HeldAt(m, j) => Signs(m, j)
  BY DEF HeldAt, Signs
<1>2. \A m \in Nonces, j \in Ids : Signs(m, j) => tx'[j].isEmpty = tx[j].isEmpty
  BY <1>0, MarksStay
<1>3. \A m \in Nonces, j \in Ids : HeldAt(m, j)' <=> HeldAt(m, j) \/ (m = n /\ j = id)
  <2>1. unconfirmed \in [Nonces -> Ids \cup {NoTx}] /\ \A j \in Ids : j # NoTx
    BY NamesAssumption, BoundsAssumption DEF TypeInv, TypeOK, StoreTypeOK, Ids
  <2> QED
    BY <2>1 DEF HeldAt
<1>4. \A j \in Ids : ~HeldAt(n, j)
  BY NamesAssumption, BoundsAssumption DEF HeldAt, Ids
<1>5. OwnersInv'
  <2> SUFFICES ASSUME used'.abandons = 0 PROVE HeldOrPruned' /\ RequestAlone'
    BY DEF OwnersInv
  <2>1. HeldOrPruned /\ RequestAlone
    BY TroublesStay DEF OwnersInv
  <2>2. HeldOrPruned'
    BY <1>0, <1>3, <2>1 DEF HeldOrPruned
  <2>3. ASSUME NEW m \in Nonces, NEW i \in Ids, NEW j \in Ids,
               HeldAt(m, i)', ~tx'[i].isEmpty, Signs(m, j)'
        PROVE  j = i
    <3>1. CASE m = n
      BY <1>3, <1>4, <2>3, <3>1
    <3>2. CASE m # n
      BY <1>1, <1>2, <1>3, <2>1, <2>3, <3>2 DEF RequestAlone
    <3> QED
      BY <3>1, <3>2
  <2> QED
    BY <2>2, <2>3 DEF RequestAlone
<1>6. MinedInv'
  <2> SUFFICES ASSUME used'.reorgs = 0 PROVE MinedInv'
    BY DEF MinedInv
  <2>1. used.reorgs = 0 /\ \A m \in Nonces : m \in Nat
    BY TroublesStay, BoundsAssumption DEF Nonces
  <2>2. /\ SeenMined <= SeenMined' /\ SeenMined' <= Len(chain')
        /\ SeenMined \in Nat /\ SeenMined' \in Nat
    BY MinedGrows
  <2>3. \A m \in Held(confirmed') : m < SeenMined'
    BY <2>1, <2>2 DEF MinedInv, Held
  <2>4. ASSUME used'.abandons = 0
        PROVE  /\ \A m \in Nonces, j \in Ids : Signs(m, j)' => HeldAt(m, j)' \/ m < SeenMined'
               /\ \A m \in Nonces, i, j \in Ids : Signs(m, i)' /\ Signs(m, j)' => i = j
    <3>1. /\ \A m \in Nonces, j \in Ids : Signs(m, j) => HeldAt(m, j) \/ m < SeenMined
          /\ \A m \in Nonces, i, j \in Ids : Signs(m, i) /\ Signs(m, j) => i = j
          /\ \A j \in Ids : ~Signs(n, j)
      BY <2>1, <2>4, TroublesStay DEF MinedInv
    <3> QED
      BY <1>3, <2>1, <2>2, <3>1
  <2> QED
    BY <2>2, <2>3, <2>4 DEF MinedInv
<1> QED
  BY <1>5, <1>6

(* Marking moves what the store holds at a nonce, or prunes it once it is mined. *)
LEMMA MarkOwners ==
    ASSUME TypeInv, TypeInv', NonceInv, SigningInv, OwnersInv, MinedInv, [Next]_vars,
           MarkConfirmedAndReorgedTransactions
    PROVE  OwnersInv' /\ MinedInv'
<1>0. /\ tx \in [Ids -> Record]
      /\ unconfirmed \in [Nonces -> Ids \cup {NoTx}]
      /\ confirmed \in [Nonces -> Ids \cup {NoTx}]
      /\ \A id \in Ids : id # NoTx
      /\ \A n \in Nonces : n \in Nat
      /\ pc \in [Threads -> {"init", "idle", "pending", "assign", "advance", "create", "send",
                             "recheck", "update", "mark", "fetch", "purge", "gap"}]
      /\ "backfill" \in Threads
  BY BoundsAssumption, NamesAssumption
  DEF TypeInv, TypeOK, StoreTypeOK, LoopTypeOK, Ids, Nonces, Threads
<1> DEFINE mined == {n \in Held(unconfirmed) : Passed(n, latestNonce)}
           reorged == {n \in Held(confirmed) : ~Passed(n, latestNonce)}
           conf == [n \in Nonces |-> IF n \in mined THEN unconfirmed[n]
                                     ELSE IF n \in reorged THEN NoTx ELSE confirmed[n]]
           pruned == Pruned(conf)
<1>1. /\ unconfirmed' = [n \in Nonces |-> IF n \in reorged THEN confirmed[n]
                                          ELSE IF n \in mined THEN NoTx ELSE unconfirmed[n]]
      /\ confirmed' = [n \in Nonces |-> IF n \in pruned THEN NoTx ELSE conf[n]]
      /\ transactions' = transactions \ {conf[n] : n \in pruned}
      /\ pc["backfill"] = "mark" /\ pc' = [pc EXCEPT !["backfill"] = "fetch"]
      /\ UNCHANGED <<cur, sent, used, chain>>
  BY DEF MarkConfirmedAndReorgedTransactions, Goto, nodeVars
<1>2. /\ pruned \subseteq Held(conf)
      /\ \A n \in mined : n \in Nonces /\ unconfirmed[n] # NoTx /\ confirmed[n] = NoTx
                          /\ n < latestNonce
      /\ \A n \in reorged : n \in Nonces /\ confirmed[n] # NoTx /\ unconfirmed[n] = NoTx
      /\ \A n \in Held(conf) : n \in Nonces /\ conf[n] # NoTx
      /\ \A n \in Nonces : confirmed[n] # NoTx => n < latestNonce \/ n \in reorged
  <2>1. pruned \subseteq Held(conf)
    BY DEF Pruned
  <2> QED
    BY <2>1 DEF NonceInv, Held, Passed
<1>3. \A n \in Nonces : conf[n] = IF n \in mined THEN unconfirmed[n]
                                  ELSE IF n \in reorged THEN NoTx ELSE confirmed[n]
  OBVIOUS
<1>4. \A n \in pruned : conf[n] \notin transactions'
  <2>1. \A n \in pruned : conf[n] \in {conf[m] : m \in pruned}
    OBVIOUS
  <2> HIDE DEF conf, pruned
  <2> QED
    BY <1>1, <2>1
<1> HIDE DEF mined, reorged, conf, pruned
<1>5. \A n \in Nonces, id \in Ids :
         HeldAt(n, id) => HeldAt(n, id)' \/ (id \notin transactions' /\ n < latestNonce)
  <2> SUFFICES ASSUME NEW n \in Nonces, NEW id \in Ids, HeldAt(n, id)
               PROVE  HeldAt(n, id)' \/ (id \notin transactions' /\ n < latestNonce)
    OBVIOUS
  <2>1. CASE unconfirmed[n] = id
    <3>1. n \notin reorged
      BY <1>0, <1>2, <2>1
    <3>2. CASE n \in mined
      <4>1. conf[n] = id /\ n < latestNonce
        BY <1>2, <1>3, <2>1, <3>2
      <4> QED
        BY <1>1, <1>4, <4>1 DEF HeldAt
    <3>3. CASE n \notin mined
      BY <1>1, <2>1, <3>1, <3>3 DEF HeldAt
    <3> QED
      BY <3>2, <3>3
  <2>2. CASE confirmed[n] = id
    <3>1. n \notin mined
      BY <1>0, <1>2, <2>2
    <3>2. CASE n \in reorged
      BY <1>1, <2>2, <3>2 DEF HeldAt
    <3>3. CASE n \notin reorged
      <4>1. conf[n] = id /\ n < latestNonce
        BY <1>0, <1>2, <1>3, <2>2, <3>1, <3>3
      <4> QED
        BY <1>1, <1>4, <4>1 DEF HeldAt
    <3> QED
      BY <3>2, <3>3
  <2> QED
    BY <2>1, <2>2 DEF HeldAt
<1>6. \A n \in Nonces, id \in Ids : HeldAt(n, id)' => HeldAt(n, id)
  BY <1>0, <1>1, <1>3 DEF HeldAt
<1>7. \A n \in Held(confirmed') : n < latestNonce
  BY <1>0, <1>1, <1>2, <1>3 DEF Held
<1>8. \A n \in Nonces, id \in Ids : Signs(n, id)' => Signs(n, id)
  <2>1. \A th \in Threads : pc'[th] \in Busy => pc[th] \in Busy
    BY <1>0, <1>1 DEF Busy
  <2>2. \A n \in Nonces, id \in Ids : HeldAt(n, id) => Signs(n, id)
    BY DEF HeldAt, Signs
  <2> QED
    BY <1>1, <1>6, <2>1, <2>2 DEF Signs, HeldAt
<1>9. \A n \in Nonces, id \in Ids : HeldAt(n, id) => tx'[id].isEmpty = tx[id].isEmpty
  <2>1. txIDCount \in Nat /\ \A id \in Ids : id \in Nat
    BY BoundsAssumption DEF TypeInv, TypeOK, StoreTypeOK, Ids
  <2>2. \A n \in Nonces, id \in Ids : HeldAt(n, id) => id # txIDCount
    <3>1. \A n \in Nonces, id \in Ids : HeldAt(n, id) => Signs(n, id)
      BY DEF HeldAt, Signs
    <3>2. \A n \in Nonces, id \in Ids : Signs(n, id) => id < txIDCount
      BY DEF SigningInv, SignedKnown
    <3> QED
      BY <2>1, <3>1, <3>2
  <2> QED
    BY <2>2, MarksStay
<1>10. SeenMined = latestNonce /\ SeenMined' = latestNonce
  <2>1. pc'["backfill"] = "fetch"
    BY <1>0, <1>1
  <2> QED
    BY <1>1, <2>1 DEF SeenMined, latestNonce
<1>11. OwnersInv'
  <2> SUFFICES ASSUME used'.abandons = 0 PROVE HeldOrPruned' /\ RequestAlone'
    BY DEF OwnersInv
  <2>1. HeldOrPruned /\ RequestAlone
    BY <1>1 DEF OwnersInv
  <2>2. HeldOrPruned'
    BY <1>1, <1>5, <1>8, <2>1 DEF HeldOrPruned
  <2>3. RequestAlone'
    BY <1>6, <1>8, <1>9, <2>1 DEF RequestAlone
  <2> QED
    BY <2>2, <2>3
<1>12. MinedInv'
  <2> SUFFICES ASSUME used'.reorgs = 0 PROVE MinedInv'
    BY DEF MinedInv
  <2>1. /\ SeenMined <= Len(chain)
        /\ used.abandons = 0 =>
             /\ \A n \in Nonces, id \in Ids : Signs(n, id) => HeldAt(n, id) \/ n < SeenMined
             /\ \A n \in Nonces, i, j \in Ids : Signs(n, i) /\ Signs(n, j) => i = j
    BY <1>1 DEF MinedInv
  <2>2. SeenMined' <= Len(chain') /\ \A n \in Held(confirmed') : n < SeenMined'
    BY <1>1, <1>7, <1>10, <2>1
  <2>3. used'.abandons = 0 =>
          /\ \A n \in Nonces, id \in Ids : Signs(n, id)' => HeldAt(n, id)' \/ n < SeenMined'
          /\ \A n \in Nonces, i, j \in Ids : Signs(n, i)' /\ Signs(n, j)' => i = j
    BY <1>1, <1>5, <1>8, <1>10, <2>1
  <2> QED
    BY <2>2, <2>3 DEF MinedInv
<1> QED
  BY <1>11, <1>12

LEMMA OwnersStep ==
    ASSUME TypeInv, TypeInv', NonceInv, SigningInv, SentBehind, OwnersInv, MinedInv, [Next]_vars
    PROVE  OwnersInv' /\ MinedInv'
<1>0. /\ unconfirmed \in [Nonces -> Ids \cup {NoTx}]
      /\ "broadcast" \in Threads /\ "backfill" \in Threads
      /\ \A th \in Threads : th = "broadcast" \/ th = "backfill"
      /\ \A id \in Ids : id # NoTx
      /\ pc \in [Threads -> {"init", "idle", "pending", "assign", "advance", "create", "send",
                             "recheck", "update", "mark", "fetch", "purge", "gap"}]
      /\ cur \in [Threads -> Copy]
  BY BoundsAssumption, NamesAssumption
  DEF TypeInv, TypeOK, StoreTypeOK, LoopTypeOK, Threads, Ids
<1>1. ASSUME NEW th \in Threads, UNCHANGED <<unconfirmed, confirmed, transactions>>,
             NEW label, pc' = [pc EXCEPT ![th] = label],
             cur' = cur \/ \E copy : cur' = [cur EXCEPT ![th] = copy],
             label \in Busy => pc[th] \in Busy /\ cur' = cur,
             sent' = sent \/ (pc[th] \in Busy /\ sent' = sent \cup {<<cur[th].nonce, cur[th].id>>})
      PROVE  OwnersInv' /\ MinedInv'
  <2>1. /\ pc'[th] = label
        /\ \A other \in Threads : other # th => pc'[other] = pc[other] /\ cur'[other] = cur[other]
    BY <1>0, <1>1
  <2>2. pc'[th] \in Busy => pc[th] \in Busy /\ cur'[th] = cur[th]
    BY <1>1, <2>1
  <2>3. \A n \in Nonces, id \in Ids : Signs(n, id)' => Signs(n, id)
    BY <1>1, <2>1, <2>2, GoroutineSignsNothingNew
  <2> QED
    BY <1>1, <2>3, QuietOwners
<1>2. ASSUME NEW th \in Threads, CreateAndSendAttempt(th)
      PROVE  OwnersInv' /\ MinedInv'
  <2>1. PICK label \in {"send", "update", "recheck", "idle"} :
            /\ pc' = [pc EXCEPT ![th] = label]
            /\ (label = "idle" /\ cur' = [cur EXCEPT ![th] = NoCopy]) \/ cur' = cur
    BY <1>2 DEF CreateAndSendAttempt, CreateAttempt, SendTransaction, RecheckPendingNonce,
           UpdateTransactionBroadcast, Return, Goto
  <2>2. /\ pc[th] \in Busy /\ UNCHANGED <<unconfirmed, confirmed, transactions>>
        /\ sent' = sent \/ sent' = sent \cup {<<cur[th].nonce, cur[th].id>>}
    BY <1>2 DEF CreateAndSendAttempt, CreateAttempt, SendTransaction, RecheckPendingNonce,
           UpdateTransactionBroadcast, storeVars, nodeVars, Busy
  <2>3. label \in Busy => pc[th] \in Busy /\ cur' = cur
    BY <2>1, <2>2 DEF Busy
  <2>4. cur' = cur \/ \E copy : cur' = [cur EXCEPT ![th] = copy]
    BY <2>1
  <2>5. sent' = sent \/ (pc[th] \in Busy /\ sent' = sent \cup {<<cur[th].nonce, cur[th].id>>})
    BY <2>2
  <2> QED
    BY <1>1, <2>1, <2>2, <2>3, <2>4, <2>5
<1>3. ASSUME NEW th \in Threads, Return(th), UNCHANGED <<unconfirmed, confirmed, transactions, sent>>
      PROVE  OwnersInv' /\ MinedInv'
  <2>1. pc' = [pc EXCEPT ![th] = "idle"] /\ \E copy : cur' = [cur EXCEPT ![th] = copy]
    BY <1>3 DEF Return, Goto
  <2>2. "idle" \notin Busy
    BY DEF Busy
  <2> QED
    BY <1>1, <1>3, <2>1, <2>2
<1>4. CASE Environment \/ UNCHANGED vars
  <2>1. UNCHANGED <<pc, cur, confirmed, sent>>
    BY <1>4 DEF Environment, CreateTransaction, AbandonPendingTransactions, Mine, Reorg,
                DropFromMempool, NextBlock, loopVars, storeVars, nodeVars, vars
  <2>2. \/ UNCHANGED unconfirmed
        \/ AbandonPendingTransactions /\ unconfirmed' = [n \in Nonces |-> NoTx]
    BY <1>4 DEF Environment, CreateTransaction, AbandonPendingTransactions, Cleared, Mine, Reorg,
                DropFromMempool, NextBlock, storeVars, vars
  <2>3. transactions' \subseteq transactions \cup {txIDCount}
    BY <1>4 DEF Environment, CreateTransaction, AbandonPendingTransactions, Mine, Reorg,
                DropFromMempool, NextBlock, storeVars, vars
  <2>4. \A n \in Nonces, id \in Ids : Signs(n, id)' => Signs(n, id)
    BY <1>0, <2>1, <2>2 DEF Signs
  <2>5. UNCHANGED unconfirmed \/ used'.abandons # 0
    BY <2>2, TroublesStay
  <2> QED
    BY <2>1, <2>3, <2>4, <2>5, QuietOwners
<1>5. CASE BroadcastTransaction
  <2>1. CASE InitializeNonce \/ CheckInFlight \/ CheckPendingNonce \/ SetNonce
    <3>1. UNCHANGED <<unconfirmed, confirmed, transactions, sent, cur>>
      BY <2>1 DEF InitializeNonce, CheckInFlight, CheckPendingNonce, SetNonce, storeVars, nodeVars
    <3>2. PICK label \in {"idle", "pending", "assign", "create"} :
              /\ pc' = [pc EXCEPT !["broadcast"] = label]
              /\ label = "create" => pc["broadcast"] = "advance"
      BY <2>1 DEF InitializeNonce, CheckInFlight, CheckPendingNonce, SetNonce, Goto
    <3>3. label \in Busy => pc["broadcast"] \in Busy
      BY <3>2 DEF Busy
    <3> QED
      BY <1>0, <1>1, <3>1, <3>2, <3>3
  <2>2. CASE UpdateUnstartedTransactionWithNonce
    <3>1. UNCHANGED <<confirmed, transactions, sent, used>> /\ pc["broadcast"] = "assign"
      BY <2>2 DEF UpdateUnstartedTransactionWithNonce, nodeVars
    <3>2. CASE UNCHANGED unconfirmed /\ Return("broadcast")
      BY <1>0, <1>3, <3>1, <3>2
    <3>3. CASE ~(UNCHANGED unconfirmed /\ Return("broadcast"))
      <4> DEFINE id == Head(unstarted)
                 copy == [id |-> id, nonce |-> nonceMap, isPurgeable |-> tx[id].isPurgeable]
      <4>1. /\ unstarted # <<>> /\ nonceMap \in Nonces /\ unconfirmed[nonceMap] = NoTx
            /\ unconfirmed' = [unconfirmed EXCEPT ![nonceMap] = id]
            /\ cur' = [cur EXCEPT !["broadcast"] = copy]
            /\ pc' = [pc EXCEPT !["broadcast"] = "advance"]
        BY <2>2, <3>3 DEF UpdateUnstartedTransactionWithNonce, Goto
      <4>2. id \in Ids /\ \A m \in Nonces : ~Signs(m, id)
        <5>1. unstarted \in Seq(Ids)
          BY DEF TypeInv, TypeOK, StoreTypeOK
        <5>2. Len(unstarted) \in Nat \ {0} /\ id = unstarted[1] /\ id \in Ids /\ 1 \in 1..Len(unstarted)
          BY <4>1, <5>1
        <5> QED
          BY <5>2 DEF SigningInv, QueueFresh
      <4>3. /\ \A other \in Threads : other # "broadcast" =>
                  pc'[other] = pc[other] /\ cur'[other] = cur[other]
            /\ cur'["broadcast"] = copy
        BY <1>0, <4>1
      <4>4. cur'["broadcast"].nonce = nonceMap /\ cur'["broadcast"].id = id
        BY <4>3
      <4> HIDE DEF id, copy
      <4>5. \A m \in Nonces, j \in Ids : Signs(m, j)' => Signs(m, j) \/ (m = nonceMap /\ j = id)
        BY <1>0, <3>1, <4>1, <4>2, <4>3, <4>4 DEF Signs
      <4>6. Frontier = nonceMap /\ nonceMap \in Nat
        BY <3>1, FrontierNat DEF Frontier
      <4>7. \A j \in Ids : ~Signs(nonceMap, j)
        <5>1. ~(nonceMap < nonceMap)
          BY <4>6
        <5>2. \A j \in Ids : <<nonceMap, j>> \notin sent
          BY <4>1, <4>6, <5>1 DEF SentBehind
        <5>3. \A j \in Ids : unconfirmed[nonceMap] # j /\ confirmed[nonceMap] # j
          BY <1>0, <4>1, <4>6, <5>1 DEF NonceInv, BehindFrontier, Held
        <5>4. \A th \in Threads : pc[th] \in Busy => cur[th].nonce # nonceMap
          BY <4>6, <5>1 DEF NonceInv, BehindFrontier
        <5> QED
          BY <5>2, <5>3, <5>4 DEF Signs
      <4>8. confirmed[nonceMap] = NoTx
        BY <4>1, <4>6 DEF NonceInv, BehindFrontier, Held
      <4> QED
        BY <3>1, <4>1, <4>2, <4>5, <4>7, <4>8, TakeOwners
    <3> QED
      BY <3>2, <3>3
  <2> QED
    BY <1>0, <1>2, <1>5, <2>1, <2>2 DEF BroadcastTransaction
<1>6. CASE BackfillTransactions
  <2>1. CASE NonceAt
    <3>1. /\ UNCHANGED <<unconfirmed, confirmed, transactions, sent>>
          /\ pc' = [pc EXCEPT !["backfill"] = "mark"]
          /\ cur' = [cur EXCEPT !["backfill"].nonce = Len(chain)]
      BY <2>1 DEF NonceAt, Goto, storeVars, nodeVars
    <3>2. cur' = [cur EXCEPT !["backfill"] = [cur["backfill"] EXCEPT !.nonce = Len(chain)]]
      BY <1>0, <3>1
    <3>3. \E copy : cur' = [cur EXCEPT !["backfill"] = copy]
      BY <3>2
    <3>4. "mark" \notin Busy
      BY DEF Busy
    <3> QED
      BY <1>0, <1>1, <3>1, <3>3, <3>4
  <2>2. CASE MarkConfirmedAndReorgedTransactions
    BY <2>2, MarkOwners
  <2>3. CASE FetchUnconfirmedTransaction
    <3> DEFINE id == IF latestNonce \in Nonces THEN unconfirmed[latestNonce] ELSE NoTx
    <3>1. UNCHANGED <<unconfirmed, confirmed, transactions, sent>>
      BY <2>3 DEF FetchUnconfirmedTransaction, storeVars, nodeVars
    <3>2. \/ Return("backfill")
          \/ Goto("backfill", "gap") /\ UNCHANGED cur
          \/ /\ id # NoTx
             /\ \E purge, label : /\ cur' = [cur EXCEPT !["backfill"] =
                                       [id |-> id, nonce |-> latestNonce, isPurgeable |-> purge]]
                                  /\ pc' = [pc EXCEPT !["backfill"] = label]
      BY <2>3 DEF FetchUnconfirmedTransaction, Goto
    <3>3. CASE Return("backfill")
      BY <1>0, <1>3, <3>1, <3>3
    <3>4. CASE Goto("backfill", "gap") /\ UNCHANGED cur
      <4>1. "gap" \notin Busy
        BY DEF Busy
      <4> QED
        BY <1>0, <1>1, <3>1, <3>4, <4>1 DEF Goto
    <3>5. CASE /\ id # NoTx
               /\ \E purge, label : /\ cur' = [cur EXCEPT !["backfill"] =
                                         [id |-> id, nonce |-> latestNonce, isPurgeable |-> purge]]
                                    /\ pc' = [pc EXCEPT !["backfill"] = label]
      <4>1. /\ cur'["backfill"].id = id /\ cur'["backfill"].nonce = latestNonce
            /\ \A other \in Threads : other # "backfill" =>
                  pc'[other] = pc[other] /\ cur'[other] = cur[other]
        BY <1>0, <3>5
      <4>2. latestNonce \in Nonces /\ unconfirmed[latestNonce] = id
        BY <3>5
      <4> HIDE DEF id
      <4>3. \A n \in Nonces, j \in Ids : Signs(n, j)' => Signs(n, j)
        BY <1>0, <3>1, <4>1, <4>2 DEF Signs
      <4> QED
        BY <3>1, <4>3, QuietOwners
    <3> QED
      BY <3>2, <3>3, <3>4, <3>5
  <2>4. CASE MarkUnconfirmedTransactionPurgeable
    <3>1. /\ UNCHANGED <<unconfirmed, confirmed, transactions, sent>> /\ pc["backfill"] = "purge"
          /\ \/ Return("backfill")
             \/ pc' = [pc EXCEPT !["backfill"] = "create"] /\ cur' = cur
      BY <2>4 DEF MarkUnconfirmedTransactionPurgeable, nodeVars, Goto
    <3>2. "purge" \in Busy
      BY DEF Busy
    <3> QED
      BY <1>0, <1>1, <1>3, <3>1, <3>2
  <2>5. CASE CreateEmptyUnconfirmedTransaction
    <3>1. UNCHANGED <<confirmed, sent, used>> /\ pc["backfill"] = "gap"
      BY <2>5 DEF CreateEmptyUnconfirmedTransaction, nodeVars
    <3>2. CASE Return("backfill") /\ UNCHANGED <<unconfirmed, transactions>>
      BY <1>0, <1>3, <3>1, <3>2
    <3>3. CASE ~(Return("backfill") /\ UNCHANGED <<unconfirmed, transactions>>)
      <4>1. /\ latestNonce \in Nonces /\ txIDCount < MaxIds
            /\ unconfirmed[latestNonce] = NoTx /\ confirmed[latestNonce] = NoTx
            /\ unconfirmed' = [unconfirmed EXCEPT ![latestNonce] = txIDCount]
            /\ transactions' = transactions \cup {txIDCount}
            /\ tx' = [tx EXCEPT ![txIDCount].state = "unconfirmed", ![txIDCount].isEmpty = TRUE]
            /\ cur' = [cur EXCEPT !["backfill"].id = txIDCount]
            /\ pc' = [pc EXCEPT !["backfill"] = "create"]
        BY <2>5, <3>3 DEF CreateEmptyUnconfirmedTransaction, Goto
      <4>2. txIDCount \in Ids /\ txIDCount \in Nat
        BY <4>1, BoundsAssumption DEF TypeInv, TypeOK, StoreTypeOK, Ids
      <4>3. \A m \in Nonces : ~Signs(m, txIDCount)
        BY <4>2 DEF SigningInv, SignedKnown
      <4>4. /\ cur'["backfill"].nonce = latestNonce /\ cur'["backfill"].id = txIDCount
            /\ \A other \in Threads : other # "backfill" =>
                  pc'[other] = pc[other] /\ cur'[other] = cur[other]
        BY <1>0, <4>1 DEF Copy, latestNonce
      <4>5. \A m \in Nonces, j \in Ids :
               Signs(m, j)' => Signs(m, j) \/ (m = latestNonce /\ j = txIDCount)
        BY <1>0, <3>1, <4>1, <4>4 DEF Signs
      <4>6. tx'[txIDCount].isEmpty = TRUE
        <5>1. tx \in [Ids -> Record]
          BY DEF TypeInv, TypeOK, StoreTypeOK
        <5> QED
          BY <4>1, <4>2, <5>1 DEF Record
      <4>7. used.reorgs = 0 /\ used.abandons = 0 => \A j \in Ids : ~Signs(latestNonce, j)
        <5> SUFFICES ASSUME used.reorgs = 0, used.abandons = 0, NEW j \in Ids
                     PROVE  ~Signs(latestNonce, j)
          OBVIOUS
        <5>1. SeenMined = latestNonce /\ latestNonce \in Nat
          BY <3>1, <4>1, BoundsAssumption DEF SeenMined, Nonces
        <5>2. Signs(latestNonce, j) => HeldAt(latestNonce, j) \/ latestNonce < SeenMined
          BY <4>1 DEF MinedInv
        <5>3. ~HeldAt(latestNonce, j)
          BY <1>0, <4>1 DEF HeldAt
        <5> QED
          BY <5>1, <5>2, <5>3
      <4> QED
        BY <3>1, <4>1, <4>2, <4>3, <4>5, <4>6, <4>7, TakeOwners
    <3> QED
      BY <3>2, <3>3
  <2> QED
    BY <1>0, <1>2, <1>6, <2>1, <2>2, <2>3, <2>4, <2>5 DEF BackfillTransactions
<1> QED
  BY <1>4, <1>5, <1>6 DEF Next

(* When the key is the transaction manager's alone and nothing is abandoned, what the
   store confirms at a nonce is what the chain executed there, or fills the nonce of
   one it pruned before a reorg; without a reorg, the chain has every nonce it
   confirms. *)
THEOREM ConfirmedMeansExecutedHolds ==
    ASSUME MaxForeign = 0
    PROVE  Spec => []ConfirmedMeansExecuted
<1>1. TypeInv /\ NonceInv /\ [Next]_vars => NonceInv'
  <2>1. NonceInv /\ UNCHANGED vars => NonceInv'
    BY FrameNonceInv DEF vars, storeVars, loopVars, nodeVars
  <2> QED
    BY <2>1, BroadcastNonceInv, BackfillNonceInv, EnvironmentNonceInv DEF Next
<1>2. /\ TypeInv /\ TypeInv' /\ NonceInv /\ SigningInv /\ ExecInv /\ [Next]_vars
      => ExecInv'
  BY NodeSignedStep, PayloadStep, CopiesStep, OwnersStep DEF ExecInv
<1>3. Init => NonceInv /\ ExecInv
  BY InitNonceInv, InitExecInv
<1>4. TypeInv /\ NonceInv /\ ExecInv => ConfirmedMeansExecuted
  <2> SUFFICES ASSUME TypeInv, NonceInv, ExecInv, NEW n \in Held(confirmed)
               PROVE  /\ used.reorgs = 0 => n < Len(chain)
                      /\ n < Len(chain) /\ used.abandons = 0 => ExecutedAt(n) \/ FillsPrunedAt(n)
    BY DEF ConfirmedMeansExecuted
  <2> DEFINE id == confirmed[n]
             executed == chain[n + 1].id
  <2>0. /\ n \in Nonces /\ n \in Nat /\ id \in Ids /\ unconfirmed[n] = NoTx
        /\ chain \in Seq(Attempt) /\ Len(chain) \in Nat /\ sent \subseteq Nonces \X Ids
        /\ \A j \in Ids : j # NoTx
        /\ used.reorgs \in Nat
    <3>1. n \in Nonces /\ n \in Nat /\ id \in Ids /\ unconfirmed[n] = NoTx
      BY BoundsAssumption DEF NonceInv, TypeInv, TypeOK, StoreTypeOK, Held, Nonces
    <3>2. chain \in Seq(Attempt) /\ Len(chain) \in Nat /\ sent \subseteq Nonces \X Ids
      BY DEF TypeInv, TypeOK, NodeTypeOK
    <3>3. \A j \in Ids : j # NoTx
      BY NamesAssumption, BoundsAssumption DEF Ids
    <3>4. used.reorgs \in Nat
      BY BoundsAssumption DEF TypeInv, TypeOK, NodeTypeOK, Budget
    <3> QED
      BY <3>1, <3>2, <3>3, <3>4
  <2>1. used.reorgs = 0 => n < Len(chain)
    <3> SUFFICES ASSUME used.reorgs = 0 PROVE n < Len(chain)
      OBVIOUS
    <3>1. SeenMined <= Len(chain) /\ n < SeenMined
      BY DEF ExecInv, MinedInv
    <3>2. SeenMined \in Nat
      <4>1. cur["backfill"] \in Copy
        BY DEF TypeInv, TypeOK, LoopTypeOK, Threads
      <4>2. cur["backfill"].nonce \in Nat
        BY <4>1, BoundsAssumption DEF Copy
      <4> QED
        BY <2>0, <4>2 DEF SeenMined, latestNonce
    <3> QED
      BY <2>0, <3>1, <3>2
  <2>2. ASSUME n < Len(chain), used.abandons = 0
        PROVE  ExecutedAt(n) \/ FillsPrunedAt(n)
    <3>1. n + 1 \in 1..Len(chain) /\ (n + 1) - 1 = n
      BY <2>0, <2>2
    <3>2. <<n, executed>> \in sent
      BY <3>1 DEF ExecInv, NodeSigned
    <3>3. executed \in Ids /\ Signs(n, executed)
      BY <2>0, <3>2 DEF Signs
    <3>4. chain[n + 1].isEmpty => Emptied(executed)
      BY <3>1 DEF ExecInv, PayloadInv
    <3>5. CASE executed = id
      BY <3>4, <3>5 DEF ExecutedAt, Emptied
    <3>6. CASE executed # id
      <4>1. executed \notin transactions
        BY <2>0, <2>2, <3>3, <3>6 DEF ExecInv, OwnersInv, HeldOrPruned, HeldAt
      <4>2. Signs(n, id) /\ HeldAt(n, id)
        BY DEF Signs, HeldAt
      <4>3. tx[id].isEmpty
        BY <2>0, <2>2, <3>3, <3>6, <4>2 DEF ExecInv, OwnersInv, RequestAlone
      <4>4. used.reorgs # 0
        BY <2>0, <2>2, <3>3, <3>6, <4>2 DEF ExecInv, MinedInv
      <4> QED
        BY <2>0, <4>1, <4>3, <4>4 DEF FillsPrunedAt
    <3> QED
      BY <3>5, <3>6
  <2> QED
    BY <2>1, <2>2
<1> QED
  BY <1>1, <1>2, <1>3, <1>4, SigningInvHolds, PTL DEF Spec

-----------------------------------------------------------------------------
(* While the pool keeps what it took, no reorg happens and nothing is abandoned, few
   transactions wait beyond what the pool has reached: the broadcast loop looks
   before it takes the next nonce, and the backfill loop only fills nonces the pool
   has reached. *)
Calm == used.drops = 0 /\ used.reorgs = 0 /\ used.abandons = 0

Stuck == {n \in Held(unconfirmed) : n >= PendingNonce}

FewInv ==
    Calm =>
        /\ \A n \in Nonces : PendingNonce <= n /\ n < Frontier => unconfirmed[n] # NoTx
        /\ pc["backfill"] = "gap" => latestNonce < PendingNonce
        /\ pc["broadcast"] = "assign" => Cardinality(Stuck) < MaxInFlightSubset
        /\ Cardinality(Stuck) <= MaxInFlightSubset

LEMMA PendingNonceGrows ==
    ASSUME TypeInv, TypeInv', [Next]_vars, ~Reorg, ~DropFromMempool
    PROVE  /\ PendingNonce <= PendingNonce'
           /\ PendingNonce \in Nat /\ PendingNonce' \in Nat
           /\ Len(chain) <= PendingNonce /\ Len(chain) \in Nat
<1>0. /\ chain \in Seq(Attempt) /\ Len(chain) \in Nat /\ Len(chain) <= MaxNonce + 1
      /\ mempool \in [Nonces -> Attempt \cup {NoAttempt}]
      /\ Len(chain') \in Nat /\ Len(chain') <= MaxNonce + 1
      /\ MaxNonce \in Nat /\ \A n \in Nonces : n \in Nat
  BY BoundsAssumption DEF TypeInv, TypeOK, NodeTypeOK, Nonces
<1>1. /\ Len(chain) <= Len(chain')
      /\ \A n \in Nonces : mempool[n] # NoAttempt => mempool'[n] # NoAttempt \/ n < Len(chain')
  <2>1. CASE UNCHANGED <<chain, mempool, sent>>
    BY <1>0, <2>1
  <2>2. ASSUME NEW th \in Threads, SendTransaction(th)
        PROVE  /\ Len(chain) <= Len(chain')
               /\ \A n \in Nonces : mempool[n] # NoAttempt => mempool'[n] # NoAttempt
    <3>1. /\ chain' = chain
          /\ \/ mempool' = mempool
             \/ mempool' = [mempool EXCEPT ![cur[th].nonce] = CurrentAttempt(th)]
      BY <2>2 DEF SendTransaction
    <3>2. CurrentAttempt(th) # NoAttempt
      <4>1. cur[th].id \in Ids
        BY <2>2 DEF SendTransaction, TypeInv, CopiesOK, Busy
      <4>2. CurrentAttempt(th).id # NoAttempt.id
        BY <4>1, NamesAssumption, BoundsAssumption DEF CurrentAttempt, NoAttempt, Ids
      <4> QED
        BY <4>2
    <3> QED
      BY <1>0, <3>1, <3>2
  <2>3. CASE Mine
    <3>1. /\ chain' = Append(chain, mempool[Len(chain)]) /\ Len(chain) \in Nonces
          /\ mempool' = [mempool EXCEPT ![Len(chain)] = NoAttempt]
      BY <2>3 DEF Mine
    <3>2. Len(chain') = Len(chain) + 1
      BY <1>0, <3>1
    <3> QED
      BY <1>0, <3>1, <3>2
  <2> QED
    BY <2>1, <2>2, <2>3, NodeSteps
<1>2. /\ PendingNonce \in Len(chain)..(MaxNonce + 1)
      /\ \A m \in Len(chain)..(PendingNonce - 1) : mempool[m] # NoAttempt
  <2>1. \E n \in Len(chain)..(MaxNonce + 1) :
           /\ \A m \in Len(chain)..(n - 1) : mempool[m] # NoAttempt
           /\ n \in Nonces => mempool[n] = NoAttempt
    BY <1>0, PendingExists
  <2> QED
    BY <2>1 DEF PendingNonce
<1>3. /\ PendingNonce' \in Len(chain')..(MaxNonce + 1)
      /\ PendingNonce' \in Nonces => mempool'[PendingNonce'] = NoAttempt
  <2>1. \E n \in Len(chain')..(MaxNonce + 1) :
           /\ \A m \in Len(chain')..(n - 1) : mempool'[m] # NoAttempt
           /\ n \in Nonces => mempool'[n] = NoAttempt
    BY <1>0, PendingExists
  <2> QED
    BY <2>1 DEF PendingNonce
<1>4. PendingNonce <= PendingNonce'
  <2> SUFFICES ASSUME PendingNonce' < PendingNonce PROVE FALSE
    BY <1>0, <1>2, <1>3
  <2>1. PendingNonce' \in Len(chain)..(PendingNonce - 1) /\ PendingNonce' \in Nonces
    BY <1>0, <1>1, <1>2, <1>3 DEF Nonces
  <2>2. mempool[PendingNonce'] # NoAttempt
    BY <1>2, <2>1
  <2>3. mempool'[PendingNonce'] # NoAttempt \/ PendingNonce' < Len(chain')
    BY <1>1, <2>1, <2>2
  <2> QED
    BY <1>0, <1>3, <2>1, <2>3
<1> QED
  BY <1>0, <1>2, <1>3, <1>4

LEMMA InitFewInv == Init => FewInv
<1> SUFFICES ASSUME Init PROVE FewInv
  OBVIOUS
<1>1. /\ unconfirmed = [n \in Nonces |-> NoTx] /\ nonceMap = 0
      /\ pc = [th \in Threads |-> IF th = "broadcast" THEN "init" ELSE "idle"]
  BY DEF Init
<1>2. Stuck = {}
  BY <1>1 DEF Stuck, Held
<1>3. Cardinality(Stuck) = 0
  BY <1>2, FS_EmptySet
<1>4. pc["broadcast"] = "init" /\ pc["backfill"] = "idle" /\ Frontier = 0
  BY <1>1 DEF Threads, Frontier
<1>5. \A n \in Nonces : ~(n < Frontier)
  BY <1>4, BoundsAssumption DEF Nonces
<1> QED
  BY <1>3, <1>4, <1>5, LimitsAssumption DEF FewInv

(* A step after which no more transactions wait, and the broadcast loop has not just
   looked. *)
LEMMA NoMoreStuck ==
    ASSUME TypeInv, TypeInv', FewInv, Calm, Stuck' \subseteq Stuck
    PROVE  /\ Cardinality(Stuck') <= Cardinality(Stuck)
           /\ Cardinality(Stuck) \in Nat /\ Cardinality(Stuck') \in Nat
<1>1. IsFiniteSet(Stuck)
  <2>1. IsFiniteSet(Nonces)
    BY BoundsAssumption, FS_Interval DEF Nonces
  <2>2. Stuck \subseteq Nonces
    BY DEF Stuck, Held
  <2> QED
    BY <2>1, <2>2, FS_Subset
<1>2. IsFiniteSet(Stuck')
  BY <1>1, FS_Subset
<1>3. Cardinality(Stuck') <= Cardinality(Stuck)
  BY <1>1, FS_Subset
<1> QED
  BY <1>1, <1>2, <1>3, FS_CardinalityType

LEMMA FewStep ==
    ASSUME TypeInv, TypeInv', NonceInv, NonceInv', MinedInv, FewInv, [Next]_vars
    PROVE  FewInv'
<1> SUFFICES ASSUME Calm' PROVE FewInv'
  BY DEF FewInv
<1>0. /\ unconfirmed \in [Nonces -> Ids \cup {NoTx}]
      /\ confirmed \in [Nonces -> Ids \cup {NoTx}]
      /\ "broadcast" \in Threads /\ "backfill" \in Threads
      /\ \A th \in Threads : th = "broadcast" \/ th = "backfill"
      /\ \A id \in Ids : id # NoTx
      /\ \A n \in Nonces : n \in Nat
      /\ pc \in [Threads -> {"init", "idle", "pending", "assign", "advance", "create", "send",
                             "recheck", "update", "mark", "fetch", "purge", "gap"}]
      /\ cur \in [Threads -> Copy]
      /\ Frontier \in Nat /\ nonceMap \in Nat
      /\ MaxInFlightSubset \in Nat /\ MaxInFlightSubset >= 1
  BY FrontierNat, LimitsAssumption, BoundsAssumption, NamesAssumption
  DEF TypeInv, TypeOK, StoreTypeOK, LoopTypeOK, Threads, Ids, Nonces
<1>1. /\ Calm /\ ~Reorg /\ ~DropFromMempool /\ ~AbandonPendingTransactions
      /\ used.reorgs = 0
  BY TroublesStay DEF Calm
<1>2. /\ PendingNonce <= PendingNonce'
      /\ PendingNonce \in Nat /\ PendingNonce' \in Nat
      /\ Len(chain) <= PendingNonce /\ Len(chain) \in Nat
  BY <1>1, PendingNonceGrows
<1>3. /\ \A n \in Nonces : PendingNonce <= n /\ n < Frontier => unconfirmed[n] # NoTx
      /\ pc["backfill"] = "gap" => latestNonce < PendingNonce
      /\ pc["broadcast"] = "assign" => Cardinality(Stuck) < MaxInFlightSubset
      /\ Cardinality(Stuck) <= MaxInFlightSubset
  BY <1>1 DEF FewInv
<1>4. ASSUME \A n \in Nonces :
               n >= PendingNonce => (unconfirmed'[n] = NoTx <=> unconfirmed[n] = NoTx),
             Frontier' = Frontier \/ Frontier' <= PendingNonce', Frontier' \in Nat,
             pc'["backfill"] = "gap" => latestNonce' < PendingNonce',
             pc'["broadcast"] = "assign" =>
               pc["broadcast"] = "assign" \/ Cardinality(Stuck) < MaxInFlightSubset
      PROVE  FewInv'
  <2>1. Stuck' \subseteq Stuck
    BY <1>0, <1>2, <1>4 DEF Stuck, Held
  <2>2. /\ Cardinality(Stuck') <= Cardinality(Stuck)
        /\ Cardinality(Stuck) \in Nat /\ Cardinality(Stuck') \in Nat
    BY <1>1, <2>1, NoMoreStuck
  <2>3. Cardinality(Stuck') <= MaxInFlightSubset
    BY <1>0, <1>3, <2>2
  <2>4. pc'["broadcast"] = "assign" => Cardinality(Stuck') < MaxInFlightSubset
    BY <1>0, <1>3, <1>4, <2>2
  <2>5. \A n \in Nonces : PendingNonce' <= n /\ n < Frontier' => unconfirmed'[n] # NoTx
    BY <1>0, <1>2, <1>3, <1>4
  <2> QED
    BY <1>4, <2>3, <2>4, <2>5 DEF FewInv
<1>5. ASSUME latestNonce' = latestNonce, pc["backfill"] = "gap"
      PROVE  latestNonce' < PendingNonce'
  <2>1. latestNonce \in Nat
    BY <1>0, BoundsAssumption DEF Copy, latestNonce
  <2> QED
    BY <1>2, <1>3, <1>5, <2>1
<1>6. ASSUME UNCHANGED nonceMap, pc'["broadcast"] = pc["broadcast"]
      PROVE  Frontier' = Frontier /\ Frontier' \in Nat
  BY <1>0, <1>6 DEF Frontier
<1>7. ASSUME NEW th \in Threads, UNCHANGED <<unconfirmed, nonceMap>>,
             NEW label, label \notin {"advance", "assign", "gap"},
             pc[th] # "advance", pc' = [pc EXCEPT ![th] = label],
             cur' = cur \/ \E copy : cur' = [cur EXCEPT ![th] = copy]
      PROVE  FewInv'
  <2>1. /\ pc'[th] = label
        /\ \A other \in Threads : other # th => pc'[other] = pc[other] /\ cur'[other] = cur[other]
    BY <1>0, <1>7
  <2>2. Frontier' = Frontier /\ Frontier' \in Nat
    <3>1. CASE th = "broadcast"
      BY <1>0, <1>7, <2>1, <3>1 DEF Frontier
    <3>2. CASE th # "broadcast"
      BY <1>0, <1>6, <1>7, <2>1, <3>2
    <3> QED
      BY <3>1, <3>2
  <2>3. pc'["backfill"] = "gap" => latestNonce' < PendingNonce'
    BY <1>0, <1>5, <1>7, <2>1 DEF latestNonce
  <2>4. pc'["broadcast"] = "assign" => pc["broadcast"] = "assign"
    BY <1>0, <1>7, <2>1
  <2> QED
    BY <1>4, <1>7, <2>2, <2>3, <2>4
<1>8. ASSUME NEW th \in Threads, CreateAndSendAttempt(th)
      PROVE  FewInv'
  <2>1. PICK label \in {"send", "update", "recheck", "idle"} :
            /\ pc' = [pc EXCEPT ![th] = label]
            /\ cur' = [cur EXCEPT ![th] = NoCopy] \/ cur' = cur
    BY <1>8 DEF CreateAndSendAttempt, CreateAttempt, SendTransaction, RecheckPendingNonce,
           UpdateTransactionBroadcast, Return, Goto
  <2>2. UNCHANGED <<unconfirmed, nonceMap>> /\ pc[th] # "advance"
    BY <1>8 DEF CreateAndSendAttempt, CreateAttempt, SendTransaction, RecheckPendingNonce,
           UpdateTransactionBroadcast, storeVars
  <2>3. cur' = cur \/ \E copy : cur' = [cur EXCEPT ![th] = copy]
    BY <2>1
  <2> QED
    BY <1>7, <2>1, <2>2, <2>3
<1>9. ASSUME NEW th \in Threads, Return(th), pc[th] # "advance", UNCHANGED <<unconfirmed, nonceMap>>
      PROVE  FewInv'
  <2>1. pc' = [pc EXCEPT ![th] = "idle"] /\ \E copy : cur' = [cur EXCEPT ![th] = copy]
    BY <1>9 DEF Return, Goto
  <2> QED
    BY <1>7, <1>9, <2>1
<1>10. CASE Environment \/ UNCHANGED vars
  <2>1. UNCHANGED <<pc, cur, nonceMap, unconfirmed>>
    BY <1>1, <1>10 DEF Environment, CreateTransaction, Mine,
                       NextBlock, loopVars, storeVars, vars
  <2> QED
    BY <1>4, <1>5, <1>6, <2>1 DEF latestNonce
<1>11. CASE BroadcastTransaction
  <2>a. ASSUME NEW label, pc' = [pc EXCEPT !["broadcast"] = label], cur'["backfill"] = cur["backfill"]
        PROVE  /\ pc'["broadcast"] = label
               /\ pc'["backfill"] = "gap" => latestNonce' < PendingNonce'
    BY <1>0, <1>5, <2>a DEF latestNonce
  <2>1. CASE InitializeNonce
    <3>1. /\ UNCHANGED <<unconfirmed, cur, chain, mempool>> /\ nonceMap' = PendingNonce
          /\ pc' = [pc EXCEPT !["broadcast"] = "idle"]
      BY <2>1 DEF InitializeNonce, Goto, storeVars, nodeVars
    <3>2. /\ pc'["broadcast"] = "idle" /\ pc'["backfill"] = pc["backfill"]
          /\ latestNonce' = latestNonce
      BY <1>0, <3>1 DEF latestNonce
    <3>3. Frontier' = PendingNonce
      BY <3>1, <3>2 DEF Frontier
    <3>4. pc'["backfill"] = "gap" => latestNonce' < PendingNonce'
      BY <1>5, <3>2
    <3> QED
      BY <1>2, <1>4, <3>1, <3>2, <3>3, <3>4
  <2>2. CASE CheckInFlight
    <3>1. /\ UNCHANGED <<unconfirmed, cur, nonceMap>> /\ pc["broadcast"] = "idle"
          /\ \/ pc' = [pc EXCEPT !["broadcast"] = "pending"]
             \/ /\ pc' = [pc EXCEPT !["broadcast"] = "assign"]
                /\ ~(Cardinality(Held(unconfirmed)) >= MaxInFlightSubset)
      BY <2>2 DEF CheckInFlight, Cautious, Goto, storeVars
    <3>2. CASE pc' = [pc EXCEPT !["broadcast"] = "pending"]
      BY <1>0, <1>7, <3>1, <3>2
    <3>3. CASE /\ pc' = [pc EXCEPT !["broadcast"] = "assign"]
               /\ ~(Cardinality(Held(unconfirmed)) >= MaxInFlightSubset)
      <4>1. IsFiniteSet(Held(unconfirmed)) /\ Stuck \subseteq Held(unconfirmed)
        <5>1. IsFiniteSet(Nonces)
          BY BoundsAssumption, FS_Interval DEF Nonces
        <5>2. Held(unconfirmed) \subseteq Nonces /\ Stuck \subseteq Held(unconfirmed)
          BY DEF Stuck, Held
        <5> QED
          BY <5>1, <5>2, FS_Subset
      <4>2. /\ Cardinality(Stuck) <= Cardinality(Held(unconfirmed))
            /\ Cardinality(Stuck) \in Nat /\ Cardinality(Held(unconfirmed)) \in Nat
        BY <4>1, FS_Subset, FS_CardinalityType
      <4>3. Cardinality(Stuck) < MaxInFlightSubset
        BY <1>0, <3>3, <4>2
      <4>4. Frontier' = Frontier /\ Frontier' \in Nat
        BY <1>0, <2>a, <3>1, <3>3 DEF Frontier
      <4> QED
        BY <1>4, <2>a, <3>1, <3>3, <4>3, <4>4
    <3> QED
      BY <3>1, <3>2, <3>3
  <2>3. CASE CheckPendingNonce
    <3>1. /\ UNCHANGED <<unconfirmed, cur, nonceMap>> /\ pc["broadcast"] = "pending"
          /\ \/ pc' = [pc EXCEPT !["broadcast"] = "idle"]
             \/ /\ pc' = [pc EXCEPT !["broadcast"] = "assign"]
                /\ ~(nonceMap > PendingNonce)
      BY <2>3 DEF CheckPendingNonce, Goto, storeVars
    <3>2. CASE pc' = [pc EXCEPT !["broadcast"] = "idle"]
      BY <1>0, <1>7, <3>1, <3>2
    <3>3. CASE /\ pc' = [pc EXCEPT !["broadcast"] = "assign"]
               /\ ~(nonceMap > PendingNonce)
      <4>1. Frontier = nonceMap
        BY <3>1 DEF Frontier
      <4>2. Stuck = {}
        BY <1>0, <1>2, <3>3, <4>1 DEF Stuck, NonceInv, BehindFrontier, Held
      <4>3. Cardinality(Stuck) < MaxInFlightSubset
        BY <1>0, <4>2, FS_EmptySet
      <4>4. Frontier' = Frontier /\ Frontier' \in Nat
        BY <1>0, <2>a, <3>1, <3>3 DEF Frontier
      <4> QED
        BY <1>4, <2>a, <3>1, <3>3, <4>3, <4>4
    <3> QED
      BY <3>1, <3>2, <3>3
  <2>4. CASE UpdateUnstartedTransactionWithNonce
    <3>1. /\ UNCHANGED <<nonceMap, chain, mempool>> /\ pc["broadcast"] = "assign"
      BY <2>4 DEF UpdateUnstartedTransactionWithNonce, nodeVars
    <3>2. CASE UNCHANGED unconfirmed /\ Return("broadcast")
      BY <1>0, <1>9, <3>1, <3>2
    <3>3. CASE ~(UNCHANGED unconfirmed /\ Return("broadcast"))
      <4> DEFINE id == Head(unstarted)
                 copy == [id |-> id, nonce |-> nonceMap, isPurgeable |-> tx[id].isPurgeable]
      <4>1. /\ nonceMap \in Nonces /\ unstarted # <<>>
            /\ unconfirmed' = [unconfirmed EXCEPT ![nonceMap] = id]
            /\ cur' = [cur EXCEPT !["broadcast"] = copy]
            /\ pc' = [pc EXCEPT !["broadcast"] = "advance"]
        BY <2>4, <3>3 DEF UpdateUnstartedTransactionWithNonce, Goto
      <4>2. id # NoTx
        BY <1>0, <4>1 DEF TypeInv, TypeOK, StoreTypeOK
      <4>3. cur'["backfill"] = cur["backfill"]
        BY <1>0, <4>1
      <4>4. Frontier = nonceMap /\ Frontier' = nonceMap + 1 /\ pc'["broadcast"] = "advance"
        BY <2>a, <3>1, <4>1, <4>3 DEF Frontier
      <4> HIDE DEF id, copy
      <4>5. /\ unconfirmed'[nonceMap] # NoTx
            /\ \A n \in Nonces : n # nonceMap => unconfirmed'[n] = unconfirmed[n]
        BY <1>0, <4>1, <4>2
      <4>6. Stuck' \subseteq Stuck \cup {nonceMap}
        BY <1>0, <1>2, <4>5 DEF Stuck, Held
      <4>7. IsFiniteSet(Stuck) /\ IsFiniteSet(Stuck \cup {nonceMap}) /\ IsFiniteSet(Stuck')
        <5>1. IsFiniteSet(Nonces)
          BY BoundsAssumption, FS_Interval DEF Nonces
        <5>2. Stuck \subseteq Nonces
          BY DEF Stuck, Held
        <5>3. IsFiniteSet(Stuck)
          BY <5>1, <5>2, FS_Subset
        <5>4. IsFiniteSet(Stuck \cup {nonceMap})
          BY <5>3, FS_AddElement
        <5> QED
          BY <4>6, <5>3, <5>4, FS_Subset
      <4>8. /\ Cardinality(Stuck') <= Cardinality(Stuck \cup {nonceMap})
            /\ Cardinality(Stuck \cup {nonceMap}) <= Cardinality(Stuck) + 1
            /\ Cardinality(Stuck) \in Nat /\ Cardinality(Stuck') \in Nat
        <5>1. Cardinality(Stuck') <= Cardinality(Stuck \cup {nonceMap})
          BY <4>6, <4>7, FS_Subset
        <5>2. Cardinality(Stuck) \in Nat /\ Cardinality(Stuck') \in Nat
          BY <4>7, FS_CardinalityType
        <5>3. \/ Cardinality(Stuck \cup {nonceMap}) = Cardinality(Stuck)
              \/ Cardinality(Stuck \cup {nonceMap}) = Cardinality(Stuck) + 1
          BY <4>7, FS_AddElement
        <5> QED
          BY <5>1, <5>2, <5>3
      <4>9. Cardinality(Stuck') <= MaxInFlightSubset
        <5>1. Cardinality(Stuck \cup {nonceMap}) \in Nat
          BY <4>7, FS_CardinalityType
        <5> QED
          BY <1>0, <1>3, <3>1, <4>8, <5>1
      <4>10. \A n \in Nonces : PendingNonce' <= n /\ n < Frontier' => unconfirmed'[n] # NoTx
        BY <1>0, <1>2, <1>3, <4>4, <4>5
      <4>11. pc'["backfill"] = "gap" => latestNonce' < PendingNonce'
        BY <2>a, <4>1, <4>3
      <4> QED
        BY <4>4, <4>9, <4>10, <4>11 DEF FewInv
    <3> QED
      BY <3>2, <3>3
  <2>5. CASE SetNonce
    <3>1. /\ UNCHANGED <<unconfirmed, cur>> /\ pc["broadcast"] = "advance"
          /\ nonceMap' = cur["broadcast"].nonce + 1
          /\ pc' = [pc EXCEPT !["broadcast"] = "create"]
      BY <2>5 DEF SetNonce, NextNonce, Goto, storeVars
    <3>2. Frontier' = Frontier
      BY <2>a, <3>1 DEF Frontier, NonceInv
    <3> QED
      BY <1>0, <1>4, <2>a, <3>1, <3>2
  <2> QED
    BY <1>0, <1>8, <1>11, <2>1, <2>2, <2>3, <2>4, <2>5 DEF BroadcastTransaction
<1>12. CASE BackfillTransactions
  <2>a. ASSUME NEW label, pc' = [pc EXCEPT !["backfill"] = label], UNCHANGED nonceMap
        PROVE  /\ pc'["backfill"] = label
               /\ Frontier' = Frontier /\ Frontier' \in Nat
               /\ pc'["broadcast"] = "assign" => pc["broadcast"] = "assign"
    BY <1>0, <1>6, <2>a
  <2>1. CASE NonceAt
    <3>1. /\ UNCHANGED <<unconfirmed, nonceMap>> /\ pc' = [pc EXCEPT !["backfill"] = "mark"]
      BY <2>1 DEF NonceAt, Goto, storeVars
    <3> QED
      BY <1>4, <2>a, <3>1
  <2>2. CASE MarkConfirmedAndReorgedTransactions
    <3>1. /\ UNCHANGED nonceMap /\ pc["backfill"] = "mark"
          /\ pc' = [pc EXCEPT !["backfill"] = "fetch"]
      BY <2>2 DEF MarkConfirmedAndReorgedTransactions, Goto
    <3>2. latestNonce <= Len(chain) /\ (\A n \in Held(confirmed) : n < latestNonce)
          /\ latestNonce \in Nat
      <4>1. latestNonce \in Nat
        BY <1>0, BoundsAssumption DEF Copy, latestNonce
      <4> QED
        BY <1>1, <3>1, <4>1 DEF MinedInv, SeenMined
    <3>3. \A n \in Nonces : n >= PendingNonce => unconfirmed'[n] = unconfirmed[n]
      <4> SUFFICES ASSUME NEW n \in Nonces, n >= PendingNonce
                   PROVE  unconfirmed'[n] = unconfirmed[n]
        OBVIOUS
      <4>1. ~(n < latestNonce) /\ n \notin Held(confirmed)
        BY <1>0, <1>2, <3>2
      <4> QED
        BY <2>2, <4>1 DEF MarkConfirmedAndReorgedTransactions, Passed
    <3> QED
      BY <1>4, <2>a, <3>1, <3>3
  <2>3. CASE FetchUnconfirmedTransaction
    <3>1. UNCHANGED <<unconfirmed, nonceMap, chain, mempool>> /\ pc["backfill"] = "fetch"
      BY <2>3 DEF FetchUnconfirmedTransaction, storeVars, nodeVars
    <3>2. \/ /\ \E label \in {"idle", "purge", "create"} :
                   pc' = [pc EXCEPT !["backfill"] = label]
          \/ /\ pc' = [pc EXCEPT !["backfill"] = "gap"] /\ cur' = cur
             /\ Held(unconfirmed) # {}
             /\ (IF latestNonce \in Nonces THEN unconfirmed[latestNonce] ELSE NoTx) = NoTx
      BY <2>3 DEF FetchUnconfirmedTransaction, Return, Goto, AllConfirmed
    <3>3. ASSUME NEW label \in {"idle", "purge", "create"}, pc' = [pc EXCEPT !["backfill"] = label]
          PROVE  FewInv'
      BY <1>4, <2>a, <3>1, <3>3
    <3>4. CASE /\ pc' = [pc EXCEPT !["backfill"] = "gap"] /\ cur' = cur
               /\ Held(unconfirmed) # {}
               /\ (IF latestNonce \in Nonces THEN unconfirmed[latestNonce] ELSE NoTx) = NoTx
      <4>1. latestNonce' = latestNonce /\ latestNonce \in Nat
        BY <1>0, <3>4, BoundsAssumption DEF Copy, latestNonce
      <4>2. PICK n \in Held(unconfirmed) : latestNonce <= n /\ n < Frontier
        BY <3>1, <3>4 DEF NonceInv, BehindFrontier
      <4>3. latestNonce \in Nonces /\ latestNonce < Frontier
        BY <1>0, <4>1, <4>2, BoundsAssumption DEF Held, Nonces
      <4>4. latestNonce < PendingNonce
        BY <1>2, <1>3, <3>4, <4>1, <4>3
      <4>5. pc'["backfill"] = "gap" => latestNonce' < PendingNonce'
        BY <1>2, <4>1, <4>4
      <4>6. pc'["broadcast"] = pc["broadcast"]
        BY <1>0, <3>4
      <4>7. Frontier' = Frontier /\ Frontier' \in Nat
        BY <1>6, <3>1, <4>6
      <4> QED
        BY <1>4, <3>1, <4>5, <4>6, <4>7
    <3> QED
      BY <3>2, <3>3, <3>4
  <2>4. CASE MarkUnconfirmedTransactionPurgeable
    <3>1. /\ UNCHANGED <<unconfirmed, nonceMap>>
          /\ \E label \in {"idle", "create"} : pc' = [pc EXCEPT !["backfill"] = label]
      BY <2>4 DEF MarkUnconfirmedTransactionPurgeable, Return, Goto
    <3> QED
      BY <1>4, <2>a, <3>1
  <2>5. CASE CreateEmptyUnconfirmedTransaction
    <3>1. /\ UNCHANGED nonceMap /\ pc["backfill"] = "gap"
          /\ \E label \in {"idle", "create"} : pc' = [pc EXCEPT !["backfill"] = label]
          /\ \/ UNCHANGED unconfirmed
             \/ unconfirmed' = [unconfirmed EXCEPT ![latestNonce] = txIDCount]
      BY <2>5 DEF CreateEmptyUnconfirmedTransaction, Return, Goto
    <3>2. latestNonce < PendingNonce /\ latestNonce \in Nat
      BY <1>0, <1>3, <3>1, BoundsAssumption DEF Copy, latestNonce
    <3>3. \A n \in Nonces : n >= PendingNonce => unconfirmed'[n] = unconfirmed[n]
      BY <1>0, <1>2, <3>1, <3>2
    <3> QED
      BY <1>4, <2>a, <3>1, <3>3
  <2> QED
    BY <1>0, <1>8, <1>12, <2>1, <2>2, <2>3, <2>4, <2>5 DEF BackfillTransactions
<1> QED
  BY <1>10, <1>11, <1>12 DEF Next

(* "No more than maxInFlightSubset can get stuck simultaneously": for every limit, when
   the key is the transaction manager's alone. *)
THEOREM FewStuckTransactionsHolds ==
    ASSUME MaxForeign = 0
    PROVE  Spec => []FewStuckTransactions
<1>1. TypeInv /\ NonceInv /\ [Next]_vars => NonceInv'
  <2>1. NonceInv /\ UNCHANGED vars => NonceInv'
    BY FrameNonceInv DEF vars, storeVars, loopVars, nodeVars
  <2> QED
    BY <2>1, BroadcastNonceInv, BackfillNonceInv, EnvironmentNonceInv DEF Next
<1>2. /\ TypeInv /\ TypeInv' /\ NonceInv /\ SigningInv /\ ExecInv /\ [Next]_vars
      => ExecInv'
  BY NodeSignedStep, PayloadStep, CopiesStep, OwnersStep DEF ExecInv
<1>3. /\ TypeInv /\ TypeInv' /\ NonceInv /\ NonceInv' /\ ExecInv /\ FewInv /\ [Next]_vars
      => FewInv'
  BY FewStep DEF ExecInv
<1>4. Init => NonceInv /\ ExecInv /\ FewInv
  BY InitNonceInv, InitExecInv, InitFewInv
<1>5. FewInv => FewStuckTransactions
  BY DEF FewInv, FewStuckTransactions, Calm, Stuck
<1> QED
  BY <1>1, <1>2, <1>3, <1>4, <1>5, SigningInvHolds, PTL DEF Spec
=============================================================================

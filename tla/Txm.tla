--------------------------------- MODULE Txm ---------------------------------
(* The transaction manager of pkg/txm for one from-address: InMemoryStore, the
   broadcast loop and the backfill loop that share it, the time-based stuck
   transaction detector, and the chain the two loops talk to.  Addresses do not
   interact: each one has a store, a nonce, a trigger channel and two goroutines
   of its own.

   A step is one call that holds the store's lock, or one RPC, so that whatever
   the other goroutine, a caller or the chain does between two calls is an
   interleaving of this module.

   An operator marked "faulty" is a plausible mistake in the operator after it.
   Nothing uses it; the mutants of the project put it in that operator's place. *)
EXTENDS Naturals, Integers, Sequences, FiniteSets

CONSTANTS
    MaxInFlightTransactions, MaxInFlightSubset, MaxAllowedAttempts,
    MaxQueuedTransactions, PruneSubset,      \* the constants of txm.go and inmemory_store.go
    RetryBlockThreshold, StuckTxBlockThreshold,         \* configuration, in blocks
    MaxRequests, MaxIds, MaxNonce,           \* bounds: transactions callers create, all
                                             \* transactions (gap fillers too), nonces
    MaxForeign,                              \* bound: pool entries of an earlier run
    MaxFaults, MaxDrops, MaxReorgs, MaxAbandons,   \* bounds on what may go wrong,
    MaxTroubles,                             \* of each kind and altogether
    NoTx, Foreign

ASSUME LimitsAssumption ==
    /\ MaxInFlightTransactions \in Nat \ {0}
    /\ MaxInFlightSubset \in 1..MaxInFlightTransactions
    /\ MaxAllowedAttempts \in Nat \ {0}
    /\ MaxQueuedTransactions \in Nat \ {0}
    /\ PruneSubset \in Nat \ {0, 1}
    /\ RetryBlockThreshold \in Nat
    /\ StuckTxBlockThreshold \in Nat

ASSUME BoundsAssumption ==
    /\ MaxIds \in Nat /\ MaxRequests \in 0..MaxIds
    /\ MaxNonce \in Nat
    /\ MaxForeign \in 0..MaxNonce
    /\ MaxFaults \in Nat /\ MaxDrops \in Nat
    /\ MaxReorgs \in Nat /\ MaxAbandons \in Nat /\ MaxTroubles \in Nat

ASSUME NamesAssumption == NoTx \notin Nat /\ Foreign \notin Nat /\ NoTx # Foreign

VARIABLES
    \* InMemoryStore
    unstarted,       \* UnstartedTransactions: queue of ids
    unconfirmed,     \* UnconfirmedTransactions: nonce -> id
    confirmed,       \* ConfirmedTransactions: nonce -> id
    fatal,           \* FatalTransactions
    transactions,    \* Transactions: the ids the store can look up
    tx,              \* the transactions the pointers of the store lead to
    txIDCount,
    \* Txm
    nonceMap,        \* the local nonce of the address
    pc,              \* where each of the two goroutines is
    cur,             \* the nonce and the copy of the transaction each goroutine works on
    lastPurge,       \* blocks since the detector's last purge
    \* external: the chain, its pool, and how much went wrong so far
    chain, mempool, sent, used

storeVars == <<unstarted, unconfirmed, confirmed, fatal, transactions, tx, txIDCount>>
loopVars  == <<nonceMap, pc, cur, lastPurge>>
nodeVars  == <<chain, mempool, sent, used>>
vars == <<storeVars, loopVars, nodeVars>>

Ids     == 0..(MaxIds - 1)
Nonces  == 0..MaxNonce
Threads == {"broadcast", "backfill"}
States  == {"new", "unstarted", "unconfirmed", "confirmed", "fatal"}

(* LastBroadcastAt is the number of blocks since then, NeverBroadcast for nil;
   ages past both thresholds are not told apart. *)
NeverBroadcast == -1
MaxAge == (IF RetryBlockThreshold > StuckTxBlockThreshold
             THEN RetryBlockThreshold ELSE StuckTxBlockThreshold) + 1
Ages == 0..MaxAge

Record  == [state : States, isEmpty : BOOLEAN, isPurgeable : BOOLEAN,
            attemptCount : Nat, lastBroadcastAt : Ages \cup {NeverBroadcast}]
Copy    == [id : Ids \cup {NoTx}, nonce : 0..(MaxNonce + 1), isPurgeable : BOOLEAN]
Attempt == [id : Ids \cup {Foreign}, isEmpty : BOOLEAN]
NoAttempt == [id |-> NoTx, isEmpty |-> FALSE]
NoCopy    == [id |-> NoTx, nonce |-> 0, isPurgeable |-> FALSE]
Budget  == [faults : 0..MaxFaults, drops : 0..MaxDrops,
            reorgs : 0..MaxReorgs, abandons : 0..MaxAbandons]

Held(f) == {n \in Nonces : f[n] # NoTx}

(* A request is a transaction a caller created; the others are the empty
   transactions that fill nonce gaps. *)
Requests == {id \in Ids : tx[id].state # "new" /\ ~tx[id].isEmpty}

----------------------------------------------------------------------------
(* External: the pool's next nonce, as eth_getTransactionCount("pending"). *)
PendingNonce ==
    CHOOSE n \in Len(chain)..(MaxNonce + 1) :
        /\ \A m \in Len(chain)..(n - 1) : mempool[m] # NoAttempt
        /\ n \in Nonces => mempool[n] = NoAttempt

Troubles == used.faults + used.drops + used.reorgs + used.abandons

Fault == /\ used.faults < MaxFaults /\ Troubles < MaxTroubles
         /\ used' = [used EXCEPT !.faults = @ + 1]

Goto(th, label) == pc' = [pc EXCEPT ![th] = label]

(* The pass of the loop ends, with or without an error: its locals are gone. *)
Return(th) == Goto(th, "idle") /\ cur' = [cur EXCEPT ![th] = NoCopy]

----------------------------------------------------------------------------
Init ==
    /\ unstarted = <<>> /\ fatal = {} /\ transactions = {} /\ txIDCount = 0
    /\ unconfirmed = [n \in Nonces |-> NoTx]
    /\ confirmed = [n \in Nonces |-> NoTx]
    /\ tx = [id \in Ids |-> [state |-> "new", isEmpty |-> FALSE, isPurgeable |-> FALSE,
                             attemptCount |-> 0, lastBroadcastAt |-> NeverBroadcast]]
    /\ nonceMap = 0
    /\ pc = [th \in Threads |-> IF th = "broadcast" THEN "init" ELSE "idle"]
    /\ cur = [th \in Threads |-> NoCopy]
    /\ lastPurge = MaxAge
    /\ chain = <<>>
    /\ \E k \in 0..MaxForeign :
         mempool = [n \in Nonces |-> IF n < k THEN [id |-> Foreign, isEmpty |-> FALSE]
                                              ELSE NoAttempt]
    /\ sent = {}
    /\ used = [faults |-> 0, drops |-> 0, reorgs |-> 0, abandons |-> 0]

----------------------------------------------------------------------------
(* Calls of the store made on behalf of a caller. *)

CreateTransaction ==
    LET room == IF Len(unstarted) >= MaxQueuedTransactions
                  THEN Len(unstarted) - MaxQueuedTransactions + 1 ELSE 0
        dropped == {unstarted[i] : i \in 1..room}
    IN  /\ txIDCount < MaxIds /\ Cardinality(Requests) < MaxRequests
        /\ txIDCount' = txIDCount + 1
        /\ transactions' = (transactions \ dropped) \cup {txIDCount}
        /\ unstarted' = Append(SubSeq(unstarted, room + 1, Len(unstarted)), txIDCount)
        /\ tx' = [tx EXCEPT ![txIDCount].state = "unstarted"]
        /\ UNCHANGED <<unconfirmed, confirmed, fatal, loopVars, nodeVars>>

KeepUnconfirmed(map) == map                                   \* faulty
NeverMade(map) == <<>>                                        \* faulty
Cleared(map) == [n \in Nonces |-> NoTx]

AbandonPendingTransactions ==
    LET queued  == {unstarted[i] : i \in 1..Len(unstarted)}
        pending == {unconfirmed[n] : n \in Held(unconfirmed)}
    IN  /\ used.abandons < MaxAbandons /\ Troubles < MaxTroubles
        /\ used' = [used EXCEPT !.abandons = @ + 1]
        /\ transactions' = transactions \ fatal
        /\ fatal' = queued \cup pending
        /\ unstarted' = <<>>
        /\ unconfirmed' = Cleared(unconfirmed)
        /\ tx' = [id \in Ids |-> IF id \in queued \cup pending
                                   THEN [tx[id] EXCEPT !.state = "fatal"] ELSE tx[id]]
        /\ UNCHANGED <<confirmed, txIDCount, loopVars, chain, mempool, sent>>

----------------------------------------------------------------------------
(* createAndSendAttempt, the part the two loops share. *)

(* NewAttempt, then AppendAttemptToTransaction: the estimator or the signer may
   fail, and the transaction may have left the store meanwhile. *)
CreateAttempt(th) ==
    LET c == cur[th] IN
    /\ pc[th] = "create"
    /\ \/ Fault /\ Return(th) /\ UNCHANGED tx              \* NewAttempt fails
       \/ /\ unconfirmed[c.nonce] # c.id                   \* gone, or another transaction
          /\ Return(th)
          /\ UNCHANGED <<tx, used>>
       \/ /\ unconfirmed[c.nonce] = c.id
          /\ tx' = [tx EXCEPT ![c.id].attemptCount = @ + 1]
          /\ Goto(th, "send")
          /\ UNCHANGED <<cur, used>>
    /\ UNCHANGED <<unstarted, unconfirmed, confirmed, fatal, transactions, txIDCount,
                   nonceMap, lastPurge, chain, mempool, sent>>

(* The attempt carries no payload once the copy is purgeable. *)
CurrentAttempt(th) ==
    [id |-> cur[th].id, isEmpty |-> cur[th].isPurgeable \/ tx[cur[th].id].isEmpty]

(* SendTransaction.  The pool may take the attempt and the answer be lost; it
   refuses a used nonce, and may refuse to replace what it holds at the nonce;
   any other refusal (funds, connection) is a fault. *)
SendTransaction(th) ==
    LET n == cur[th].nonce
        accept == /\ n >= Len(chain)
                  /\ mempool' = [mempool EXCEPT ![n] = CurrentAttempt(th)]
    IN
    /\ pc[th] = "send"
    /\ sent' = sent \cup {<<n, cur[th].id>>}
    /\ \/ accept /\ Goto(th, "update") /\ UNCHANGED used
       \/ accept /\ Fault /\ Goto(th, "recheck")
       \/ /\ n < Len(chain) \/ mempool[n] # NoAttempt
          /\ Goto(th, "recheck")
          /\ UNCHANGED <<mempool, used>>
       \/ Fault /\ Goto(th, "recheck") /\ UNCHANGED mempool
    /\ UNCHANGED <<storeVars, nonceMap, cur, lastPurge, chain>>

(* After an error: it does not matter if the pool has moved past the nonce. *)
RecheckPendingNonce(th) ==
    /\ pc[th] = "recheck"
    /\ \/ Fault /\ Return(th)
       \/ PendingNonce <= cur[th].nonce /\ Return(th) /\ UNCHANGED used
       \/ PendingNonce > cur[th].nonce /\ Goto(th, "update") /\ UNCHANGED <<cur, used>>
    /\ UNCHANGED <<storeVars, nonceMap, lastPurge, chain, mempool, sent>>

(* UpdateTransactionBroadcast stamps whatever transaction is at the nonce, and
   only then looks for the attempt. *)
UpdateTransactionBroadcast(th) ==
    LET id == unconfirmed[cur[th].nonce] IN
    /\ pc[th] = "update"
    /\ tx' = IF id = NoTx THEN tx ELSE [tx EXCEPT ![id].lastBroadcastAt = 0]
    /\ Return(th)
    /\ UNCHANGED <<unstarted, unconfirmed, confirmed, fatal, transactions, txIDCount,
                   nonceMap, lastPurge, nodeVars>>

CreateAndSendAttempt(th) ==
    \/ CreateAttempt(th)
    \/ SendTransaction(th)
    \/ RecheckPendingNonce(th)
    \/ UpdateTransactionBroadcast(th)

----------------------------------------------------------------------------
(* The broadcast loop.  "idle" is both the top of broadcastTransaction's loop
   and the wait for the trigger or the ticker. *)

InitializeNonce ==
    /\ pc["broadcast"] = "init"
    /\ nonceMap' = PendingNonce
    /\ Goto("broadcast", "idle")
    /\ UNCHANGED <<storeVars, cur, lastPurge, nodeVars>>

LimitReached(unconfirmedCount) == unconfirmedCount > MaxInFlightTransactions

LateCaution(unconfirmedCount) ==                              \* faulty
    unconfirmedCount > MaxInFlightSubset
Cautious(unconfirmedCount) == unconfirmedCount >= MaxInFlightSubset

(* At the limit the loop backs off, and looks again later. *)
CheckInFlight ==
    LET unconfirmedCount == Cardinality(Held(unconfirmed)) IN
    /\ pc["broadcast"] = "idle"
    /\ ~LimitReached(unconfirmedCount)
    /\ Goto("broadcast", IF Cautious(unconfirmedCount) THEN "pending" ELSE "assign")
    /\ UNCHANGED <<storeVars, nonceMap, cur, lastPurge, nodeVars>>

CheckPendingNonce ==
    /\ pc["broadcast"] = "pending"
    /\ \/ Fault /\ Goto("broadcast", "idle")
       \/ /\ Goto("broadcast", IF nonceMap > PendingNonce THEN "idle" ELSE "assign")
          /\ UNCHANGED used
    /\ UNCHANGED <<storeVars, nonceMap, cur, lastPurge, chain, mempool, sent>>

KeepInQueue(queue) == queue                                   \* faulty
Dequeued(queue) == Tail(queue)

UpdateUnstartedTransactionWithNonce ==
    LET id == Head(unstarted)
        assignable == unstarted # <<>> /\ nonceMap \in Nonces /\ unconfirmed[nonceMap] = NoTx
    IN
    /\ pc["broadcast"] = "assign"
    /\ \/ /\ ~assignable                            \* nothing queued, or the nonce is taken
          /\ Return("broadcast")
          /\ UNCHANGED <<unstarted, unconfirmed, tx>>
       \/ /\ assignable
          /\ unstarted' = Dequeued(unstarted)
          /\ unconfirmed' = [unconfirmed EXCEPT ![nonceMap] = id]
          /\ tx' = [tx EXCEPT ![id].state = "unconfirmed"]
          /\ cur' = [cur EXCEPT !["broadcast"] =
                       [id |-> id, nonce |-> nonceMap, isPurgeable |-> tx[id].isPurgeable]]
          /\ Goto("broadcast", "advance")
    /\ UNCHANGED <<confirmed, fatal, transactions, txIDCount,
                   nonceMap, lastPurge, nodeVars>>

SameNonce(nonce) == nonce                                     \* faulty
NextNonce(nonce) == nonce + 1

SetNonce ==
    /\ pc["broadcast"] = "advance"
    /\ nonceMap' = NextNonce(cur["broadcast"].nonce)
    /\ Goto("broadcast", "create")
    /\ UNCHANGED <<storeVars, cur, lastPurge, nodeVars>>

BroadcastTransaction ==
    \/ InitializeNonce
    \/ CheckInFlight
    \/ CheckPendingNonce
    \/ UpdateUnstartedTransactionWithNonce
    \/ SetNonce
    \/ CreateAndSendAttempt("broadcast")

----------------------------------------------------------------------------
(* The backfill loop. *)

latestNonce == cur["backfill"].nonce

NonceAt ==
    /\ pc["backfill"] = "idle"
    /\ cur' = [cur EXCEPT !["backfill"].nonce = Len(chain)]
    /\ Goto("backfill", "mark")
    /\ UNCHANGED <<storeVars, nonceMap, lastPurge, nodeVars>>

(* pruneConfirmedTransactions: the nonces below the one a PruneSubset-th of the
   confirmed transactions are below. *)
Pruned(conf) ==
    IF Cardinality(Held(conf)) <= MaxQueuedTransactions THEN {}
    ELSE LET below(m) == {n \in Held(conf) : n < m}
             minNonce == CHOOSE m \in Held(conf) :
                           Cardinality(below(m)) = Cardinality(Held(conf)) \div PruneSubset
         IN  below(minNonce)

PassedOrAt(nonce, latest) == nonce <= latest                  \* faulty
Passed(nonce, latest) == nonce < latest

OnlyForgetBroadcast(t) ==                                     \* faulty
    [t EXCEPT !.lastBroadcastAt = NeverBroadcast]
Reorged(t) == [t EXCEPT !.state = "unconfirmed", !.lastBroadcastAt = NeverBroadcast]

MarkConfirmedAndReorgedTransactions ==
    LET mined   == {n \in Held(unconfirmed) : Passed(n, latestNonce)}
        reorged == {n \in Held(confirmed) : ~Passed(n, latestNonce)}
        conf    == [n \in Nonces |-> IF n \in mined THEN unconfirmed[n]
                                     ELSE IF n \in reorged THEN NoTx ELSE confirmed[n]]
        pruned  == Pruned(conf)
        minedIds   == {unconfirmed[n] : n \in mined}
        reorgedIds == {confirmed[n] : n \in reorged}
    IN
    /\ pc["backfill"] = "mark"
    /\ unconfirmed' = [n \in Nonces |-> IF n \in reorged THEN confirmed[n]
                                        ELSE IF n \in mined THEN NoTx ELSE unconfirmed[n]]
    /\ confirmed' = [n \in Nonces |-> IF n \in pruned THEN NoTx ELSE conf[n]]
    /\ transactions' = transactions \ {conf[n] : n \in pruned}
    /\ tx' = [id \in Ids |->
                IF id \in reorgedIds THEN Reorged(tx[id])
                ELSE IF id \in minedIds THEN [tx[id] EXCEPT !.state = "confirmed"]
                ELSE tx[id]]
    /\ Goto("backfill", "fetch")
    /\ UNCHANGED <<unstarted, fatal, txIDCount, nonceMap, cur, lastPurge, nodeVars>>

IsStuck(t) ==
    /\ t.lastBroadcastAt # NeverBroadcast
    /\ t.lastBroadcastAt > StuckTxBlockThreshold
    /\ lastPurge > StuckTxBlockThreshold

NoneAtNonce == latestNonce \notin Held(unconfirmed)            \* faulty
AllConfirmed == Held(unconfirmed) = {}

OneMoreAttempt(t) == t.attemptCount <= MaxAllowedAttempts     \* faulty
AttemptsLeft(t) == t.attemptCount < MaxAllowedAttempts

OnlyIfBroadcast(t) ==                                         \* faulty
    t.lastBroadcastAt # NeverBroadcast /\ t.lastBroadcastAt > RetryBlockThreshold
RetryDue(t) ==
    t.lastBroadcastAt = NeverBroadcast \/ t.lastBroadcastAt > RetryBlockThreshold

(* FetchUnconfirmedTransactionAtNonceWithCount and the decisions taken on the
   copy it returns: an empty transaction for a gap, a purge, a rebroadcast, or
   nothing (the attempts are exhausted, or the last broadcast is recent). *)
FetchUnconfirmedTransaction ==
    LET id == IF latestNonce \in Nonces THEN unconfirmed[latestNonce] ELSE NoTx
        t  == tx[id]
        work(label, purge) ==
            /\ cur' = [cur EXCEPT !["backfill"] =
                         [id |-> id, nonce |-> latestNonce, isPurgeable |-> purge]]
            /\ Goto("backfill", label)
        detected == ~t.isPurgeable /\ IsStuck(t)
    IN
    /\ pc["backfill"] = "fetch"
    /\ \/ AllConfirmed /\ Return("backfill") /\ UNCHANGED lastPurge
       \/ /\ ~AllConfirmed /\ id = NoTx
          /\ Goto("backfill", "gap")
          /\ UNCHANGED <<cur, lastPurge>>
       \/ /\ ~AllConfirmed /\ id # NoTx /\ detected
          /\ lastPurge' = 0
          /\ work("purge", TRUE)
       \/ /\ ~AllConfirmed /\ id # NoTx /\ ~detected
          /\ AttemptsLeft(t) /\ RetryDue(t)
          /\ work("create", t.isPurgeable)
          /\ UNCHANGED lastPurge
       \/ /\ ~AllConfirmed /\ id # NoTx /\ ~detected
          /\ ~(AttemptsLeft(t) /\ RetryDue(t))
          /\ Return("backfill")
          /\ UNCHANGED lastPurge
    /\ UNCHANGED <<storeVars, nonceMap, nodeVars>>

MarkUnconfirmedTransactionPurgeable ==
    LET id == unconfirmed[cur["backfill"].nonce] IN
    /\ pc["backfill"] = "purge"
    /\ \/ id = NoTx /\ Return("backfill") /\ UNCHANGED tx
       \/ /\ id # NoTx
          /\ tx' = [tx EXCEPT ![id].isPurgeable = TRUE]
          /\ Goto("backfill", "create")
          /\ UNCHANGED cur
    /\ UNCHANGED <<unstarted, unconfirmed, confirmed, fatal, transactions, txIDCount,
                   nonceMap, lastPurge, nodeVars>>

CreateEmptyUnconfirmedTransaction ==
    LET free == /\ latestNonce \in Nonces
                /\ unconfirmed[latestNonce] = NoTx /\ confirmed[latestNonce] = NoTx
    IN
    /\ pc["backfill"] = "gap"
    /\ txIDCount < MaxIds
    /\ IF free
         THEN /\ txIDCount' = txIDCount + 1
              /\ unconfirmed' = [unconfirmed EXCEPT ![latestNonce] = txIDCount]
              /\ transactions' = transactions \cup {txIDCount}
              /\ tx' = [tx EXCEPT ![txIDCount].state = "unconfirmed",
                                 ![txIDCount].isEmpty = TRUE]
              /\ cur' = [cur EXCEPT !["backfill"].id = txIDCount]
              /\ Goto("backfill", "create")
         ELSE Return("backfill") /\ UNCHANGED <<unconfirmed, transactions, tx, txIDCount>>
    /\ UNCHANGED <<unstarted, confirmed, fatal, nonceMap, lastPurge, nodeVars>>

BackfillTransactions ==
    \/ NonceAt
    \/ MarkConfirmedAndReorgedTransactions
    \/ FetchUnconfirmedTransaction
    \/ MarkUnconfirmedTransactionPurgeable
    \/ CreateEmptyUnconfirmedTransaction
    \/ CreateAndSendAttempt("backfill")

----------------------------------------------------------------------------
(* External: the chain and the clock. *)

Mine ==
    /\ Len(chain) \in Nonces
    /\ mempool[Len(chain)] # NoAttempt
    /\ chain' = Append(chain, mempool[Len(chain)])
    /\ mempool' = [mempool EXCEPT ![Len(chain)] = NoAttempt]
    /\ UNCHANGED <<storeVars, loopVars, sent, used>>

Reorg ==
    \E height \in 0..(Len(chain) - 1) :
        /\ used.reorgs < MaxReorgs /\ Troubles < MaxTroubles
        /\ used' = [used EXCEPT !.reorgs = @ + 1]
        /\ chain' = SubSeq(chain, 1, height)
        /\ mempool' = [n \in Nonces |-> IF n \in height..(Len(chain) - 1)
                                          THEN chain[n + 1] ELSE mempool[n]]
        /\ UNCHANGED <<storeVars, loopVars, sent>>

DropFromMempool ==
    \E n \in Nonces :
        /\ mempool[n] # NoAttempt
        /\ used.drops < MaxDrops /\ Troubles < MaxTroubles
        /\ used' = [used EXCEPT !.drops = @ + 1]
        /\ mempool' = [mempool EXCEPT ![n] = NoAttempt]
        /\ UNCHANGED <<storeVars, loopVars, chain, sent>>

(* Only the age of an unconfirmed transaction is ever read. *)
Older(age) == IF age \in 0..(MaxAge - 1) THEN age + 1 ELSE age

NextBlock ==
    /\ lastPurge' = Older(lastPurge)
    /\ tx' = [id \in Ids |-> IF tx[id].state = "unconfirmed"
                                 THEN [tx[id] EXCEPT !.lastBroadcastAt = Older(@)] ELSE tx[id]]
    /\ <<lastPurge, tx>>' # <<lastPurge, tx>>
    /\ UNCHANGED <<unstarted, unconfirmed, confirmed, fatal, transactions, txIDCount,
                   nonceMap, pc, cur, nodeVars>>

Environment ==
    \/ CreateTransaction \/ AbandonPendingTransactions
    \/ Mine \/ Reorg \/ DropFromMempool \/ NextBlock

Next == BroadcastTransaction \/ BackfillTransactions \/ Environment

Spec == Init /\ [][Next]_vars

(* Both goroutines run until the process stops, pools hand what they hold to a
   block, and time passes.  Nothing obliges a caller, a fault or a reorg. *)
Fairness ==
    /\ WF_vars(BroadcastTransaction)
    /\ WF_vars(BackfillTransactions)
    /\ WF_vars(Mine)
    /\ WF_vars(NextBlock)

FairSpec == Spec /\ Fairness
----------------------------------------------------------------------------
(* Properties. *)

(* Every variable has the shape the code's types give it. *)
StoreTypeOK ==
    /\ unstarted \in Seq(Ids)
    /\ unconfirmed \in [Nonces -> Ids \cup {NoTx}]
    /\ confirmed \in [Nonces -> Ids \cup {NoTx}]
    /\ fatal \subseteq Ids /\ transactions \subseteq Ids
    /\ tx \in [Ids -> Record]
    /\ txIDCount \in 0..MaxIds

LoopTypeOK ==
    /\ nonceMap \in 0..(MaxNonce + 1)
    /\ pc \in [Threads -> {"init", "idle", "pending", "assign", "advance", "create", "send",
                           "recheck", "update", "mark", "fetch", "purge", "gap"}]
    /\ cur \in [Threads -> Copy]
    /\ lastPurge \in Ages

NodeTypeOK ==
    /\ chain \in Seq(Attempt) /\ Len(chain) <= MaxNonce + 1
    /\ mempool \in [Nonces -> Attempt \cup {NoAttempt}]
    /\ sent \subseteq Nonces \X Ids
    /\ used \in Budget

TypeOK == StoreTypeOK /\ LoopTypeOK /\ NodeTypeOK

(* The four collections partition what the store can look up, and the state of
   a transaction names the one it is in, at one nonce only: pruning, the queue's
   limit, abandonment and both moves of MarkConfirmedAndReorgedTransactions keep
   Transactions and the collections together. *)
StoreIsPartitioned ==
    LET in(state) == {id \in Ids : tx[id].state = state /\ id \in transactions}
        indexed(f, state) == /\ {f[n] : n \in Held(f)} = in(state)
                             /\ \A m, n \in Held(f) : f[m] = f[n] => m = n
    IN  /\ in("new") = {}
        /\ {unstarted[i] : i \in 1..Len(unstarted)} = in("unstarted")
        /\ Len(unstarted) = Cardinality(in("unstarted"))
        /\ indexed(unconfirmed, "unconfirmed")
        /\ indexed(confirmed, "confirmed")
        /\ fatal = in("fatal")

(* The first nonce the broadcast loop has not taken yet; the store has it one step
   before nonceMap. *)
Frontier == IF pc["broadcast"] = "advance" THEN nonceMap + 1 ELSE nonceMap

(* No nonce is both confirmed and unconfirmed, and none is beyond the local nonce,
   whatever a gap filler, a reorg or an abandonment does between the two steps in
   which the broadcast loop takes a nonce and moves on.  The overwrites that
   MarkConfirmedAndReorgedTransactions logs as errors never happen.  (When the
   pool holds transactions of another run and loses some of them, the initial
   nonce may be behind the chain's, and then they do.) *)
NonceDiscipline ==
    MaxForeign = 0 =>
        /\ Held(unconfirmed) \cap Held(confirmed) = {}
        /\ \A n \in Held(unconfirmed) \cup Held(confirmed) : n < Frontier

(* Why it holds: the chain, the pool, the nonces the goroutines work at and the
   gap the backfill loop found are all behind the frontier, and what is unconfirmed
   when the backfill loop looks for a gap is at or after the nonce it looks at. *)
Busy == {"advance", "create", "send", "recheck", "update", "purge"}

BehindFrontier ==
    /\ \A n \in Held(unconfirmed) \cup Held(confirmed) : n < Frontier
    /\ \A n \in Nonces : mempool[n] # NoAttempt => n < Frontier
    /\ Len(chain) <= Frontier
    /\ \A th \in Threads : pc[th] \in Busy => cur[th].nonce < Frontier

NonceInv ==
    /\ Held(unconfirmed) \cap Held(confirmed) = {}
    /\ BehindFrontier
    /\ pc["broadcast"] = "init" => nonceMap = 0
    /\ pc["broadcast"] = "advance" => cur["broadcast"].nonce = nonceMap
    /\ pc["backfill"] \in {"mark", "fetch"} => latestNonce <= Frontier
    /\ pc["backfill"] = "fetch" => \A n \in Held(unconfirmed) : latestNonce <= n
    /\ pc["backfill"] = "gap" => latestNonce < Frontier

(* A transaction is only ever signed for one nonce, so that it cannot execute
   twice, through retries, purges, reorgs and abandonments. *)
ExecutesAtMostOnce ==
    \A p, q \in sent : p[2] = q[2] => p[1] = q[1]

(* Two requests are never signed for the same nonce: the only transactions that
   compete for a nonce are a request and the empty transaction of a gap. *)
NonceNeverReused ==
    \A p, q \in sent : p[1] = q[1] /\ {p[2], q[2]} \subseteq Requests => p = q

(* What the store calls confirmed is what the chain executed at that nonce, with
   its payload unless it was purged, until a reorg takes the block away.  The store
   looks at nonces only; this is why that suffices while nothing is abandoned and
   nobody else uses the key.  The exception is a reorg that goes back to a nonce
   whose transaction was pruned: the backfill loop sees a gap there and fills it,
   and if the pruned transaction is the one mined, the store takes its empty one
   for executed. *)
ExecutedAt(n) ==
    /\ chain[n + 1].id = confirmed[n]
    /\ chain[n + 1].isEmpty => tx[confirmed[n]].isPurgeable \/ tx[confirmed[n]].isEmpty

FillsPrunedAt(n) ==
    used.reorgs > 0 /\ tx[confirmed[n]].isEmpty /\ chain[n + 1].id \notin transactions

ConfirmedMeansExecuted ==
    \A n \in Held(confirmed) :
        /\ used.reorgs = 0 => n < Len(chain)
        /\ n < Len(chain) /\ used.abandons = 0 /\ MaxForeign = 0 =>
               ExecutedAt(n) \/ FillsPrunedAt(n)

(* "no more than maxInFlightSubset can get stuck simultaneously": the unconfirmed
   transactions the pool has not reached, while the pool keeps what it took. *)
FewStuckTransactions ==
    used.drops = 0 /\ used.reorgs = 0 /\ used.abandons = 0 =>
        Cardinality({n \in Held(unconfirmed) : n >= PendingNonce}) <= MaxInFlightSubset

(* "The upper limit is always maxInFlightTransactions regardless of the pending
   nonce" (comment in broadcastTransaction).  Not so: the count is compared with > before
   one more is added.  No run checks it; see the README. *)
InFlightLimit == Cardinality(Held(unconfirmed)) <= MaxInFlightTransactions

(* Two attempts beyond maxAllowedAttempts at most: the purge, which is decided before
   the limit is looked at, and a broadcast the backfill loop overtook. *)
AttemptBound ==
    \A id \in Ids : tx[id].attemptCount <= MaxAllowedAttempts + 2

(* An abandoned transaction stays failed: neither loop, working on a copy it
   took before, brings it back. *)
FatalIsFinal ==
    [][\A id \in Ids : tx[id].state = "fatal" => tx'[id].state = "fatal"]_vars

(* A bound of the safety run: it follows a behaviour no further once the chain has
   taken a block back and a caller has abandoned. *)
ReorgOrAbandon == used.reorgs = 0 \/ used.abandons = 0

(* In the end every transaction is confirmed, abandoned or pushed out of the queue,
   unless one that has used up its attempts stays in the way for good.  An abandoned
   transaction leaves a gap below the next one, which an empty transaction fills; what
   is refused, dropped or reorged is sent again; and the loops do not wait for each
   other. *)
Resolved(id) == tx[id].state \in {"confirmed", "fatal"}
Exhausted == \E n \in Held(unconfirmed) : tx[unconfirmed[n]].attemptCount >= MaxAllowedAttempts
EveryTransactionResolves ==
    <>[](\A id \in transactions : Resolved(id)) \/ <>[]Exhausted
=============================================================================

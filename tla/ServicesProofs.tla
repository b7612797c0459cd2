---------------------------- MODULE ServicesProofs ----------------------------
(* What the three components of Services promise, each with an invariant of its own,
   and the types of all three together. *)
EXTENDS Services, SequenceTheorems, TLAPS

----------------------------------------------------------------------------
(* What TxmLifecycle promises of stopping, for every set of callers.  Deadlines and
   outages may come in any number. *)

NoSender == \A c \in Callers : pc[c] # "send"

(* Who has the lock, and what that excludes.  QuietAfterStop alone is not inductive:
   one has to know that Close waits with the lock, so that no caller enters Trigger,
   and that Start is over by then, so that no loop is started. *)
StartHasLock == pc["starter"] = "addresses" => state = "starting" /\ locked

CloseHasLock ==
    /\ pc["closer"] = "lock" => state = "stopping"
    /\ pc["closer"] = "wait" => state = "stopping" /\ locked /\ stopCh /\ NoSender

NothingRuns ==
    state = "stopped" => pc["closer"] = "done" /\ NoSender /\ \A task \in Loops : pc[task] = "exited"

LifecycleInv == TypeOK /\ StartHasLock /\ CloseHasLock /\ NothingRuns

(* No thread is two threads. *)
LEMMA DistinctThreads ==
    /\ "broadcast" \in Threads /\ "backfill" \in Threads
    /\ "starter" \in Threads /\ "closer" \in Threads
    /\ \A c \in Callers : c \in Threads /\ c \notin Loops /\ c # "starter" /\ c # "closer"
                            /\ c # "broadcast" /\ c # "backfill"
BY LifecycleAssumption DEF Threads, Loops

LEMMA LifecycleInit == Init => LifecycleInv
<1> SUFFICES ASSUME Init PROVE LifecycleInv
  OBVIOUS
<1>1. pc \in [Threads -> Labels]
  BY DEF Init, Labels
<1>2. TypeOK
  <2>1. FlagsTyped
    BY DEF Init, FlagsTyped
  <2>2. CountsTyped
    BY LifecycleAssumption DEF Init, CountsTyped
  <2> QED
    BY <1>1, <2>1, <2>2 DEF TypeOK
<1>3. pc["starter"] = "idle" /\ pc["closer"] = "idle"
  BY DistinctThreads DEF Init, Loops
<1>4. state = "unstarted"
  BY DEF Init
<1>5. StartHasLock /\ CloseHasLock
  BY <1>3 DEF StartHasLock, CloseHasLock
<1>6. NothingRuns
  BY <1>4 DEF NothingRuns
<1> QED
  BY <1>2, <1>5, <1>6 DEF LifecycleInv

(* Moving one thread moves no other. *)
LEMMA GotoMoves ==
    ASSUME pc \in [Threads -> Labels], NEW th \in Threads, NEW label \in Labels, Goto(th, label)
    PROVE  /\ pc' \in [Threads -> Labels] /\ pc'[th] = label
           /\ \A other \in Threads : other # th => pc'[other] = pc[other]
BY DEF Goto

(* A step that moves only the thread "th", which is neither Start nor Close, to a label
   that is not "send", and leaves the lock and the channel of Close alone. *)
LEMMA OtherThread ==
    ASSUME LifecycleInv, NEW th \in Threads, NEW label \in Labels, Goto(th, label),
           th # "starter", th # "closer", label # "send",
           th \in Loops => pc[th] # "exited" \/ label = "exited",
           UNCHANGED <<state, locked, stopCh>>
    PROVE  StartHasLock' /\ CloseHasLock' /\ NothingRuns'
<1>1. pc \in [Threads -> Labels] /\ StartHasLock /\ CloseHasLock /\ NothingRuns
  BY DEF LifecycleInv, TypeOK
<1>2. /\ pc'[th] = label
      /\ \A other \in Threads : other # th => pc'[other] = pc[other]
  BY <1>1, GotoMoves
<1>3. pc'["starter"] = pc["starter"] /\ pc'["closer"] = pc["closer"]
  BY <1>2, DistinctThreads
<1>4. NoSender => NoSender'
  BY <1>2, DistinctThreads DEF NoSender
<1>5. ASSUME \A task \in Loops : pc[task] = "exited"
      PROVE  \A task \in Loops : pc'[task] = "exited"
  BY <1>2, <1>5, DistinctThreads DEF Loops
<1>6. StartHasLock' /\ CloseHasLock'
  BY <1>1, <1>3, <1>4 DEF StartHasLock, CloseHasLock
<1>7. NothingRuns'
  BY <1>1, <1>3, <1>4, <1>5 DEF NothingRuns
<1> QED
  BY <1>6, <1>7

-----------------------------------------------------------------------------
(* Types. *)

(* A step of one thread keeps the types if it keeps those of what it changes. *)
LEMMA TypedStep ==
    ASSUME TypeOK, NEW th \in Threads, NEW label \in Labels, Goto(th, label),
           FlagsTyped', CountsTyped'
    PROVE  TypeOK'
BY GotoMoves DEF TypeOK

LEMMA StartTyped ==
    ASSUME TypeOK, StartOnce \/ StartAddress
    PROVE  TypeOK'
<1> USE DEF service, rpc
<1>1. CASE StartOnce
  <2>1. FlagsTyped' /\ CountsTyped'
    BY <1>1 DEF StartOnce, TypeOK, FlagsTyped, CountsTyped
  <2> QED
    BY <1>1, <2>1, TypedStep, DistinctThreads DEF StartOnce, Labels
<1>2. CASE StartAddress
  <2>1. FlagsTyped' /\ CountsTyped'
    BY <1>2 DEF StartAddress, TypeOK, FlagsTyped, CountsTyped
  <2>2. pc' \in [Threads -> Labels]
    BY <1>2 DEF StartAddress, TypeOK, Goto, Labels
  <2> QED
    BY <2>1, <2>2 DEF TypeOK
<1> QED
  BY <1>1, <1>2

LEMMA CallerTyped ==
    ASSUME TypeOK, NEW c \in Callers, Caller(c)
    PROVE  TypeOK'
<1> USE DEF service, rpc
<1>1. CASE CreateTransaction(c)
  <2>1. FlagsTyped' /\ CountsTyped'
    BY <1>1 DEF CreateTransaction, TypeOK, FlagsTyped, CountsTyped
  <2> QED
    BY <1>1, <2>1, TypedStep, DistinctThreads DEF CreateTransaction, Labels
<1>2. CASE IfStarted(c)
  <2>1. FlagsTyped' /\ CountsTyped'
    BY <1>2 DEF IfStarted, TypeOK, FlagsTyped, CountsTyped
  <2> QED
    BY <1>2, <2>1, TypedStep, DistinctThreads DEF IfStarted, Labels
<1>3. CASE Trigger(c)
  <2>1. triggerCh' = 1
    BY <1>3 DEF Trigger, HasRoom, Buffered
  <2>2. FlagsTyped' /\ CountsTyped'
    BY <1>3, <2>1 DEF Trigger, TypeOK, FlagsTyped, CountsTyped
  <2> QED
    BY <1>3, <2>2, TypedStep, DistinctThreads DEF Trigger, Labels
<1> QED
  BY <1>1, <1>2, <1>3 DEF Caller

LEMMA CloserTyped ==
    ASSUME TypeOK, StopOnce \/ Close \/ Wait
    PROVE  TypeOK'
<1> USE DEF service, rpc
<1>1. CASE StopOnce
  <2>1. FlagsTyped' /\ CountsTyped'
    BY <1>1 DEF StopOnce, TypeOK, FlagsTyped, CountsTyped
  <2> QED
    BY <1>1, <2>1, TypedStep, DistinctThreads DEF StopOnce, Labels
<1>2. CASE Close
  <2>1. FlagsTyped' /\ CountsTyped'
    BY <1>2 DEF Close, TypeOK, FlagsTyped, CountsTyped
  <2> QED
    BY <1>2, <2>1, TypedStep, DistinctThreads DEF Close, Labels
<1>3. CASE Wait
  <2>1. FlagsTyped' /\ CountsTyped'
    BY <1>3 DEF Wait, TypeOK, FlagsTyped, CountsTyped
  <2> QED
    BY <1>3, <2>1, TypedStep, DistinctThreads DEF Wait, Labels
<1> QED
  BY <1>1, <1>2, <1>3

LEMMA LoopTyped ==
    ASSUME TypeOK, Broadcast \/ BroadcastTimer \/ Backfill
    PROVE  TypeOK'
<1> USE DEF service, rpc
<1>1. CASE InitializeNonce
  <2>1. FlagsTyped' /\ CountsTyped'
    BY <1>1 DEF InitializeNonce, TypeOK, FlagsTyped, CountsTyped
  <2> QED
    BY <1>1, <2>1, TypedStep, DistinctThreads DEF InitializeNonce, Labels
<1>2. CASE TakeTransaction
  <2>1. FlagsTyped' /\ CountsTyped'
    BY <1>2 DEF TakeTransaction, TypeOK, FlagsTyped, CountsTyped
  <2> QED
    BY <1>2, <2>1, TypedStep, DistinctThreads DEF TakeTransaction, Labels
<1>3. CASE NoTransaction \/ StartSelect \/ BroadcastTimer
  <2>1. FlagsTyped' /\ CountsTyped'
    BY <1>3 DEF NoTransaction, StartSelect, BroadcastTimer, TypeOK, FlagsTyped, CountsTyped
  <2> QED
    BY <1>3, <2>1, TypedStep, DistinctThreads DEF NoTransaction, StartSelect, BroadcastTimer, Labels
<1>4. CASE BroadcastTriggered
  <2>1. FlagsTyped' /\ CountsTyped'
    BY <1>4 DEF BroadcastTriggered, TypeOK, FlagsTyped, CountsTyped
  <2> QED
    BY <1>4, <2>1, TypedStep, DistinctThreads DEF BroadcastTriggered, Labels
<1>5. CASE BackfillTransactions
  <2>1. FlagsTyped' /\ CountsTyped'
    BY <1>5 DEF BackfillTransactions, TypeOK, FlagsTyped, CountsTyped
  <2> QED
    BY <1>5, <2>1, TypedStep, DistinctThreads DEF BackfillTransactions, Labels
<1>6. ASSUME NEW task \in Loops, Exit(task)
      PROVE  TypeOK'
  <2>1. FlagsTyped' /\ CountsTyped'
    BY <1>6 DEF Exit, TypeOK, FlagsTyped, CountsTyped
  <2> QED
    BY <1>6, <2>1, TypedStep, DistinctThreads DEF Exit, Labels, Threads
<1> QED
  BY <1>1, <1>2, <1>3, <1>4, <1>5, <1>6 DEF Broadcast, BroadcastTransaction, Backfill, Loops

LEMMA OutsideTyped ==
    ASSUME TypeOK, Outage \/ Recover \/ Timeout
    PROVE  TypeOK'
<1>1. FlagsTyped'
  BY DEF Outage, Recover, Timeout, TypeOK, FlagsTyped, service
<1>2. outages' \in 0..MaxOutages /\ timeouts' \in 0..MaxTimeouts
  BY LifecycleAssumption DEF Outage, Recover, Timeout, TypeOK, CountsTyped
<1>3. CountsTyped'
  BY <1>2 DEF Outage, Recover, Timeout, TypeOK, CountsTyped, service
<1> QED
  BY <1>1, <1>3 DEF Outage, Recover, Timeout, TypeOK

LEMMA LifecycleTypeStep == TypeOK /\ [Next]_vars => TypeOK'
<1> SUFFICES ASSUME TypeOK, [Next]_vars PROVE TypeOK'
  OBVIOUS
<1>1. CASE UNCHANGED vars
  BY <1>1 DEF vars, service, rpc, TypeOK, FlagsTyped, CountsTyped
<1>2. CASE Next
  BY <1>2, StartTyped, CallerTyped, CloserTyped, LoopTyped, OutsideTyped DEF Next
<1> QED
  BY <1>1, <1>2

-----------------------------------------------------------------------------
(* Locking and stopping. *)

LEMMA StartKeepsInv ==
    ASSUME LifecycleInv, StartOnce \/ StartAddress
    PROVE  StartHasLock' /\ CloseHasLock' /\ NothingRuns'
<1>1. TypeOK /\ StartHasLock /\ CloseHasLock /\ NothingRuns
  BY DEF LifecycleInv
<1>2. CASE StartOnce
  <2>1. pc["closer"] \notin {"lock", "wait"}
    BY <1>1, <1>2 DEF StartOnce, CloseHasLock
  <2>2. pc'["closer"] = pc["closer"]
    BY <1>1, <1>2, DistinctThreads DEF StartOnce, Goto, TypeOK
  <2> QED
    BY <1>2, <2>1, <2>2 DEF StartOnce, StartHasLock, CloseHasLock, NothingRuns
<1>3. CASE StartAddress
  <2>1. state = "starting"
    BY <1>1, <1>3 DEF StartAddress, StartHasLock
  <2>2. pc["closer"] \notin {"lock", "wait"}
    BY <1>1, <2>1 DEF CloseHasLock
  <2>3. pc'["closer"] = pc["closer"] /\ pc'["starter"] = "done"
    BY <1>1, <1>3, DistinctThreads DEF StartAddress, Goto, TypeOK
  <2>4. state' \in {"started", "failed"}
    BY <1>3 DEF StartAddress
  <2> QED
    BY <2>2, <2>3, <2>4 DEF StartHasLock, CloseHasLock, NothingRuns
<1> QED
  BY <1>2, <1>3

LEMMA CallerKeepsInv ==
    ASSUME LifecycleInv, NEW c \in Callers, Caller(c)
    PROVE  StartHasLock' /\ CloseHasLock' /\ NothingRuns'
<1>1. TypeOK /\ StartHasLock /\ CloseHasLock /\ NothingRuns
  BY DEF LifecycleInv
<1>2. CASE CreateTransaction(c)
  BY <1>2, OtherThread, DistinctThreads DEF CreateTransaction, Labels
<1>3. CASE IfStarted(c) /\ state # "started"
  BY <1>3, OtherThread, DistinctThreads DEF IfStarted, Labels, service
<1>4. CASE IfStarted(c) /\ state = "started"
  <2>1. pc["starter"] # "addresses" /\ pc["closer"] \notin {"lock", "wait"}
    BY <1>1, <1>4 DEF StartHasLock, CloseHasLock
  <2>2. pc'["starter"] = pc["starter"] /\ pc'["closer"] = pc["closer"]
    BY <1>1, <1>4, DistinctThreads DEF IfStarted, Goto, TypeOK
  <2>3. state' = "started"
    BY <1>4 DEF IfStarted, service
  <2> QED
    BY <2>1, <2>2, <2>3 DEF StartHasLock, CloseHasLock, NothingRuns
<1>5. CASE Trigger(c)
  BY <1>5, OtherThread, DistinctThreads DEF Trigger, Labels
<1> QED
  BY <1>2, <1>3, <1>4, <1>5 DEF Caller

LEMMA CloserKeepsInv ==
    ASSUME LifecycleInv, StopOnce \/ Close \/ Wait
    PROVE  StartHasLock' /\ CloseHasLock' /\ NothingRuns'
<1>1. TypeOK /\ StartHasLock /\ CloseHasLock /\ NothingRuns
  BY DEF LifecycleInv
<1>2. CASE StopOnce
  <2>1. pc'["starter"] = pc["starter"] /\ pc'["closer"] = "lock" /\ pc["starter"] # "addresses"
    BY <1>1, <1>2, DistinctThreads DEF StopOnce, Goto, TypeOK, StartHasLock
  <2>2. state' = "stopping"
    BY <1>2 DEF StopOnce
  <2> QED
    BY <2>1, <2>2 DEF StartHasLock, CloseHasLock, NothingRuns
<1>3. CASE Close
  <2>1. state = "stopping" /\ pc["starter"] # "addresses"
    BY <1>1, <1>3 DEF Close, CloseHasLock, StartHasLock
  <2>2. pc'["starter"] = pc["starter"] /\ pc'["closer"] = "wait"
    BY <1>1, <1>3, DistinctThreads DEF Close, Goto, TypeOK
  <2>3. NoSender'
    BY <1>1, <1>3, DistinctThreads DEF Close, Goto, TypeOK, NoSender
  <2>4. state' = "stopping" /\ locked' /\ stopCh'
    BY <1>3, <2>1 DEF Close
  <2> QED
    BY <2>1, <2>2, <2>3, <2>4 DEF StartHasLock, CloseHasLock, NothingRuns
<1>4. CASE Wait
  <2>1. NoSender /\ state = "stopping" /\ pc["starter"] # "addresses"
    BY <1>1, <1>4 DEF Wait, CloseHasLock, StartHasLock
  <2>2. /\ pc'["starter"] = pc["starter"] /\ pc'["closer"] = "done"
        /\ \A th \in Threads : th # "closer" => pc'[th] = pc[th]
    BY <1>1, <1>4, DistinctThreads DEF Wait, Goto, TypeOK
  <2>3. NoSender'
    BY <2>1, <2>2, DistinctThreads DEF NoSender
  <2>4. \A task \in Loops : pc'[task] = "exited"
    BY <1>4, <2>2, DistinctThreads DEF Wait, AllExited, Loops
  <2> QED
    BY <2>1, <2>2, <2>3, <2>4 DEF StartHasLock, CloseHasLock, NothingRuns
<1> QED
  BY <1>2, <1>3, <1>4

LEMMA LoopKeepsInv ==
    ASSUME LifecycleInv, Broadcast \/ BroadcastTimer \/ Backfill
    PROVE  StartHasLock' /\ CloseHasLock' /\ NothingRuns'
<1> USE DEF service, Labels
<1>1. CASE InitializeNonce
  BY <1>1, OtherThread, DistinctThreads DEF InitializeNonce
<1>2. CASE TakeTransaction
  BY <1>2, OtherThread, DistinctThreads DEF TakeTransaction
<1>3. CASE NoTransaction \/ StartSelect \/ BroadcastTimer
  BY <1>3, OtherThread, DistinctThreads DEF NoTransaction, StartSelect, BroadcastTimer
<1>4. CASE BroadcastTriggered
  BY <1>4, OtherThread, DistinctThreads DEF BroadcastTriggered
<1>5. CASE BackfillTransactions
  BY <1>5, OtherThread, DistinctThreads DEF BackfillTransactions
<1>6. ASSUME NEW task \in Loops, Exit(task)
      PROVE  StartHasLock' /\ CloseHasLock' /\ NothingRuns'
  <2>1. task \in Threads /\ task # "starter" /\ task # "closer"
    BY DEF Loops, Threads
  <2> QED
    BY <1>6, <2>1, OtherThread DEF Exit
<1> QED
  BY <1>1, <1>2, <1>3, <1>4, <1>5, <1>6 DEF Broadcast, BroadcastTransaction, Backfill, Loops

LEMMA LifecycleStep == LifecycleInv /\ [Next]_vars => LifecycleInv'
<1> SUFFICES ASSUME LifecycleInv, [Next]_vars PROVE LifecycleInv'
  OBVIOUS
<1>1. TypeOK'
  BY LifecycleTypeStep DEF LifecycleInv
<1>2. CASE UNCHANGED <<service, pc>>
  BY <1>1, <1>2 DEF service, LifecycleInv, StartHasLock, CloseHasLock, NothingRuns, NoSender
<1>3. CASE Outage \/ Recover \/ Timeout \/ UNCHANGED vars
  BY <1>2, <1>3 DEF Outage, Recover, Timeout, vars
<1>4. CASE Next
  BY <1>1, <1>3, <1>4, StartKeepsInv, CallerKeepsInv, CloserKeepsInv, LoopKeepsInv
     DEF Next, LifecycleInv
<1> QED
  BY <1>3, <1>4

-----------------------------------------------------------------------------
(* The theorems. *)

(* Whatever the goroutines do, the channel of Trigger holds at most one message and
   the variables keep their types. *)
THEOREM LifecycleTypeCorrect == Spec => []TypeOK
<1>1. Init => TypeOK
  BY LifecycleInit DEF LifecycleInv
<1> QED
  BY <1>1, LifecycleTypeStep, PTL DEF Spec

(* When Close has returned both loops have exited and nobody is in Trigger with the
   lock, however many callers there are and however often the RPC fails. *)
THEOREM QuietAfterStopHolds == Spec => []QuietAfterStop
<1>1. LifecycleInv => QuietAfterStop
  BY DEF LifecycleInv, NothingRuns, NoSender, QuietAfterStop
<1> QED
  BY <1>1, LifecycleInit, LifecycleStep, PTL DEF Spec

(* A closed stopCh is the only way to a round without the initial nonce. *)
THEOREM NonceBeforeRoundsHolds == Spec => []NonceBeforeRounds
<1> DEFINE Rounds == {"round", "returned", "select"}
<1>1. Init => NonceBeforeRounds
  BY DistinctThreads DEF Init, NonceBeforeRounds, Loops
<1>2. TypeOK /\ NonceBeforeRounds /\ [Next]_vars => NonceBeforeRounds'
  <2> SUFFICES ASSUME TypeOK, NonceBeforeRounds, [Next]_vars PROVE NonceBeforeRounds'
    OBVIOUS
  <2>1. (nonceKnown => nonceKnown') /\ (stopCh => stopCh')
    BY DEF Next, vars, service, StartOnce, StartAddress, Caller, CreateTransaction, IfStarted,
           Trigger, StopOnce, Close, Wait, Broadcast, InitializeNonce, BroadcastTransaction,
           TakeTransaction, NoTransaction, StartSelect, BroadcastTriggered, BroadcastTimer,
           Backfill, BackfillTransactions, Exit, Outage, Recover, Timeout
  <2>2. pc'["broadcast"] \in Rounds => pc["broadcast"] \in Rounds \/ nonceKnown' \/ stopCh'
    <3>1. ASSUME NEW c \in Callers, Caller(c)
          PROVE  pc'["broadcast"] = pc["broadcast"]
      BY <3>1, DistinctThreads
         DEF Caller, CreateTransaction, IfStarted, Trigger, Goto, TypeOK
    <3>2. CASE InitializeNonce
      BY <3>2 DEF InitializeNonce, Canceled
    <3>3. CASE BroadcastTransaction \/ BroadcastTriggered \/ BroadcastTimer \/ Exit("broadcast")
      BY <3>3 DEF BroadcastTransaction, TakeTransaction, NoTransaction, StartSelect,
                  BroadcastTriggered, BroadcastTimer, Exit
    <3>4. CASE StartOnce \/ StopOnce \/ Close \/ Wait \/ Backfill
      BY <3>4, DistinctThreads
         DEF StartOnce, StopOnce, Close, Wait, Backfill, BackfillTransactions, Exit, Goto, TypeOK
    <3>5. CASE StartAddress
      BY <3>5, DistinctThreads DEF StartAddress, Goto, TypeOK
    <3>6. CASE Outage \/ Recover \/ Timeout \/ UNCHANGED vars
      BY <3>6 DEF Outage, Recover, Timeout, vars
    <3> QED
      BY <3>1, <3>2, <3>3, <3>4, <3>5, <3>6 DEF Next, Broadcast
  <2> QED
    BY <2>1, <2>2 DEF NonceBeforeRounds
<1> QED
  BY <1>1, <1>2, LifecycleTypeCorrect, PTL DEF Spec

----------------------------------------------------------------------------
(* A subscription loses neither results nor its error, and is quiet after Unsubscribe,
   for any number of callers of Unsubscribe and of results.  The place of forwardLoop
   decides it all: what it holds, whether the node's subscription is released, whether
   done is closed, and whether the error of the node was taken. *)

Source   == [sent : Nat, error : {"none", "pending", "taken"}, unsubscribed : Nat]
Errors   == {"nothing", "source", "intercept"}
Consumer == [given : Seq(Nat), reads : BOOLEAN, error : Errors]
Places   == {"select", "send", "release", "closeDone", "closeErr", "ended"}

SubTypeInv ==
    /\ loop \in Places /\ held \in Nat
    /\ errCh \in [holds : Errors, closed : BOOLEAN]
    /\ unsubscriber \in [Subscribers -> {"idle", "waiting", "returned"}]
    /\ source \in Source /\ consumer \in Consumer

HeldIsNext == loop = "send" => held = source.sent

ReleasedOnce ==
    source.unsubscribed = IF loop \in {"closeDone", "closeErr", "ended"} THEN 1 ELSE 0

DoneIsLate ==
    /\ done => loop \in {"closeErr", "ended"}
    /\ \A s \in Subscribers : unsubscriber[s] = "returned" => done

(* An error that was taken ends the loop, and is in the channel or with the consumer. *)
ErrorIsKept ==
    source.error = "taken" =>
        /\ loop \notin {"select", "send"}
        /\ errCh.holds \in {"source", "nothing"}
        /\ errCh.holds = "source" \/ consumer.error = "source"

SubInv ==
    SubTypeInv /\ HeldIsNext /\ ReleasedOnce /\ DoneIsLate /\ ErrorIsKept /\ DeliveredInOrder

LEMMA InitSubInv == SubInit => SubInv
  <1> SUFFICES ASSUME SubInit PROVE SubInv
    OBVIOUS
  <1>1. SubTypeInv
    BY DEF SubInit, SubTypeInv, Source, Consumer, Errors, Places
  <1>2. HeldIsNext /\ ReleasedOnce /\ DoneIsLate /\ ErrorIsKept
    BY DEF SubInit, HeldIsNext, ReleasedOnce, DoneIsLate, ErrorIsKept
  <1>3. DeliveredInOrder
    BY DEF SubInit, DeliveredInOrder
  <1> QED
    BY <1>1, <1>2, <1>3 DEF SubInv

(* Steps that deliver nothing and take no result. *)
LEMMA TakeErrorPreserves ==
    ASSUME SubInv, TakeError
    PROVE  SubInv'
  <1>0. SubTypeInv /\ HeldIsNext /\ ReleasedOnce /\ DoneIsLate /\ ErrorIsKept /\ DeliveredInOrder
    BY DEF SubInv
  <1>1. /\ loop = "select" /\ loop' = "release"
        /\ source' = [source EXCEPT !.error = "taken"]
        /\ errCh' = [errCh EXCEPT !.holds = "source"]
        /\ UNCHANGED <<held, unSub, done, unsubscriber, consumer>>
    BY DEF TakeError, HandleError
  <1>2. SubTypeInv'
    BY <1>0, <1>1 DEF SubTypeInv, Source, Errors, Places
  <1>3. HeldIsNext' /\ ReleasedOnce' /\ DoneIsLate' /\ ErrorIsKept'
    BY <1>0, <1>1 DEF SubTypeInv, Source, HeldIsNext, ReleasedOnce, DoneIsLate, ErrorIsKept
  <1>4. source'.sent = source.sent
    BY <1>0, <1>1 DEF SubTypeInv, Source
  <1>5. DeliveredInOrder'
    BY <1>0, <1>1, <1>4 DEF DeliveredInOrder
  <1> QED
    BY <1>2, <1>3, <1>5 DEF SubInv

LEMMA TakeUnsubscribePreserves ==
    ASSUME SubInv, TakeUnsubscribe \/ ReleaseSource
    PROVE  SubInv'
  <1>0. SubTypeInv /\ HeldIsNext /\ ReleasedOnce /\ DoneIsLate /\ ErrorIsKept /\ DeliveredInOrder
    BY DEF SubInv
  <1>1. /\ loop \in {"select", "send", "release"} /\ loop' = "closeDone"
        /\ source' = [source EXCEPT !.unsubscribed = @ + 1]
        /\ held' \in {held, 0}
        /\ UNCHANGED <<done, errCh, unsubscriber, consumer>>
    BY DEF TakeUnsubscribe, ReleaseSource, ReleasedSource, UnsubscribePoints
  <1>2. SubTypeInv'
    BY <1>0, <1>1 DEF SubTypeInv, Source, Places
  <1>3. HeldIsNext' /\ ReleasedOnce' /\ DoneIsLate' /\ ErrorIsKept'
    BY <1>0, <1>1 DEF SubTypeInv, Source, HeldIsNext, ReleasedOnce, DoneIsLate, ErrorIsKept
  <1>4. source'.sent = source.sent
    BY <1>0, <1>1 DEF SubTypeInv, Source
  <1>5. DeliveredInOrder'
    BY <1>0, <1>1, <1>4 DEF DeliveredInOrder
  <1> QED
    BY <1>2, <1>3, <1>5 DEF SubInv

LEMMA ClosingPreserves ==
    ASSUME SubInv, CloseDone \/ CloseErr
    PROVE  SubInv'
  <1>0. SubTypeInv /\ HeldIsNext /\ ReleasedOnce /\ DoneIsLate /\ ErrorIsKept /\ DeliveredInOrder
    BY DEF SubInv
  <1>1. /\ \/ loop = "closeDone" /\ loop' = "closeErr" /\ done' = TRUE
           \/ loop = "closeErr" /\ loop' = "ended" /\ done' = done
        /\ errCh' \in {errCh, [errCh EXCEPT !.closed = TRUE]}
        /\ UNCHANGED <<held, unsubscriber, source, consumer>>
    BY DEF CloseDone, CloseErr
  <1>2. errCh'.holds = errCh.holds /\ SubTypeInv'
    BY <1>0, <1>1 DEF SubTypeInv, Errors, Places
  <1>3. HeldIsNext' /\ ReleasedOnce' /\ DoneIsLate' /\ ErrorIsKept'
    BY <1>0, <1>1, <1>2 DEF HeldIsNext, ReleasedOnce, DoneIsLate, ErrorIsKept
  <1>4. DeliveredInOrder'
    BY <1>0, <1>1 DEF DeliveredInOrder
  <1> QED
    BY <1>2, <1>3, <1>4 DEF SubInv

(* A result is taken, or lost with an error of interceptResult that ends the loop. *)
LEMMA TakeResultPreserves ==
    ASSUME SubInv, TakeResult
    PROVE  SubInv'
  <1>0. SubTypeInv /\ HeldIsNext /\ ReleasedOnce /\ DoneIsLate /\ ErrorIsKept /\ DeliveredInOrder
    BY DEF SubInv
  <1>1. /\ loop = "select"
        /\ source' = [source EXCEPT !.sent = @ + 1]
        /\ UNCHANGED <<done, unsubscriber, consumer>>
        /\ \/ loop' = "send" /\ held' = source.sent + 1 /\ errCh' = errCh
           \/ loop' = "release" /\ held' = held /\ errCh' = [errCh EXCEPT !.holds = "intercept"]
    BY DEF TakeResult, TakingPoints, HandleError
  <1>2. source.sent \in Nat /\ source'.sent = source.sent + 1 /\ source'.error = source.error
        /\ source'.unsubscribed = source.unsubscribed
    BY <1>0, <1>1 DEF SubTypeInv, Source
  <1>3. SubTypeInv'
    BY <1>0, <1>1 DEF SubTypeInv, Source, Errors, Places
  <1>4. HeldIsNext'
    BY <1>1, <1>2 DEF HeldIsNext
  <1>5. ReleasedOnce' /\ DoneIsLate'
    BY <1>0, <1>1, <1>2 DEF ReleasedOnce, DoneIsLate
  <1>6. ErrorIsKept'
    BY <1>0, <1>1, <1>2 DEF ErrorIsKept
  <1>7. Len(consumer.given) \in Nat
    BY <1>0 DEF SubTypeInv, Consumer
  <1>8. DeliveredInOrder'
    BY <1>0, <1>1, <1>2, <1>7 DEF DeliveredInOrder
  <1> QED
    BY <1>3, <1>4, <1>5, <1>6, <1>8 DEF SubInv

LEMMA SendPreserves ==
    ASSUME SubInv, Send
    PROVE  SubInv'
  <1>0. SubTypeInv /\ HeldIsNext /\ ReleasedOnce /\ DoneIsLate /\ ErrorIsKept /\ DeliveredInOrder
    BY DEF SubInv
  <1>1. /\ loop = "send" /\ loop' = "select" /\ held' = 0
        /\ consumer' = [consumer EXCEPT !.given = Append(@, held)]
        /\ UNCHANGED <<done, errCh, unsubscriber, source>>
    BY DEF Send
  <1>2. /\ consumer.given \in Seq(Nat) /\ held \in Nat
        /\ consumer'.given = Append(consumer.given, held) /\ consumer'.error = consumer.error
    BY <1>0, <1>1 DEF SubTypeInv, Consumer
  <1>3. SubTypeInv'
    <2>1. Append(consumer.given, held) \in Seq(Nat)
      BY <1>2
    <2>2. consumer' \in Consumer
      BY <1>0, <1>1, <2>1 DEF SubTypeInv, Consumer
    <2> QED
      BY <1>0, <1>1, <2>2 DEF SubTypeInv, Places
  <1>4. HeldIsNext' /\ ReleasedOnce' /\ DoneIsLate' /\ ErrorIsKept'
    BY <1>0, <1>1, <1>2 DEF HeldIsNext, ReleasedOnce, DoneIsLate, ErrorIsKept
  <1> DEFINE given == consumer.given
             after == consumer'.given
  <1>5. given \in Seq(Nat) /\ after = Append(given, held) /\ held = Len(given) + 1
    <2>1. held = source.sent /\ source.sent - Len(given) = 1 /\ source.sent \in Nat
      BY <1>0, <1>1 DEF HeldIsNext, DeliveredInOrder, SubTypeInv, Source
    <2> QED
      BY <1>2, <2>1
  <1>6. given = [i \in 1..Len(given) |-> i]
    BY <1>0 DEF DeliveredInOrder
  <1>7. source'.sent - Len(after) = 0 /\ Len(after) = Len(given) + 1
    <2>1. source'.sent = Len(given) + 1
      BY <1>0, <1>1, <1>5 DEF HeldIsNext
    <2> QED
      BY <1>5, <2>1
  <1>8. after = [i \in 1..Len(after) |-> i]
    <2> HIDE DEF given, after
    <2>1. after \in Seq(Nat) /\ Len(after) = Len(given) + 1
      BY <1>2, <1>5
    <2>2. \A i \in 1..Len(given) : after[i] = given[i] /\ given[i] = i
      BY <1>5, <1>6
    <2>3. after[Len(given) + 1] = Len(given) + 1
      BY <1>5
    <2>4. \A i \in 1..Len(after) : after[i] = i
      BY <1>5, <2>1, <2>2, <2>3
    <2> QED
      BY <2>1, <2>4
  <1>9. DeliveredInOrder'
    <2>1. loop' = "select"
      BY <1>1
    <2> HIDE <1>1
    <2> QED
      BY <2>1, <1>7, <1>8 DEF DeliveredInOrder
  <1> QED
    BY <1>3, <1>4, <1>9 DEF SubInv

LEMMA CallersPreserve ==
    ASSUME SubInv, NEW s \in Subscribers, Unsubscribe(s) \/ UnsubscribeReturn(s)
    PROVE  SubInv'
  <1>0. SubTypeInv /\ HeldIsNext /\ ReleasedOnce /\ DoneIsLate /\ ErrorIsKept /\ DeliveredInOrder
    BY DEF SubInv
  <1>1. /\ UNCHANGED <<loop, held, done, errCh, source, consumer>>
        /\ \/ unsubscriber' = [unsubscriber EXCEPT ![s] = "waiting"]
           \/ unsubscriber' = [unsubscriber EXCEPT ![s] = "returned"] /\ done
    BY DEF Unsubscribe, UnsubscribeReturn, LoopIsDone
  <1>2. SubTypeInv' /\ DoneIsLate'
    BY <1>0, <1>1 DEF SubTypeInv, DoneIsLate
  <1>3. HeldIsNext' /\ ReleasedOnce' /\ ErrorIsKept' /\ DeliveredInOrder'
    BY <1>0, <1>1 DEF HeldIsNext, ReleasedOnce, ErrorIsKept, DeliveredInOrder
  <1> QED
    BY <1>2, <1>3 DEF SubInv

LEMMA EnvironmentPreserves ==
    ASSUME SubInv, SourceFails \/ ReadError \/ StopReading
    PROVE  SubInv'
  <1>0. SubTypeInv /\ HeldIsNext /\ ReleasedOnce /\ DoneIsLate /\ ErrorIsKept /\ DeliveredInOrder
    BY DEF SubInv
  <1>1. UNCHANGED <<loop, held, done, unsubscriber>>
    BY DEF SourceFails, ReadError, StopReading
  <1>2. /\ \/ source' = source
           \/ source' = [source EXCEPT !.error = "pending"]
        /\ \/ errCh' = errCh /\ consumer' = consumer
           \/ errCh' = errCh /\ consumer' = [consumer EXCEPT !.reads = FALSE]
           \/ /\ errCh' = [errCh EXCEPT !.holds = "nothing"]
              /\ consumer' = [consumer EXCEPT !.error = errCh.holds]
              /\ errCh.holds # "nothing" /\ source' = source
    BY DEF SourceFails, ReadError, StopReading
  <1>3. SubTypeInv'
    BY <1>0, <1>1, <1>2 DEF SubTypeInv, Source, Consumer, Errors
  <1>4. /\ source'.sent = source.sent /\ source'.unsubscribed = source.unsubscribed
        /\ consumer'.given = consumer.given
    BY <1>0, <1>2 DEF SubTypeInv, Source, Consumer
  <1>5. HeldIsNext' /\ ReleasedOnce' /\ DoneIsLate' /\ DeliveredInOrder'
    BY <1>0, <1>1, <1>4 DEF HeldIsNext, ReleasedOnce, DoneIsLate, DeliveredInOrder
  <1>6. ErrorIsKept'
    BY <1>0, <1>1, <1>2 DEF SubTypeInv, Source, Consumer, ErrorIsKept
  <1> QED
    BY <1>3, <1>5, <1>6 DEF SubInv

LEMMA StepSubInv == SubInv /\ [SubNext]_subVars => SubInv'
  <1> SUFFICES ASSUME SubInv, [SubNext]_subVars PROVE SubInv'
    OBVIOUS
  <1>1. CASE UNCHANGED subVars
    BY <1>1 DEF subVars, SubInv, SubTypeInv, HeldIsNext, ReleasedOnce, DoneIsLate, ErrorIsKept,
                DeliveredInOrder
  <1> QED
    BY <1>1, TakeErrorPreserves, TakeUnsubscribePreserves, ClosingPreserves, TakeResultPreserves,
       SendPreserves, CallersPreserve, EnvironmentPreserves
    DEF SubNext, ForwardLoop, EndOrDeliver

(* A consumer gets every result in order, but for the last one when the subscription
   ends, and the error that ended it, for any number of results and callers. *)
THEOREM NothingIsLostHolds == SubSpec => []NothingIsLost
  <1>1. SubInv => NothingIsLost
    BY DEF SubInv, NothingIsLost, ErrorIsKept, ErrorIsNotLost
  <1> QED
    BY <1>1, InitSubInv, StepSubInv, PTL DEF SubSpec

(* After Unsubscribe has returned to anyone, the loop is past every delivery and past
   the one release of the node's subscription. *)
THEOREM QuietAfterUnsubscribeHolds == SubSpec => QuietAfterUnsubscribe
  <1> DEFINE Quiet == \A s \in Subscribers :
                        unsubscriber[s] = "returned" =>
                          consumer'.given = consumer.given /\ source'.unsubscribed = 1
  <1>1. SubInv /\ SubInv' /\ [SubNext]_subVars => Quiet
    <2> SUFFICES ASSUME SubInv, SubInv', [SubNext]_subVars,
                        NEW s \in Subscribers, unsubscriber[s] = "returned"
                 PROVE  consumer'.given = consumer.given /\ source'.unsubscribed = 1
      OBVIOUS
    <2>1. loop \in {"closeErr", "ended"}
      BY DEF SubInv, DoneIsLate
    <2>2. loop' \in {"closeErr", "ended"}
      BY <2>1 DEF SubNext, ForwardLoop, EndOrDeliver, TakeError, TakeResult, TakingPoints, Send,
                  TakeUnsubscribe, UnsubscribePoints, ReleaseSource, CloseDone, CloseErr,
                  Unsubscribe, UnsubscribeReturn, SourceFails, ReadError, StopReading, subVars
    <2>3. source'.unsubscribed = 1
      BY <2>2 DEF SubInv, ReleasedOnce
    <2>4. \/ consumer' = consumer
          \/ consumer' = [consumer EXCEPT !.error = errCh.holds]
          \/ consumer' = [consumer EXCEPT !.reads = FALSE]
      BY <2>1 DEF SubNext, ForwardLoop, EndOrDeliver, TakeError, TakeResult, TakingPoints, Send,
                  TakeUnsubscribe, UnsubscribePoints, ReleaseSource, CloseDone, CloseErr,
                  Unsubscribe, UnsubscribeReturn, SourceFails, ReadError, StopReading, subVars
    <2> QED
      BY <2>3, <2>4 DEF SubInv, SubTypeInv, Consumer
  <1> QED
    BY <1>1, InitSubInv, StepSubInv, PTL DEF SubSpec, QuietAfterUnsubscribe

----------------------------------------------------------------------------
(* The answer of a replay reaches nobody but the client that asked for it, for any
   number of clients.  run() serves one request at a time: what has to be shown is that
   a client, or the goroutine it left, waits only while run() has its request. *)

(* A goroutine is left only by a client that has gone, and run() selects only when it
   has no request left to answer. *)
OneOfThemWaits == \A c \in Clients : receiver[c] # "none" => caller[c] = "outside"

NothingIsOpen == runLoop = "select" => serving = NoClient

HandOverInv ==
    HandOverTypeOK /\ AnswersGoToTheirClient /\ OneOfThemWaits /\ NothingIsOpen

LEMMA InitHandOverInv == HandOverInit => HandOverInv
  BY DEF HandOverInit, HandOverInv, HandOverTypeOK, AnswersGoToTheirClient,
         OneOfThemWaits, NothingIsOpen

(* What a send on replayComplete does to who waits: one of them goes. *)
LEMMA DeliverReleases ==
    ASSUME HandOverInv, NEW value \in Answers \cup {"aborted", "shutdown"}, Deliver(value)
    PROVE  /\ caller' \in [Clients -> {"outside", "offer", "sent", "await"}]
           /\ told' \in [Clients -> Answers \cup {"nothing", "aborted", "in progress", "shutdown"}]
           /\ receiver' \in [Clients -> {"none", "spawned", "receiving"}]
           /\ \A c \in Clients : /\ caller'[c] \in {caller[c], "outside"}
                                 /\ receiver'[c] \in {receiver[c], "none"}
           /\ serving \in Clients
           /\ caller'[serving] = "outside" /\ receiver'[serving] = "none"
  <1>1. HandOverTypeOK /\ AnswersGoToTheirClient /\ OneOfThemWaits
    BY DEF HandOverInv
  <1>2. PICK c \in Waiting :
            IF receiver[c] = "receiving"
              THEN /\ receiver' = [receiver EXCEPT ![c] = "none"]
                   /\ UNCHANGED <<caller, told>>
              ELSE /\ caller' = [caller EXCEPT ![c] = "outside"]
                   /\ told' = [told EXCEPT ![c] = value]
                   /\ UNCHANGED receiver
    BY DEF Deliver
  <1>3. c \in Clients /\ (caller[c] = "await" \/ receiver[c] = "receiving")
    BY DEF Waiting
  <1>4. serving = c
    BY <1>1, <1>3 DEF AnswersGoToTheirClient
  <1>5. CASE receiver[c] = "receiving"
    <2>1. caller[c] = "outside"
      BY <1>1, <1>3, <1>5 DEF OneOfThemWaits
    <2> QED
      BY <1>1, <1>2, <1>3, <1>4, <1>5, <2>1 DEF HandOverTypeOK
  <1>6. CASE receiver[c] # "receiving"
    <2>1. caller[c] = "await" /\ receiver[c] = "none"
      BY <1>1, <1>3, <1>6 DEF OneOfThemWaits
    <2> QED
      BY <1>1, <1>2, <1>3, <1>4, <1>6, <2>1 DEF HandOverTypeOK
  <1> QED
    BY <1>5, <1>6

(* So the send leaves the invariant's parts about clients as they were, whatever
   happens to run() and to what it serves. *)
LEMMA AfterDelivery ==
    ASSUME HandOverInv, NEW value \in Answers \cup {"aborted", "shutdown"},
           DeliverIfWaiting(value), serving' = serving
    PROVE  /\ caller' \in [Clients -> {"outside", "offer", "sent", "await"}]
           /\ told' \in [Clients -> Answers \cup {"nothing", "aborted", "in progress", "shutdown"}]
           /\ receiver' \in [Clients -> {"none", "spawned", "receiving"}]
           /\ AnswersGoToTheirClient' /\ OneOfThemWaits'
  <1>1. HandOverTypeOK /\ AnswersGoToTheirClient /\ OneOfThemWaits
    BY DEF HandOverInv
  <1>2. CASE UNCHANGED <<caller, told, receiver>>
    BY <1>1, <1>2 DEF HandOverTypeOK, AnswersGoToTheirClient, OneOfThemWaits
  <1>3. CASE Deliver(value)
    BY <1>1, <1>3, DeliverReleases DEF AnswersGoToTheirClient, OneOfThemWaits
  <1> QED
    BY <1>2, <1>3 DEF DeliverIfWaiting

LEMMA ClientPreserves ==
    ASSUME HandOverInv, NEW c \in Clients,
           \/ CallReplay(c) \/ Abort(c) \/ Await(c) \/ GiveUp(c)
           \/ RecvReplayComplete(c) \/ Cancel(c) \/ NewContext(c)
    PROVE  HandOverInv'
  <1> USE DEF HandOverInv, HandOverTypeOK, AnswersGoToTheirClient, OneOfThemWaits, NothingIsOpen
  <1>1. CASE CallReplay(c)
    BY <1>1 DEF CallReplay
  <1>2. CASE Abort(c)
    BY <1>2 DEF Abort
  <1>3. CASE Await(c)
    BY <1>3 DEF Await
  <1>4. CASE GiveUp(c)
    BY <1>4 DEF GiveUp, ReceiverLeft
  <1>5. CASE RecvReplayComplete(c)
    BY <1>5 DEF RecvReplayComplete
  <1>6. CASE Cancel(c)
    BY <1>6 DEF Cancel
  <1>7. CASE NewContext(c)
    BY <1>7 DEF NewContext
  <1> QED
    BY <1>1, <1>2, <1>3, <1>4, <1>5, <1>6, <1>7

LEMMA TakeRequestPreserves ==
    ASSUME HandOverInv, TakeRequest
    PROVE  HandOverInv'
  <1>1. HandOverTypeOK /\ AnswersGoToTheirClient /\ OneOfThemWaits /\ NothingIsOpen
    BY DEF HandOverInv
  <1>2. PICK c \in Clients :
            /\ caller[c] = "offer" /\ serving' = c
            /\ caller' = [caller EXCEPT ![c] = "sent"]
    BY DEF TakeRequest
  <1>3. \A d \in Clients : caller[d] \notin {"sent", "await"} /\ receiver[d] = "none"
    BY <1>1, HandOverAssumption DEF TakeRequest, AnswersGoToTheirClient, NothingIsOpen
  <1>4. HandOverTypeOK'
    BY <1>1, <1>2 DEF TakeRequest, HandOverTypeOK
  <1>5. AnswersGoToTheirClient' /\ OneOfThemWaits'
    BY <1>1, <1>2, <1>3 DEF TakeRequest, HandOverTypeOK, AnswersGoToTheirClient, OneOfThemWaits
  <1>6. NothingIsOpen'
    BY DEF TakeRequest, NothingIsOpen
  <1> QED
    BY <1>4, <1>5, <1>6 DEF HandOverInv

LEMMA AnswerClientPreserves ==
    ASSUME HandOverInv, AnswerClient
    PROVE  HandOverInv'
  <1>1. HandOverTypeOK /\ AnswersGoToTheirClient /\ OneOfThemWaits
    BY DEF HandOverInv
  <1>2. PICK answer \in Answers : Deliver(answer)
    BY DEF AnswerClient, Answer
  <1>3. /\ caller' \in [Clients -> {"outside", "offer", "sent", "await"}]
        /\ told' \in [Clients -> Answers \cup {"nothing", "aborted", "in progress", "shutdown"}]
        /\ receiver' \in [Clients -> {"none", "spawned", "receiving"}]
        /\ \A c \in Clients : /\ caller'[c] \in {caller[c], "outside"}
                              /\ receiver'[c] \in {receiver[c], "none"}
        /\ serving \in Clients
        /\ caller'[serving] = "outside" /\ receiver'[serving] = "none"
    BY <1>2, DeliverReleases
  <1>4. HandOverTypeOK'
    BY <1>1, <1>3 DEF AnswerClient, HandOverTypeOK
  <1>5. \A c \in Clients : caller'[c] \notin {"sent", "await"} /\ receiver'[c] = "none"
    BY <1>1, <1>3 DEF AnswersGoToTheirClient
  <1> QED
    BY <1>4, <1>5 DEF AnswerClient, HandOverInv, AnswersGoToTheirClient, OneOfThemWaits, NothingIsOpen

LEMMA RunPreserves ==
    ASSUME HandOverInv, ReplayDone \/ RunEnds
    PROVE  HandOverInv'
  <1>1. HandOverTypeOK /\ AnswersGoToTheirClient /\ OneOfThemWaits
    BY DEF HandOverInv
  <1>2. CASE ReplayDone
    BY <1>1, <1>2 DEF ReplayDone, HandOverInv, HandOverTypeOK, AnswersGoToTheirClient,
                      OneOfThemWaits, NothingIsOpen
  <1>3. CASE RunEnds
    <2>1. /\ caller' \in [Clients -> {"outside", "offer", "sent", "await"}]
          /\ told' \in [Clients -> Answers \cup {"nothing", "aborted", "in progress", "shutdown"}]
          /\ receiver' \in [Clients -> {"none", "spawned", "receiving"}]
          /\ AnswersGoToTheirClient' /\ OneOfThemWaits'
      <3>1. CASE DeliverIfWaiting("aborted")
        BY <1>3, <3>1, AfterDelivery DEF RunEnds
      <3>2. CASE UNCHANGED <<caller, told, receiver>>
        BY <1>1, <1>3, <3>2 DEF RunEnds, HandOverTypeOK, AnswersGoToTheirClient, OneOfThemWaits
      <3> QED
        BY <1>3, <3>1, <3>2 DEF RunEnds
    <2> QED
      BY <1>1, <1>3, <2>1 DEF RunEnds, HandOverInv, HandOverTypeOK, NothingIsOpen
  <1> QED
    BY <1>2, <1>3

LEMMA ClosePreserves ==
    ASSUME HandOverInv, Notify \/ Stop \/ WaitForAll
    PROVE  HandOverInv'
  <1>1. HandOverTypeOK /\ AnswersGoToTheirClient /\ OneOfThemWaits /\ NothingIsOpen
    BY DEF HandOverInv
  <1>2. CASE Notify
    <2>1. /\ caller' \in [Clients -> {"outside", "offer", "sent", "await"}]
          /\ told' \in [Clients -> Answers \cup {"nothing", "aborted", "in progress", "shutdown"}]
          /\ receiver' \in [Clients -> {"none", "spawned", "receiving"}]
          /\ AnswersGoToTheirClient' /\ OneOfThemWaits'
      BY <1>2, AfterDelivery DEF Notify
    <2> QED
      BY <1>1, <1>2, <2>1 DEF Notify, HandOverInv, HandOverTypeOK, NothingIsOpen
  <1>3. CASE Stop \/ WaitForAll
    BY <1>1, <1>3 DEF Stop, WaitForAll, HandOverInv, HandOverTypeOK, AnswersGoToTheirClient,
                      OneOfThemWaits, NothingIsOpen
  <1> QED
    BY <1>2, <1>3

LEMMA StepHandOverInv == HandOverInv /\ [HandOverNext]_handOverVars => HandOverInv'
  <1> SUFFICES ASSUME HandOverInv, [HandOverNext]_handOverVars PROVE HandOverInv'
    OBVIOUS
  <1>1. CASE UNCHANGED handOverVars
    BY <1>1 DEF handOverVars, HandOverInv, HandOverTypeOK, AnswersGoToTheirClient,
                OneOfThemWaits, NothingIsOpen
  <1> QED
    BY <1>1, ClientPreserves, TakeRequestPreserves, AnswerClientPreserves, RunPreserves,
       ClosePreserves DEF HandOverNext

(* Although the channel replayComplete does not name its client, an answer, an abort and
   a shutdown message are received by nobody but the client whose request run() has
   taken, or by the goroutine that this client left: for any number of clients that
   call, give up and call again, and a Close at any time. *)
THEOREM AnswersGoToTheirClientHolds == HandOverSpec => []AnswersGoToTheirClient
  <1>1. HandOverInv => AnswersGoToTheirClient
    BY DEF HandOverInv
  <1> QED
    BY <1>1, InitHandOverInv, StepHandOverInv, PTL DEF HandOverSpec

----------------------------------------------------------------------------
(* The types of all three. *)

(* What the invariant of a subscription leaves open of its types. *)
ResultsAreBounded ==
    source.sent <= MaxResults /\ held <= source.sent /\ unSub \in BOOLEAN /\ done \in BOOLEAN

LEMMA ResultsStayBounded ==
    ASSUME SubTypeInv, ResultsAreBounded, [SubNext]_subVars
    PROVE  ResultsAreBounded'
<1>1. source \in Source /\ held \in Nat /\ MaxResults \in Nat
  BY SubscriptionAssumption DEF SubTypeInv
<1>2. CASE UNCHANGED subVars
  BY <1>2 DEF subVars, ResultsAreBounded
<1>3. CASE TakeResult
  <2>1. source'.sent = source.sent + 1 /\ source.sent \in Nat /\ source.sent < MaxResults
    BY <1>1, <1>3 DEF TakeResult, Source
  <2>2. held' = source.sent + 1 \/ held' = held
    BY <1>3 DEF TakeResult, HandleError
  <2> QED
    BY <1>1, <1>3, <2>1, <2>2 DEF ResultsAreBounded, TakeResult
<1>4. CASE EndOrDeliver
  <2>1. source'.sent = source.sent /\ (held' = held \/ held' = 0) /\ unSub' \in BOOLEAN /\ done' \in BOOLEAN
    BY <1>1, <1>4 DEF EndOrDeliver, TakeError, Send, TakeUnsubscribe, ReleaseSource, CloseDone, CloseErr,
                      ReleasedSource, HandleError, Source, ResultsAreBounded
  <2>2. source.sent \in Nat
    BY <1>1 DEF Source
  <2> QED
    BY <1>1, <2>1, <2>2 DEF ResultsAreBounded
<1>5. CASE SourceFails \/ ReadError \/ StopReading \/ \E s \in Subscribers : Unsubscribe(s) \/ UnsubscribeReturn(s)
  <2>1. source'.sent = source.sent /\ held' = held /\ done' = done /\ (unSub' = unSub \/ unSub' = TRUE)
    BY <1>1, <1>5 DEF SourceFails, ReadError, StopReading, Unsubscribe, UnsubscribeReturn, Source
  <2> QED
    BY <2>1 DEF ResultsAreBounded
<1> QED
  BY <1>2, <1>3, <1>4, <1>5 DEF SubNext, ForwardLoop

LEMMA SubscriptionTypes ==
    ASSUME SubInv, ResultsAreBounded
    PROVE  SubTypeOK
<1>1. SubTypeInv /\ MaxResults \in Nat /\ source \in Source /\ consumer \in Consumer /\ held \in Nat
  BY SubscriptionAssumption DEF SubInv, SubTypeInv
<1>2. source.sent \in 0..MaxResults /\ held \in 0..MaxResults /\ source.unsubscribed \in 0..1
  <2>1. source.sent \in Nat
    BY <1>1 DEF Source
  <2>2. source.unsubscribed = 0 \/ source.unsubscribed = 1
    BY DEF SubInv, ReleasedOnce
  <2> QED
    BY <1>1, <2>1, <2>2 DEF ResultsAreBounded
<1>3. consumer.given \in Seq(1..MaxResults)
  <2> DEFINE given == consumer.given
  <2>1. given \in Seq(Nat) /\ Len(given) \in Nat
    BY <1>1 DEF Consumer
  <2>2. given = [i \in 1..Len(given) |-> i] /\ source.sent - Len(given) \in {0, 1}
    BY DEF SubInv, DeliveredInOrder
  <2>3. Len(given) <= MaxResults
    BY <1>1, <1>2, <2>1, <2>2
  <2> HIDE DEF given
  <2>4. \A i \in 1..Len(given) : given[i] \in 1..MaxResults
    BY <1>1, <2>1, <2>2, <2>3
  <2>5. given \in [1..Len(given) -> 1..MaxResults]
    BY <2>1, <2>2, <2>4
  <2>6. given \in Seq(1..MaxResults)
    <3> DEFINE n == Len(given)
               S == 1..MaxResults
    <3>1. n \in Nat /\ given \in [1..n -> S]
      BY <2>1, <2>5
    <3> HIDE DEF n, S
    <3>2. given \in UNION {[1..i -> S] : i \in Nat}
      BY <3>1
    <3> QED
      BY <3>2, SeqDef, Zenon DEF S
  <2> QED
    BY <2>6 DEF given
<1> QED
  BY <1>1, <1>2, <1>3 DEF SubTypeOK, SubTypeInv, Source, Consumer, Errors, Places, ResultsAreBounded

(* The flags, counts and places of the transaction manager's life, of a subscription and
   of the replays' hand-over have the types the code gives them, side by side as alone. *)
THEOREM ServicesTypeCorrect == ServicesSpec => []ServicesTypeOK
<1> DEFINE Inv == LifecycleInv /\ SubInv /\ ResultsAreBounded /\ HandOverInv
<1>1. ServicesInit => Inv
  <2>1. SubInit => ResultsAreBounded
    <3> SUFFICES ASSUME SubInit PROVE ResultsAreBounded
      OBVIOUS
    <3>1. source.sent = 0 /\ held = 0
      BY DEF SubInit
    <3>2. unSub = FALSE /\ done = FALSE
      BY DEF SubInit
    <3>3. source.sent <= MaxResults /\ held <= source.sent
      BY <3>1, SubscriptionAssumption
    <3> QED
      BY <3>1, <3>2, <3>3, Zenon DEF ResultsAreBounded
  <2> QED
    BY <2>1, LifecycleInit, InitSubInv, InitHandOverInv DEF ServicesInit
<1>2. Inv /\ [ServicesNext]_services => Inv'
  <2> SUFFICES ASSUME Inv, [ServicesNext]_services PROVE Inv'
    OBVIOUS
  <2>1. [Next]_vars /\ [SubNext]_subVars /\ [HandOverNext]_handOverVars
    BY DEF ServicesNext, services
  <2>2. SubTypeInv
    BY DEF SubInv
  <2> QED
    BY <2>1, <2>2, LifecycleStep, StepSubInv, ResultsStayBounded, StepHandOverInv
<1>3. Inv => ServicesTypeOK
  BY SubscriptionTypes DEF ServicesTypeOK, LifecycleInv, HandOverInv
<1> QED
  BY <1>1, <1>2, <1>3, PTL DEF ServicesSpec
===============================================================================

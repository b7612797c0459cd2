---------------------------- MODULE TxmLifecycle ----------------------------
(* How the transaction manager of pkg/txm starts, is woken up and stops, for one
   address: Start, Close and Trigger around the lock of services.StateMachine, the
   channel of Trigger, the retries of initializeNonce, and the two loops as far as
   they take part in this.  What a round of the loops does is the module Txm.

   An operator marked "faulty" is a plausible mistake in the operator after it.
   Nothing uses it; the mutants of the project put it in that operator's place. *)
EXTENDS Naturals

CONSTANTS
    Callers,          \* goroutines that create one transaction each and call Trigger
    MaxOutages,       \* bound: how often the RPC stops to answer
    MaxTimeouts       \* bound: 1 if pendingNonceDefaultTimeout may pass, else 0

ASSUME LifecycleAssumption ==
    /\ Callers \cap {"broadcast", "backfill", "starter", "closer"} = {}
    /\ MaxOutages \in Nat /\ MaxTimeouts \in Nat

VARIABLES
    state,            \* of the StateMachine
    locked,           \* whether Start or Close holds its lock
    pc,               \* where each goroutine is
    triggerCh,        \* messages in the channel of Trigger: 0 or 1
    stopCh,           \* whether it is closed
    nonceKnown,       \* whether nonceMap has the address
    queue,            \* the transactions no broadcast round has taken yet
    rpcUp, outages,   \* external: the RPC
    timeouts          \* whether the context of initializeNonce has expired

service == <<state, locked, triggerCh, stopCh, nonceKnown, queue>>
rpc     == <<rpcUp, outages, timeouts>>
vars    == <<service, pc, rpc>>

Loops   == {"broadcast", "backfill"}
Threads == Callers \cup Loops \cup {"starter", "closer"}

Labels  == {"none", "idle", "trigger", "send", "addresses", "initialize", "round",
            "returned", "select", "wait", "lock", "exited", "done"}

Goto(th, label) == pc' = [pc EXCEPT ![th] = label]

Init ==
    /\ state = "unstarted" /\ locked = FALSE
    /\ pc = [th \in Threads |-> IF th \in Loops THEN "none" ELSE "idle"]
    /\ triggerCh = 0 /\ stopCh = FALSE /\ nonceKnown = FALSE /\ queue = {}
    /\ rpcUp = TRUE /\ outages = 0 /\ timeouts = 0

----------------------------------------------------------------------------
(* Start. *)

StartOnce ==
    /\ state = "unstarted"
    /\ state' = "starting" /\ locked' = TRUE
    /\ Goto("starter", "addresses")
    /\ UNCHANGED <<triggerCh, stopCh, nonceKnown, queue, rpc>>

(* The keystore may fail; nothing runs then. *)
StartAddress ==
    /\ pc["starter"] = "addresses"
    /\ \/ /\ state' = "started"
          /\ pc' = [pc EXCEPT !["starter"] = "done", !["broadcast"] = "initialize",
                              !["backfill"] = "wait"]
       \/ /\ state' = "failed"
          /\ Goto("starter", "done")
    /\ locked' = FALSE
    /\ UNCHANGED <<triggerCh, stopCh, nonceKnown, queue, rpc>>

----------------------------------------------------------------------------
(* A caller creates a transaction, then calls Trigger.  The read lock of IfStarted
   is not given while Start or Close has the lock or Close waits for it, and is
   held until the channel has room. *)

CreateTransaction(c) ==
    /\ pc[c] = "idle"
    /\ queue' = queue \cup {c}
    /\ Goto(c, "trigger")
    /\ UNCHANGED <<state, locked, triggerCh, stopCh, nonceKnown, rpc>>

IfStarted(c) ==
    /\ pc[c] = "trigger" /\ ~locked /\ pc["closer"] # "lock"
    /\ Goto(c, IF state = "started" THEN "send" ELSE "done")
    /\ UNCHANGED <<service, rpc>>

Unbounded == TRUE                                                  \* faulty
HasRoom == triggerCh = 0

OnlyIfWaiting == IF pc["broadcast"] = "select" THEN 1 ELSE 0       \* faulty
Buffered == triggerCh + 1

Trigger(c) ==
    /\ pc[c] = "send" /\ HasRoom
    /\ triggerCh' = Buffered
    /\ Goto(c, "done")
    /\ UNCHANGED <<state, locked, stopCh, nonceKnown, queue, rpc>>

----------------------------------------------------------------------------
(* Close. *)

StopOnce ==
    /\ pc["closer"] = "idle" /\ state = "started"
    /\ state' = "stopping"
    /\ Goto("closer", "lock")
    /\ UNCHANGED <<locked, triggerCh, stopCh, nonceKnown, queue, rpc>>

Close ==
    /\ pc["closer"] = "lock" /\ ~locked /\ \A c \in Callers : pc[c] # "send"
    /\ locked' = TRUE /\ stopCh' = TRUE
    /\ Goto("closer", "wait")
    /\ UNCHANGED <<state, triggerCh, nonceKnown, queue, rpc>>

NoWait == TRUE                                                     \* faulty
AllExited == \A loop \in Loops : pc[loop] = "exited"

Wait ==
    /\ pc["closer"] = "wait" /\ AllExited
    /\ state' = "stopped" /\ locked' = FALSE
    /\ Goto("closer", "done")
    /\ UNCHANGED <<triggerCh, stopCh, nonceKnown, queue, rpc>>

----------------------------------------------------------------------------
(* initializeNonce: one deadline for all the retries, which only stop with stopCh.
   The loop then goes on to a round in either case. *)

Forever == FALSE                                                   \* faulty
GivesUp == TRUE                                                    \* faulty
Canceled == stopCh

InitializeNonce ==
    /\ pc["broadcast"] = "initialize"
    /\ \/ /\ rpcUp /\ timeouts = 0 /\ ~stopCh
          /\ nonceKnown' = TRUE
          /\ Goto("broadcast", "round")
       \/ /\ Canceled
          /\ Goto("broadcast", "round")
          /\ UNCHANGED nonceKnown
    /\ UNCHANGED <<state, locked, triggerCh, stopCh, queue, rpc>>

(* A round takes the transactions one by one, and ends when none is left or after one
   it could not send: the RPC is down or the context done. *)
TakeTransaction ==
    /\ pc["broadcast"] = "round"
    /\ \E c \in queue : queue' = queue \ {c}
    /\ Goto("broadcast", IF rpcUp /\ ~stopCh THEN "round" ELSE "returned")
    /\ UNCHANGED <<state, locked, triggerCh, stopCh, nonceKnown, rpc>>

NoTransaction ==
    /\ pc["broadcast"] = "round" /\ queue = {}
    /\ Goto("broadcast", "returned")
    /\ UNCHANGED <<service, rpc>>

StartSelect ==
    /\ pc["broadcast"] = "returned"
    /\ Goto("broadcast", "select")
    /\ UNCHANGED <<service, rpc>>

BroadcastTransaction == TakeTransaction \/ NoTransaction \/ StartSelect

BroadcastTriggered ==
    /\ pc["broadcast"] = "select" /\ triggerCh = 1
    /\ triggerCh' = 0
    /\ Goto("broadcast", "round")
    /\ UNCHANGED <<state, locked, stopCh, nonceKnown, queue, rpc>>

BroadcastTimer ==
    /\ pc["broadcast"] = "select"
    /\ Goto("broadcast", "round")
    /\ UNCHANGED <<service, rpc>>

BackfillTransactions ==
    /\ \/ pc["backfill"] = "wait" /\ Goto("backfill", "round")
       \/ pc["backfill"] = "round" /\ Goto("backfill", "wait")
    /\ UNCHANGED <<service, rpc>>

Exit(loop) ==
    /\ stopCh
    /\ pc[loop] = (IF loop = "broadcast" THEN "select" ELSE "wait")
    /\ Goto(loop, "exited")
    /\ UNCHANGED <<service, rpc>>

----------------------------------------------------------------------------
(* External: the RPC fails and recovers, time passes. *)

Outage ==
    /\ rpcUp /\ outages < MaxOutages
    /\ rpcUp' = FALSE /\ outages' = outages + 1
    /\ UNCHANGED <<service, pc, timeouts>>

Recover ==
    /\ ~rpcUp /\ rpcUp' = TRUE
    /\ UNCHANGED <<service, pc, outages, timeouts>>

Timeout ==
    /\ pc["broadcast"] = "initialize" /\ ~rpcUp
    /\ timeouts < MaxTimeouts /\ timeouts' = timeouts + 1
    /\ UNCHANGED <<service, pc, rpcUp, outages>>

Caller(c) == CreateTransaction(c) \/ IfStarted(c) \/ Trigger(c)
Broadcast == InitializeNonce \/ BroadcastTransaction \/ BroadcastTriggered \/ Exit("broadcast")
Backfill  == BackfillTransactions \/ Exit("backfill")

Next ==
    \/ StartOnce \/ StartAddress
    \/ \E c \in Callers : Caller(c)
    \/ StopOnce \/ Close \/ Wait
    \/ Broadcast \/ BroadcastTimer \/ Backfill
    \/ Outage \/ Recover \/ Timeout

Spec == Init /\ [][Next]_vars

(* Goroutines run, the RPC recovers, and a select, which chooses at random, ignores
   neither a message nor a closed channel for ever.  Nothing obliges the timers: a
   transaction does not have to wait for one.  Nothing obliges anybody to start or to stop the service. *)
Fairness ==
    /\ WF_vars(StartAddress) /\ WF_vars(Recover)
    /\ \A c \in Callers : WF_vars(IfStarted(c) \/ Trigger(c))
    /\ WF_vars(Close \/ Wait)
    /\ WF_vars(InitializeNonce \/ BroadcastTransaction) /\ SF_vars(BroadcastTriggered)
    /\ WF_vars(BackfillTransactions)
    /\ \A loop \in Loops : SF_vars(Exit(loop))

FairSpec == Spec /\ Fairness

----------------------------------------------------------------------------
(* Properties. *)

FlagsTyped ==
    /\ state \in {"unstarted", "starting", "started", "failed", "stopping", "stopped"}
    /\ {locked, stopCh, nonceKnown, rpcUp} \subseteq BOOLEAN

CountsTyped ==
    /\ outages \in 0..MaxOutages /\ timeouts \in 0..MaxTimeouts
    /\ triggerCh \in 0..1 /\ queue \subseteq Callers

(* Every variable has its type; the channel never holds more than its capacity. *)
TypeOK == FlagsTyped /\ CountsTyped /\ pc \in [Threads -> Labels]

(* When Close returns nothing of the service runs any more, and no caller is left
   in Trigger with the lock. *)
QuietAfterStop ==
    state = "stopped" =>
        /\ \A loop \in Loops : pc[loop] = "exited"
        /\ \A c \in Callers : pc[c] # "send"

(* No transaction is given a nonce before the initial nonce is known, but for the
   last round when the service is stopped before that. *)
NonceBeforeRounds ==
    pc["broadcast"] \in {"round", "returned", "select"} => nonceKnown \/ stopCh

(* Close returns: callers blocked in Trigger, an RPC that is down and the retries of
   the initial nonce delay it, but the goroutines never wait for each other.  The
   exception: after the deadline of initializeNonce nothing empties the channel, a
   second Trigger keeps the read lock for ever, and Close never gets the lock. *)
CloseCompletes == state = "stopping" ~> state = "stopped" \/ timeouts > 0

(* No lost wake-up: a transaction created before, during or after any round is taken
   by a round without the help of the timer. *)
TriggerSuffices ==
    \A c \in Callers :
        c \in queue /\ state = "started"
            ~> c \notin queue \/ state # "started" \/ outages > 0

(* "retries if initial pending nonce call fails" (TestLifecycle): a started service
   ends up with its nonce. *)
NonceIsFound == state = "started" ~> nonceKnown \/ state # "started"
=============================================================================

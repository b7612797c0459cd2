---------------------------- MODULE Subscription ----------------------------
(* The subForwarder of pkg/client: the goroutine of forwardLoop between a node's
   subscription and the channel of a consumer, and those who call Unsubscribe: the
   consumer, and the client when it closes or leaves the node.  The node's
   subscription and the consumer, which may stop reading at any time, are external.

   The results are numbered in the order in which the node sends them.

   An operator marked "faulty" is a plausible mistake in the operator after it. *)
EXTENDS Integers, Sequences

CONSTANTS
    Subscribers,             \* those who may call Unsubscribe
    MaxResults               \* bound on what the node sends

ASSUME SubscriptionAssumption == MaxResults \in Nat

VARIABLES
    loop,                    \* where forwardLoop is
    held,                    \* the result it has taken and not delivered, 0 for none
    unSub, done,             \* whether the channel unSub has its element, done is closed
    errCh,                   \* the channel err: what it holds, whether it is closed
    unsubscriber,            \* where each caller of Unsubscribe is
    source,                  \* external: what was sent, its error, its subscription
    consumer                 \* external: what it was given, whether it still reads

subVars == <<loop, held, unSub, done, errCh, unsubscriber, source, consumer>>

SubInit ==
    /\ loop = "select" /\ held = 0 /\ unSub = FALSE /\ done = FALSE
    /\ errCh = [holds |-> "nothing", closed |-> FALSE]
    /\ unsubscriber = [s \in Subscribers |-> "idle"]
    /\ source = [sent |-> 0, error |-> "none", unsubscribed |-> 0]
    /\ consumer = [given |-> <<>>, reads |-> TRUE, error |-> "nothing"]

----------------------------------------------------------------------------
(* forwardLoop. *)

ReleasedSource == [source EXCEPT !.unsubscribed = @ + 1]

(* handleError: err has room for the one error that is ever written. *)
Silently(error) == loop' = "release" /\ UNCHANGED errCh             \* faulty
HandleError(error) ==
    /\ errCh' = [errCh EXCEPT !.holds = error]
    /\ loop' = "release"

TakeError ==
    /\ loop = "select" /\ source.error = "pending"
    /\ source' = [source EXCEPT !.error = "taken"]
    /\ HandleError("source")
    /\ UNCHANGED <<held, unSub, done, unsubscriber, consumer>>

TakingPoints == {"select"}

TakeResult ==
    /\ loop \in TakingPoints
    /\ source.sent < MaxResults /\ source.unsubscribed = 0
    /\ source' = [source EXCEPT !.sent = @ + 1]
    /\ \/ /\ loop' = "send" /\ held' = source.sent + 1
          /\ UNCHANGED errCh
       \/ HandleError("intercept") /\ UNCHANGED held      \* interceptResult fails
    /\ UNCHANGED <<unSub, done, unsubscriber, consumer>>

Send ==
    /\ loop = "send" /\ consumer.reads
    /\ consumer' = [consumer EXCEPT !.given = Append(@, held)]
    /\ loop' = "select" /\ held' = 0
    /\ UNCHANGED <<unSub, done, errCh, unsubscriber, source>>

OnlyBetweenResults == {"select"}                                   \* faulty
UnsubscribePoints == {"select", "send"}

TakeUnsubscribe ==
    /\ loop \in UnsubscribePoints /\ unSub
    /\ unSub' = FALSE /\ held' = 0
    /\ source' = ReleasedSource
    /\ loop' = "closeDone"
    /\ UNCHANGED <<done, errCh, unsubscriber, consumer>>

(* The rest of handleError. *)
ReleaseSource ==
    /\ loop = "release"
    /\ source' = ReleasedSource
    /\ loop' = "closeDone"
    /\ UNCHANGED <<held, unSub, done, errCh, unsubscriber, consumer>>

(* The deferred calls. *)
CloseDone ==
    /\ loop = "closeDone"
    /\ done' = TRUE /\ loop' = "closeErr"
    /\ UNCHANGED <<held, unSub, errCh, unsubscriber, source, consumer>>

CloseErr ==
    /\ loop = "closeErr"
    /\ errCh' = [errCh EXCEPT !.closed = TRUE] /\ loop' = "ended"
    /\ UNCHANGED <<held, unSub, done, unsubscriber, source, consumer>>

EndOrDeliver ==
    \/ TakeError \/ Send \/ TakeUnsubscribe
    \/ ReleaseSource \/ CloseDone \/ CloseErr
ForwardLoop == TakeResult \/ EndOrDeliver

----------------------------------------------------------------------------
(* Unsubscribe: the send that finds the channel full is "already triggered". *)
Unsubscribe(s) ==
    /\ unsubscriber[s] = "idle"
    /\ unSub' = TRUE
    /\ unsubscriber' = [unsubscriber EXCEPT ![s] = "waiting"]
    /\ UNCHANGED <<loop, held, done, errCh, source, consumer>>

DoNotWait == TRUE                                                  \* faulty
LoopIsDone == done

UnsubscribeReturn(s) ==
    /\ unsubscriber[s] = "waiting" /\ LoopIsDone
    /\ unsubscriber' = [unsubscriber EXCEPT ![s] = "returned"]
    /\ UNCHANGED <<loop, held, unSub, done, errCh, source, consumer>>

----------------------------------------------------------------------------
(* External: the node's subscription fails; the consumer reads the error, or stops
   reading results. *)
SourceFails ==
    /\ source.error = "none" /\ source.unsubscribed = 0
    /\ source' = [source EXCEPT !.error = "pending"]
    /\ UNCHANGED <<loop, held, unSub, done, errCh, unsubscriber, consumer>>

ReadError ==
    /\ errCh.holds # "nothing"
    /\ consumer' = [consumer EXCEPT !.error = errCh.holds]
    /\ errCh' = [errCh EXCEPT !.holds = "nothing"]
    /\ UNCHANGED <<loop, held, unSub, done, unsubscriber, source>>

StopReading ==
    /\ consumer.reads
    /\ consumer' = [consumer EXCEPT !.reads = FALSE]
    /\ UNCHANGED <<loop, held, unSub, done, errCh, unsubscriber, source>>

SubNext ==
    \/ ForwardLoop
    \/ \E s \in Subscribers : Unsubscribe(s) \/ UnsubscribeReturn(s)
    \/ SourceFails \/ ReadError \/ StopReading

SubSpec == SubInit /\ [][SubNext]_subVars

(* The goroutines of the loop and of a caller run; a select that has an element of
   unSub or an error to take over and over does not pass it by for ever.  The node
   need not send anything. *)
SubFairness ==
    /\ WF_subVars(EndOrDeliver)
    /\ SF_subVars(TakeError) /\ SF_subVars(TakeUnsubscribe)
    /\ \A s \in Subscribers : WF_subVars(UnsubscribeReturn(s))

----------------------------------------------------------------------------
(* Properties. *)

(* Every variable has the shape the code's types give it. *)
SubTypeOK ==
    /\ loop \in {"select", "send", "release", "closeDone", "closeErr", "ended"}
    /\ held \in 0..MaxResults /\ unSub \in BOOLEAN /\ done \in BOOLEAN
    /\ errCh \in [holds : {"nothing", "source", "intercept"}, closed : BOOLEAN]
    /\ unsubscriber \in [Subscribers -> {"idle", "waiting", "returned"}]
    /\ source \in [sent : 0..MaxResults, error : {"none", "pending", "taken"},
                   unsubscribed : 0..1]
    /\ consumer.given \in Seq(1..MaxResults) /\ consumer.reads \in BOOLEAN
    /\ consumer.error \in {"nothing", "source", "intercept"}

(* The consumer gets what the node sends, in its order, each once and none left out,
   but for the last, which it may miss when the subscription ends. *)
DeliveredInOrder ==
    /\ consumer.given = [i \in 1..Len(consumer.given) |-> i]
    /\ source.sent - Len(consumer.given) \in
         IF loop = "select" THEN {0} ELSE IF loop = "send" THEN {1} ELSE {0, 1}

(* "wait for forwardLoop to complete": once a call of Unsubscribe has returned, by
   whomever, the node's subscription is released, once, and nothing is delivered. *)
QuietAfterUnsubscribe ==
    [][\A s \in Subscribers :
         unsubscriber[s] = "returned" =>
             consumer'.given = consumer.given /\ source'.unsubscribed = 1]_subVars

(* The error channel is closed only after the error of the node or of
   interceptResult was put in it, so that a consumer which reads it to its end
   learns why the subscription ended. *)
ErrorIsNotLost ==
    errCh.closed /\ source.error = "taken" => "source" \in {errCh.holds, consumer.error}

(* No call of Unsubscribe hangs, also when nobody reads what the loop holds. *)
UnsubscribeReturns ==
    \A s \in Subscribers : (unsubscriber[s] = "waiting") ~> (unsubscriber[s] = "returned")

(* An error of the node ends the subscription, unless the loop waits for a consumer
   that has stopped reading: it does not look at the node's error then. *)
FailureEndsTheSubscription ==
    (source.error = "pending") ~> (errCh.closed \/ (loop = "send" /\ ~consumer.reads))

(* Neither results nor the reason of the end are lost. *)
NothingIsLost == DeliveredInOrder /\ ErrorIsNotLost

(* From either side, a subscription that is to end does end. *)
SubscriptionEnds == UnsubscribeReturns /\ FailureEndsTheSubscription
=============================================================================

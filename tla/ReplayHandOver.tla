---------------------------- MODULE ReplayHandOver ----------------------------
(* How the log poller takes the replays of its clients and how it shuts down: the
   two unbuffered channels between Replay and run(), the goroutine that a client
   leaves behind when its context ends, and Close, which waits for all of them.
   What a replay does is the subject of LogPoller.

   The clients of ReplayAsync have the stop channel for a context.

   An operator marked "faulty" is a plausible mistake in the operator after it. *)
CONSTANTS Clients, AsyncClients, NoClient

ASSUME HandOverAssumption == AsyncClients \subseteq Clients /\ NoClient \notin Clients

VARIABLES
    caller,                  \* where each client is in Replay
    told,                    \* what its last call returned
    cancelled,               \* the clients whose own context is done
    receiver,                \* recvReplayComplete of each client
    runLoop, serving,        \* where run() is, and whose request it handles
    closer                   \* where Close is

handOverVars == <<caller, told, cancelled, receiver, runLoop, serving, closer>>

Answers == {"nil", "error"}

HandOverInit ==
    /\ caller = [c \in Clients |-> "outside"]
    /\ told = [c \in Clients |-> "nothing"]
    /\ cancelled = {}
    /\ receiver = [c \in Clients |-> "none"]
    /\ runLoop = "select" /\ serving = NoClient
    /\ closer = "open"

Stopped == closer \in {"waiting", "closed"}                 \* stopCh is closed
ContextDone(c) == IF c \in AsyncClients THEN Stopped ELSE c \in cancelled

(* Who waits for an element of replayComplete. *)
Waiting == {c \in Clients : caller[c] = "await" \/ receiver[c] = "receiving"}

(* The send that some client or its receiver takes. *)
Deliver(value) ==
    \E c \in Waiting :
        IF receiver[c] = "receiving"
          THEN /\ receiver' = [receiver EXCEPT ![c] = "none"]
               /\ UNCHANGED <<caller, told>>
          ELSE /\ caller' = [caller EXCEPT ![c] = "outside"]
               /\ told' = [told EXCEPT ![c] = value]
               /\ UNCHANGED receiver

(* A select with the send and a default. *)
DeliverIfWaiting(value) ==
    IF Waiting # {} THEN Deliver(value) ELSE UNCHANGED <<caller, told, receiver>>

----------------------------------------------------------------------------
(* Replay, after its backfill; ReplayAsync. *)

CallReplay(c) ==
    /\ caller[c] = "outside" /\ receiver[c] = "none"
    /\ caller' = [caller EXCEPT ![c] = "offer"]
    /\ told' = [told EXCEPT ![c] = "nothing"]
    /\ UNCHANGED <<cancelled, receiver, runLoop, serving, closer>>

Abort(c) ==
    /\ caller[c] = "offer" /\ ContextDone(c)
    /\ caller' = [caller EXCEPT ![c] = "outside"]
    /\ told' = [told EXCEPT ![c] = "aborted"]
    /\ UNCHANGED <<cancelled, receiver, runLoop, serving, closer>>

Await(c) ==
    /\ caller[c] = "sent"
    /\ caller' = [caller EXCEPT ![c] = "await"]
    /\ UNCHANGED <<told, cancelled, receiver, runLoop, serving, closer>>

NobodyLeft(c) == receiver                                          \* faulty
ReceiverLeft(c) == [receiver EXCEPT ![c] = "spawned"]

GiveUp(c) ==
    /\ caller[c] = "await" /\ ContextDone(c)
    /\ caller' = [caller EXCEPT ![c] = "outside"]
    /\ told' = [told EXCEPT ![c] = "in progress"]
    /\ receiver' = ReceiverLeft(c)
    /\ UNCHANGED <<cancelled, runLoop, serving, closer>>

RecvReplayComplete(c) ==
    /\ receiver[c] = "spawned"
    /\ receiver' = [receiver EXCEPT ![c] = "receiving"]
    /\ UNCHANGED <<caller, told, cancelled, runLoop, serving, closer>>

(* External: the client's context ends, or a later call has a new one. *)
Cancel(c) ==
    /\ c \notin cancelled \cup AsyncClients
    /\ cancelled' = cancelled \cup {c}
    /\ UNCHANGED <<caller, told, receiver, runLoop, serving, closer>>

NewContext(c) ==
    /\ c \in cancelled /\ caller[c] = "outside"
    /\ cancelled' = cancelled \ {c}
    /\ UNCHANGED <<caller, told, receiver, runLoop, serving, closer>>

----------------------------------------------------------------------------
(* run() and handleReplayRequest. *)

TakeRequest ==
    /\ runLoop = "select"
    /\ \E c \in Clients :
         /\ caller[c] = "offer"
         /\ caller' = [caller EXCEPT ![c] = "sent"]
         /\ serving' = c
    /\ runLoop' = "replaying"
    /\ UNCHANGED <<told, cancelled, receiver, closer>>

ReplayDone ==
    /\ runLoop = "replaying"
    /\ runLoop' = "answer"
    /\ UNCHANGED <<caller, told, cancelled, receiver, serving, closer>>

AnswerOrGoOn(answer) == DeliverIfWaiting(answer)                    \* faulty
Answer(answer) == Deliver(answer)

AnswerClient ==
    /\ runLoop = "answer"
    /\ \E answer \in Answers : Answer(answer)
    /\ runLoop' = "select" /\ serving' = NoClient
    /\ UNCHANGED <<cancelled, closer>>

StopPoints == {"select", "answer"}

RunEnds ==
    /\ runLoop \in StopPoints /\ Stopped
    /\ IF runLoop = "answer" THEN DeliverIfWaiting("aborted")
                             ELSE UNCHANGED <<caller, told, receiver>>
    /\ runLoop' = "ended"
    /\ UNCHANGED <<cancelled, serving, closer>>

----------------------------------------------------------------------------
(* Close: the notification, the stop channel, the wait for the goroutines. *)

Notify ==
    /\ closer = "open"
    /\ DeliverIfWaiting("shutdown")
    /\ closer' = "notified"
    /\ UNCHANGED <<cancelled, runLoop, serving>>

Stop ==
    /\ closer = "notified"
    /\ closer' = "waiting"
    /\ UNCHANGED <<caller, told, cancelled, receiver, runLoop, serving>>

WaitForAll ==
    /\ closer = "waiting" /\ runLoop = "ended"
    /\ \A c \in Clients : receiver[c] = "none"
    /\ \A c \in AsyncClients : caller[c] = "outside"
    /\ closer' = "closed"
    /\ UNCHANGED <<caller, told, cancelled, receiver, runLoop, serving>>

HandOverNext ==
    \/ \E c \in Clients : \/ CallReplay(c) \/ Abort(c) \/ Await(c) \/ GiveUp(c)
                          \/ RecvReplayComplete(c) \/ Cancel(c) \/ NewContext(c)
    \/ TakeRequest \/ ReplayDone \/ AnswerClient \/ RunEnds
    \/ Notify \/ Stop \/ WaitForAll

HandOverSpec == HandOverInit /\ [][HandOverNext]_handOverVars

(* The goroutines run; run() does not pass by a stop channel that is closed for ever,
   and a WaitGroup wakes Close whenever it gets to zero.  Nobody need call, cancel or
   close. *)
HandOverFairness ==
    /\ \A c \in Clients : /\ WF_handOverVars(Abort(c) \/ Await(c) \/ GiveUp(c))
                          /\ WF_handOverVars(RecvReplayComplete(c))
    /\ WF_handOverVars(ReplayDone \/ AnswerClient) /\ SF_handOverVars(RunEnds)
    /\ WF_handOverVars(Stop) /\ SF_handOverVars(WaitForAll)

----------------------------------------------------------------------------
(* Properties. *)

(* Every variable has the shape the code's types give it. *)
HandOverTypeOK ==
    /\ caller \in [Clients -> {"outside", "offer", "sent", "await"}]
    /\ told \in [Clients -> Answers \cup {"nothing", "aborted", "in progress", "shutdown"}]
    /\ cancelled \subseteq Clients \ AsyncClients
    /\ receiver \in [Clients -> {"none", "spawned", "receiving"}]
    /\ runLoop \in {"select", "replaying", "answer", "ended"}
    /\ serving \in Clients \cup {NoClient}
    /\ closer \in {"open", "notified", "waiting", "closed"}

(* The channel replayComplete does not say whose answer it carries: nobody but the
   client whose request was taken, or the goroutine it left, waits for it, however
   clients call, give up and call again. *)
AnswersGoToTheirClient ==
    \A c \in Clients :
        caller[c] \in {"sent", "await"} \/ receiver[c] # "none" => serving = c

(* "Main lp.run() loop shouldn't get stuck if client aborts"
   (log_poller_internal_test.go). *)
RunIsNotStuck == (runLoop = "answer") ~> (runLoop # "answer")

(* Close returns, unless a client gave up after both of the messages that Close and
   run() send at shutdown had found nobody waiting: then the goroutine it left waits
   for ever, and Close for it. *)
CloseReturns ==
    (closer = "notified") ~>
        (closer = "closed" \/ (runLoop = "ended" /\ \E c \in Clients : receiver[c] = "receiving"))

(* Neither a client that leaves nor the shutdown leaves the other goroutines waiting. *)
NobodyIsLeftWaiting == RunIsNotStuck /\ CloseReturns
=============================================================================

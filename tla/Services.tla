------------------------------- MODULE Services -------------------------------
(* The three places where goroutines hand over to each other and must come to an end:
   the life of the transaction manager, a subscription, and the replays and shutdown of
   the log poller.  They share no state, and are checked side by side: in a behaviour
   one of them is awake from the start and takes its steps, and the others stay as they
   are.  What each can do is what it can do alone, since no step of one reads a variable
   of another. *)
EXTENDS TxmLifecycle, Subscription, ReplayHandOver

VARIABLE awake               \* the component whose steps are taken

services == <<vars, subVars, handOverVars, awake>>

ServicesInit ==
    /\ Init /\ SubInit /\ HandOverInit
    /\ awake \in {"txm lifecycle", "subscription", "replay hand-over"}

ServicesNext ==
    \/ awake = "txm lifecycle" /\ Next /\ UNCHANGED <<subVars, handOverVars, awake>>
    \/ awake = "subscription" /\ SubNext /\ UNCHANGED <<vars, handOverVars, awake>>
    \/ awake = "replay hand-over" /\ HandOverNext /\ UNCHANGED <<vars, subVars, awake>>

(* The fairness of each component; none of it obliges a component that sleeps in its
   initial state to anything. *)
ServicesSpec ==
    /\ ServicesInit /\ [][ServicesNext]_services
    /\ Fairness /\ SubFairness /\ HandOverFairness

(* Every variable of the three components has its type. *)
ServicesTypeOK == TypeOK /\ SubTypeOK /\ HandOverTypeOK
===============================================================================

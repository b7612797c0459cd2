-------------------------------- MODULE Stores --------------------------------
(* Six components that keep or compute something for others, checked side by side for
   safety as in Services: the heads, the pruning of logs, the search for the common
   ancestor, the key store, the fees and the reports of the write target.  In a
   behaviour one of them is awake and takes its steps. *)
EXTENDS Heads, LogPruningMC, FindLCA, Keys, GasBump, WriteTarget

VARIABLE awake               \* the component whose steps are taken

stores == <<headsVars, pruningVars, finderVars, keysVars, gasVars, writeVars, awake>>

StoresInit ==
    /\ HeadsInit /\ PruningInit /\ FindLCAInit /\ KeysInit /\ GasInit /\ WriteInit
    /\ awake \in {"heads", "log pruning", "find lca", "keys", "gas", "write target"}
    (* Of a component that sleeps one initial state is enough. *)
    /\ awake # "find lca" => rows = {} /\ common = -1
    /\ awake # "gas" => estimator = "fixed price"

StoresNext ==
    \/ awake = "heads" /\ HeadsNext
       /\ UNCHANGED <<pruningVars, finderVars, keysVars, gasVars, writeVars, awake>>
    \/ awake = "log pruning" /\ PruningNext
       /\ UNCHANGED <<headsVars, finderVars, keysVars, gasVars, writeVars, awake>>
    \/ awake = "find lca" /\ FindLCANext
       /\ UNCHANGED <<headsVars, pruningVars, keysVars, gasVars, writeVars, awake>>
    \/ awake = "keys" /\ KeysNext
       /\ UNCHANGED <<headsVars, pruningVars, finderVars, gasVars, writeVars, awake>>
    \/ awake = "gas" /\ GasNext
       /\ UNCHANGED <<headsVars, pruningVars, finderVars, keysVars, writeVars, awake>>
    \/ awake = "write target" /\ WriteNext
       /\ UNCHANGED <<headsVars, pruningVars, finderVars, keysVars, gasVars, awake>>

StoresSpec == StoresInit /\ [][StoresNext]_stores

----------------------------------------------------------------------------
(* The heads of the run: a chain a0, a1, a2 that becomes final, the fork b1 with a
   head x1 that gives its parent's number, and a head s that names itself as parent. *)
CONSTANTS a0, a1, a2, b1, x1, s

SixHeads == {a0, a1, a2, b1, x1, s}
TheirNumber == a0 :> 0 @@ a1 :> 1 @@ a2 :> 2 @@ b1 :> 1 @@ x1 :> 1 @@ s :> 2
TheirParent == a0 :> "none" @@ a1 :> a0 @@ a2 :> a1 @@ b1 :> a0 @@ x1 :> b1 @@ s :> s
FinalHeads == {a0, a1, a2}

(* The users of the key store: one type of service without a list, two users of
   another with lists that overlap. *)
CONSTANTS u1, u2, u3, k1, k2, k3

ThreeUsers == {u1, u2, u3}
ThreeAddresses == {k1, k2, k3}
TheirType == u1 :> "V1" @@ u2 :> "V2" @@ u3 :> "V2"
TheirList == u1 :> {} @@ u2 :> {k1, k2} @@ u3 :> {k2, k3}

(* Every variable of the six components has its type. *)
StoresTypeOK ==
    /\ HeadsTypeOK /\ PruningTypeOK /\ FindLCATypeOK
    /\ KeysTypeOK /\ GasTypeOK /\ WriteTypeOK
===============================================================================

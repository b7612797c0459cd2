--------------------------------- MODULE Keys ---------------------------------
(* The key store of pkg/keys, for what several services do with it at a time: the
   Mutex of an address, which counts the users of one type of service, and the round
   robin of GetNextAddress.  The accounts, external, come and go between any two calls.

   Each user locks and unlocks the address, and asks for keys with a list of its own,
   which GetNextAddress edits in place; the empty list stands for no list.  The order
   of a list is left out: any of its keys that was never used may be the first.

   An operator marked "faulty" is a plausible mistake in the operator after it. *)
EXTENDS Naturals, FiniteSets

CONSTANTS
    Users, ServiceTypes, TypeOf,     \* who calls, and the type of service it is of
    Addresses, Whitelist             \* the keys, and the list that each user starts with

ASSUME KeysAssumption ==
    /\ IsFiniteSet(Users) /\ IsFiniteSet(Addresses) /\ Addresses # {}
    /\ TypeOf \in [Users -> ServiceTypes]
    /\ "none" \notin ServiceTypes
    /\ Whitelist \in [Users -> SUBSET Addresses]

VARIABLES
    serviceType, count,      \* the Mutex
    holders,                 \* the users whose TryLock succeeded
    enabled,                 \* external: the accounts of the keystore
    whitelist,               \* the keys left in the list of each user
    lastUsed,                \* the keys that were used: the domain of the map of that name
    usedSince,               \* its order: for each key, the keys used since its last use
    passedOver               \* history: how often another key was chosen since this one

mutexVars == <<serviceType, count, holders>>
roundRobinVars == <<enabled, whitelist, lastUsed, usedSince, passedOver>>
keysVars == <<mutexVars, roundRobinVars>>

KeysInit ==
    /\ serviceType = "none" /\ count = 0 /\ holders = {}
    /\ enabled = Addresses /\ whitelist = Whitelist
    /\ lastUsed = {} /\ usedSince = [a \in Addresses |-> {}]
    /\ passedOver = [a \in Addresses |-> 0]

----------------------------------------------------------------------------
(* The Mutex; a call that returns an error changes nothing. *)

AnyMayLock(st) == TRUE                                             \* faulty
MayLock(st) == count = 0 \/ serviceType = st

TryLock(u) ==
    /\ u \notin holders
    /\ MayLock(TypeOf[u])
    /\ serviceType' = IF count = 0 THEN TypeOf[u] ELSE serviceType
    /\ count' = count + 1
    /\ holders' = holders \cup {u}
    /\ UNCHANGED roundRobinVars

MayUnlock(st) == count > 0 /\ serviceType = st

(* A user unlocks what it holds, or, by mistake, when none of its type holds it: the
   Mutex cannot tell the users of one type from each other. *)
Unlock(u) ==
    /\ u \in holders \/ \A v \in holders : TypeOf[v] # TypeOf[u]
    /\ MayUnlock(TypeOf[u])
    /\ count' = count - 1
    /\ holders' = holders \ {u}
    /\ UNCHANGED <<serviceType, roundRobinVars>>

----------------------------------------------------------------------------
(* GetNextAddress. *)

Asked(u) == IF Whitelist[u] = {} THEN enabled ELSE whitelist[u] \cap enabled

MostRecent(asked) ==                                               \* faulty
    IF asked \cap lastUsed = {} THEN asked
    ELSE {a \in asked \cap lastUsed : usedSince[a] \cap asked = {}}
Preferred(asked) ==
    IF asked \subseteq lastUsed THEN {a \in asked : asked \ {a} \subseteq usedSince[a]}
                                ELSE asked \ lastUsed

(* With no key left the zero address is returned, without an error. *)
GetNextAddress(u) ==
    /\ whitelist' = [whitelist EXCEPT ![u] = @ \cap enabled]
    /\ \/ Asked(u) = {} /\ UNCHANGED <<lastUsed, usedSince, passedOver>>
       \/ \E next \in Preferred(Asked(u)) :
            /\ lastUsed' = lastUsed \cup {next}
            /\ usedSince' = [a \in Addresses |-> IF a = next THEN {} ELSE usedSince[a] \cup {next}]
            /\ passedOver' = [a \in Addresses |->
                                IF a = next THEN 0
                                ELSE IF a \in Asked(u) THEN passedOver[a] + 1
                                ELSE passedOver[a]]
    /\ UNCHANGED <<mutexVars, enabled>>

(* External: an account is added to the keystore, or removed. *)
ChangeAccounts ==
    /\ \E a \in Addresses : enabled' = IF a \in enabled THEN enabled \ {a} ELSE enabled \cup {a}
    /\ UNCHANGED <<mutexVars, whitelist, lastUsed, usedSince, passedOver>>

KeysNext ==
    \/ \E u \in Users : TryLock(u) \/ Unlock(u) \/ GetNextAddress(u)
    \/ ChangeAccounts

KeysSpec == KeysInit /\ [][KeysNext]_keysVars

----------------------------------------------------------------------------
(* Properties. *)

(* Every variable has the shape the code's types give it. *)
KeysTypeOK ==
    /\ serviceType \in ServiceTypes \cup {"none"} /\ count \in 0..Cardinality(Users)
    /\ holders \subseteq Users /\ enabled \subseteq Addresses
    /\ whitelist \in [Users -> SUBSET Addresses]
    /\ lastUsed \subseteq Addresses /\ usedSince \in [Addresses -> SUBSET lastUsed]
    /\ passedOver \in [Addresses -> Nat]

(* Services of two types never hold an address at the same time, and the lock is free
   exactly when nobody holds it: neither a lock of the other type nor an Unlock by a
   type that holds nothing gets through, in whatever order they come. *)
OneServiceType ==
    /\ count = Cardinality(holders)
    /\ \A u \in holders : TypeOf[u] = serviceType

(* Round robin: a key that a caller asks for and may use is not passed over more
   often than there are other keys, whatever lists the callers give and however the
   accounts change in between. *)
NobodyIsPassedOver == \A a \in Addresses : passedOver[a] < Cardinality(Addresses)
===============================================================================

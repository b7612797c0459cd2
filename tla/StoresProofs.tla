----------------------------- MODULE StoresProofs -----------------------------
(* What the components of Stores other than the heads promise, each with an invariant of
   its own, and the types of all six together. *)
EXTENDS Stores, HeadsProofs, FiniteSetTheorems, TLAPS

----------------------------------------------------------------------------
(* LCAIsRight for every set of block numbers, by the invariant of the halving: what is
   left of the range has the answer in it.  Closest children are what makes the search
   monotone although numbers are missing: a row stands for all the numbers below it down
   to the next row. *)

(* The numbers above the range are of blocks that were reorged out. *)
NoneAbove == \A r \in rows : r > latest - lo => ~OnChain(r)

(* The lower end of the range is on the chain, as its closest child is; there may be no
   such end, which is when the whole table may be gone. *)
EndIsOnChain ==
    hi <= latest - oldest => \E r \in rows : r >= latest - hi /\ OnChain(r)

RangeIsTheTable ==
    /\ finder \notin {"latest", "failed"} => latest \in rows /\ \A r \in rows : r <= latest
    /\ finder \notin {"latest", "oldest", "failed"} =>
         /\ oldest \in rows /\ \A r \in rows : oldest <= r
         /\ lo <= hi /\ hi <= latest - oldest + 1

Halving ==
    ~moved =>
      /\ finder = "search" => NoneAbove /\ EndIsOnChain
      /\ finder = "load" => lo = hi /\ lo <= latest - oldest /\ NoneAbove /\ EndIsOnChain

FinderInv == FindLCATypeOK /\ RangeIsTheTable /\ Halving /\ LCAIsRight

----------------------------------------------------------------------------
LEMMA MiddleIsInside ==
    ASSUME NEW a \in Nat, NEW b \in Nat, a < b
    PROVE  /\ (a + b) \div 2 \in Nat
           /\ a <= (a + b) \div 2 /\ (a + b) \div 2 < b
  OBVIOUS

(* The closest child of a number is on the chain exactly when some row from that number
   on is: this is where rows above the fork are all off the chain. *)
LEMMA ClosestChild ==
    ASSUME FindLCATypeOK, NEW b \in Int, NEW child \in rows, OldestFrom(child, b)
    PROVE  OnChain(child) <=> \E r \in rows : r >= b /\ OnChain(r)
  BY BlockNumberAssumption DEF FindLCATypeOK, OldestFrom, OnChain

LEMMA FinderInit == FindLCAInit => FinderInv
  <1> SUFFICES ASSUME FindLCAInit PROVE FinderInv
    OBVIOUS
  <1>1. FindLCATypeOK
    BY DEF FindLCAInit, FindLCATypeOK, Answered
  <1>2. RangeIsTheTable /\ Halving /\ LCAIsRight
    BY DEF FindLCAInit, RangeIsTheTable, Halving, LCAIsRight
  <1> QED
    BY <1>1, <1>2 DEF FinderInv

LEMMA SearchPreserves ==
    ASSUME FinderInv, Search
    PROVE  FinderInv'
  <1> USE BlockNumberAssumption
  <1>1. PICK child \in rows :
          /\ OldestFrom(child, latest - Middle)
          /\ IF OnChain(child)
               THEN hi' = Middle /\ UNCHANGED lo
               ELSE lo' = Middle + 1 /\ UNCHANGED hi
    BY DEF Search
  <1>2. /\ finder = "search" /\ lo < hi
        /\ UNCHANGED <<rows, common, finder, latest, oldest, lca, moved>>
    BY DEF Search
  <1>3. /\ lo \in Nat /\ hi \in Nat /\ latest \in Nat /\ oldest \in Nat
        /\ rows \subseteq Nat /\ common \in Int
        /\ hi <= latest - oldest + 1
    BY <1>2 DEF FinderInv, FindLCATypeOK, RangeIsTheTable
  <1>4. Middle \in Nat /\ lo <= Middle /\ Middle < hi
    BY <1>2, <1>3, MiddleIsInside DEF Middle
  <1>5. lo' \in Nat /\ hi' \in Nat /\ lo' <= hi' /\ hi' <= hi
    BY <1>1, <1>3, <1>4
  <1>6. FindLCATypeOK'
    BY <1>2, <1>5 DEF FinderInv, FindLCATypeOK, Answered
  <1>7. RangeIsTheTable'
    BY <1>2, <1>3, <1>5 DEF FinderInv, RangeIsTheTable
  <1>8. OnChain(child) <=> \E r \in rows : r >= latest - Middle /\ OnChain(r)
    BY <1>1, <1>3, <1>4, ClosestChild DEF FinderInv
  <1>9. ASSUME ~moved PROVE NoneAbove' /\ EndIsOnChain'
    <2>1. NoneAbove /\ EndIsOnChain
      BY <1>2, <1>9 DEF FinderInv, Halving
    <2>2. CASE OnChain(child)
      <3>1. hi' = Middle /\ lo' = lo
        BY <1>1, <2>2
      <3> QED
        BY <1>2, <1>8, <2>1, <2>2, <3>1 DEF NoneAbove, EndIsOnChain, OnChain
    <2>3. CASE ~OnChain(child)
      <3>1. lo' = Middle + 1 /\ hi' = hi
        BY <1>1, <2>3
      <3>2. \A r \in rows : r > latest - (Middle + 1) => r >= latest - Middle
        BY <1>3, <1>4
      <3> QED
        BY <1>2, <1>8, <2>1, <2>3, <3>1, <3>2 DEF NoneAbove, EndIsOnChain, OnChain
    <2> QED
      BY <2>2, <2>3
  <1>10. Halving' /\ LCAIsRight'
    BY <1>2, <1>9 DEF FinderInv, Halving, LCAIsRight
  <1> QED
    BY <1>6, <1>7, <1>10 DEF FinderInv

LEMMA CheckFoundPreserves ==
    ASSUME FinderInv, CheckFound
    PROVE  FinderInv'
  <1> USE BlockNumberAssumption
  <1>1. /\ finder = "search" /\ lo = hi
        /\ UNCHANGED <<rows, common, latest, oldest, lo, hi, lca, moved>>
    BY DEF CheckFound
  <1>2. /\ lo \in Nat /\ latest \in Nat /\ oldest \in Nat /\ rows \subseteq Nat /\ common \in Int
        /\ \A r \in rows : oldest <= r
    BY <1>1 DEF FinderInv, FindLCATypeOK, RangeIsTheTable
  <1>3. ~moved => NoneAbove /\ EndIsOnChain
    BY <1>1 DEF FinderInv, Halving
  <1>4. CASE lo > latest - oldest /\ finder' = "reorged out"
    <2>1. ~moved => \A r \in rows : ~OnChain(r)
      <3> SUFFICES ASSUME ~moved, NEW r \in rows PROVE ~OnChain(r)
        OBVIOUS
      <3>1. r \in Nat /\ oldest <= r /\ lo > latest - oldest
        BY <1>2, <1>4
      <3>2. lo \in Nat /\ latest \in Nat /\ oldest \in Nat
        BY <1>2
      <3>3. r > latest - lo
        BY ONLY <3>1, <3>2
      <3> QED
        BY <1>3, <3>3 DEF NoneAbove
    <2>2. (~moved => \A r \in rows : ~OnChain(r))'
      BY <1>1, <2>1 DEF OnChain
    <2> QED
      BY <1>1, <1>4, <2>2 DEF FinderInv, FindLCATypeOK, RangeIsTheTable, Halving, LCAIsRight, Answered
  <1>5. ASSUME NEW child \in rows, lo <= latest - oldest, OldestFrom(child, latest - lo),
               finder' = IF OnChain(child) THEN "load" ELSE "reorged out"
        PROVE  FinderInv'
    <2>1. OnChain(child) <=> \E r \in rows : r >= latest - lo /\ OnChain(r)
      <3>1. latest - lo \in Int
        BY <1>2
      <3> QED
        BY <1>5, <3>1, ClosestChild DEF FinderInv
    <2>2. ~moved => OnChain(child)
      BY <1>1, <1>3, <1>5, <2>1 DEF EndIsOnChain
    <2>3. ~moved => finder' = "load"
      BY <1>5, <2>2
    <2>4. (~moved => NoneAbove /\ EndIsOnChain)'
      BY <1>1, <1>3 DEF NoneAbove, EndIsOnChain, OnChain
    <2>5. FindLCATypeOK' /\ RangeIsTheTable'
      BY <1>1, <1>5 DEF FinderInv, FindLCATypeOK, RangeIsTheTable, Answered
    <2>6. Halving' /\ LCAIsRight'
      BY <1>1, <1>5, <2>3, <2>4 DEF Halving, LCAIsRight
    <2> QED
      BY <2>5, <2>6 DEF FinderInv
  <1> QED
    BY <1>4, <1>5 DEF CheckFound

LEMMA SelectPreserves ==
    ASSUME FinderInv, SelectLatestBlock \/ SelectOldest
    PROVE  FinderInv'
  <1> USE BlockNumberAssumption
  <1>1. CASE SelectLatestBlock
    BY <1>1 DEF SelectLatestBlock, FinderInv, FindLCATypeOK, RangeIsTheTable, Halving, LCAIsRight, Answered
  <1>2. CASE SelectOldest
    <2>1. PICK b \in rows : OldestFrom(b, 0) /\ oldest' = b /\ lo' = 0 /\ hi' = latest - b + 1
      BY <1>2 DEF SelectOldest
    <2>2. /\ finder = "oldest" /\ finder' = "search"
          /\ UNCHANGED <<rows, common, latest, lca, moved>>
      BY <1>2 DEF SelectOldest
    <2>3. /\ latest \in Nat /\ rows \subseteq Nat /\ b \in Nat /\ b <= latest
          /\ \A r \in rows : r <= latest /\ b <= r
      BY <2>1, <2>2 DEF FinderInv, FindLCATypeOK, RangeIsTheTable, OldestFrom
    <2>4. FindLCATypeOK' /\ RangeIsTheTable'
      <3>1. lo' \in Nat /\ hi' \in Nat /\ oldest' \in Nat /\ lo' <= hi' /\ hi' <= latest - oldest' + 1
        BY <2>1, <2>3
      <3> QED
        BY <2>1, <2>2, <2>3, <3>1 DEF FinderInv, FindLCATypeOK, RangeIsTheTable, Answered
    <2>5. NoneAbove' /\ EndIsOnChain'
      <3>1. \A r \in rows : ~(r > latest - 0)
        BY <2>3
      <3>2. ~(hi' <= latest - oldest')
        BY <2>1, <2>3
      <3> QED
        BY <2>1, <2>2, <3>1, <3>2 DEF NoneAbove, EndIsOnChain
    <2> QED
      BY <2>2, <2>4, <2>5 DEF FinderInv, Halving, LCAIsRight
  <1> QED
    BY <1>1, <1>2

LEMMA SelectBlockByNumberPreserves ==
    ASSUME FinderInv, SelectBlockByNumber
    PROVE  FinderInv'
  <1> USE BlockNumberAssumption
  <1>1. /\ finder = "load"
        /\ UNCHANGED <<rows, common, latest, oldest, lo, hi, moved>>
    BY DEF SelectBlockByNumber
  <1>2. /\ lo \in Nat /\ latest \in Nat /\ oldest \in Nat /\ rows \subseteq Nat /\ common \in Int
    BY DEF FinderInv, FindLCATypeOK
  <1>3. ~moved => /\ latest - lo \in rows /\ OnChain(latest - lo)
                  /\ \A r \in rows : OnChain(r) => r <= latest - lo
    BY <1>1, <1>2 DEF FinderInv, Halving, NoneAbove, EndIsOnChain
  <1>4. LCAIsRight'
    BY <1>1, <1>3 DEF SelectBlockByNumber, LCAIsRight, OnChain
  <1> QED
    BY <1>1, <1>4
    DEF SelectBlockByNumber, FinderInv, FindLCATypeOK, RangeIsTheTable, Halving, Answered

LEMMA FinderStep ==
    ASSUME FinderInv, [FindLCANext]_finderVars
    PROVE  FinderInv'
  <1> USE BlockNumberAssumption
  <1>1. CASE FindFails
    BY <1>1 DEF FindFails, FinderInv, FindLCATypeOK, RangeIsTheTable, Halving, LCAIsRight, Answered
  <1>2. CASE ChainMoves
    BY <1>2 DEF ChainMoves, FinderInv, FindLCATypeOK, RangeIsTheTable, Halving, LCAIsRight, Answered
  <1>3. CASE UNCHANGED finderVars
    BY <1>3 DEF finderVars, FinderInv, FindLCATypeOK, RangeIsTheTable, Halving, LCAIsRight,
                NoneAbove, EndIsOnChain, OnChain, Answered
  <1> QED
    BY <1>1, <1>2, <1>3, SearchPreserves, CheckFoundPreserves, SelectPreserves,
       SelectBlockByNumberPreserves DEF FindLCANext

(* However many rows the table has and whichever numbers have none: an answer of FindLCA
   that the chain did not move under is the highest row the chain still has, and the
   two errors that blame the table are never given wrongly. *)
THEOREM LCAIsRightHolds == FindLCASpec => []LCAIsRight
  <1>1. FinderInv => LCAIsRight
    BY DEF FinderInv
  <1> QED
    BY <1>1, FinderInit, FinderStep, PTL DEF FindLCASpec

----------------------------------------------------------------------------
(* The two properties of the key store for any number of users, types of service and
   keys: the Mutex, whose counter must agree with who holds it, and the round robin,
   where the wait of a key is bounded by the keys used since its own last use. *)

MutexTypeOK ==
    /\ serviceType \in ServiceTypes \cup {"none"} /\ count \in Nat
    /\ holders \subseteq Users

MutexInv == MutexTypeOK /\ OneServiceType

(* The order of last uses: who was never used has seen all the uses, and of two keys
   that were, exactly one was used since the other. *)
RoundRobinTypeOK ==
    /\ enabled \subseteq Addresses
    /\ whitelist \in [Users -> SUBSET Addresses]
    /\ lastUsed \subseteq Addresses /\ usedSince \in [Addresses -> SUBSET lastUsed]
    /\ passedOver \in [Addresses -> Nat]

UsesAreOrdered ==
    /\ \A a \in Addresses : a \notin usedSince[a]
    /\ \A a, b \in Addresses : a \in usedSince[b] => b \notin usedSince[a]

(* A key is passed over for another one each time, as that goes behind it. *)
WaitIsBounded == \A a \in Addresses : passedOver[a] <= Cardinality(usedSince[a])

RoundRobinInv == RoundRobinTypeOK /\ UsesAreOrdered /\ WaitIsBounded

----------------------------------------------------------------------------
(* The Mutex. *)

LEMMA HoldersAreFinite == holders \subseteq Users => IsFiniteSet(holders) /\ Cardinality(holders) \in Nat
  BY KeysAssumption, FS_Subset, FS_CardinalityType

LEMMA MutexInit == KeysInit => MutexInv
  BY FS_EmptySet DEF KeysInit, MutexInv, MutexTypeOK, OneServiceType

LEMMA TryLockPreserves ==
    ASSUME MutexInv, NEW u \in Users, TryLock(u)
    PROVE  MutexInv'
  <1>1. IsFiniteSet(holders) /\ Cardinality(holders) \in Nat /\ count = Cardinality(holders)
    BY HoldersAreFinite DEF MutexInv, MutexTypeOK, OneServiceType
  <1>2. Cardinality(holders \cup {u}) = Cardinality(holders) + 1
    BY <1>1, FS_AddElement DEF TryLock
  <1>3. count' = Cardinality(holders') /\ count' \in Nat
    BY <1>1, <1>2 DEF TryLock
  <1>4. TypeOf[u] \in ServiceTypes
    BY KeysAssumption
  <1>5. MutexTypeOK'
    BY <1>3, <1>4 DEF TryLock, MutexInv, MutexTypeOK
  <1>6. count = 0 => holders = {}
    BY <1>1, FS_EmptySet
  <1>7. serviceType' = TypeOf[u]
    BY DEF TryLock, MayLock
  <1>8. \A v \in holders : TypeOf[v] = serviceType'
    BY <1>6, <1>7 DEF TryLock, MayLock, MutexInv, OneServiceType
  <1>9. \A v \in holders' : TypeOf[v] = serviceType'
    BY <1>7, <1>8 DEF TryLock
  <1> QED
    BY <1>3, <1>5, <1>9 DEF MutexInv, OneServiceType

(* An Unlock that succeeds is one of a holder: when nobody of the type holds the lock,
   nobody of the lock's type does, and so the counter is zero. *)
LEMMA UnlockPreserves ==
    ASSUME MutexInv, NEW u \in Users, Unlock(u)
    PROVE  MutexInv'
  <1>1. IsFiniteSet(holders) /\ Cardinality(holders) \in Nat /\ count = Cardinality(holders)
    BY HoldersAreFinite DEF MutexInv, MutexTypeOK, OneServiceType
  <1>2. count > 0 /\ serviceType = TypeOf[u]
    BY DEF Unlock, MayUnlock
  <1>3. PICK v \in holders : TRUE
    BY <1>1, <1>2, FS_EmptySet
  <1>4. TypeOf[v] = TypeOf[u]
    BY <1>2 DEF MutexInv, OneServiceType
  <1>5. u \in holders
    BY <1>4 DEF Unlock
  <1>6. Cardinality(holders \ {u}) = Cardinality(holders) - 1
    BY <1>1, <1>5, FS_RemoveElement
  <1>7. count' = Cardinality(holders') /\ count' \in Nat
    BY <1>1, <1>2, <1>6 DEF Unlock
  <1> QED
    BY <1>7 DEF Unlock, MutexInv, MutexTypeOK, OneServiceType, roundRobinVars

LEMMA MutexStep == MutexInv /\ [KeysNext]_keysVars => MutexInv'
  <1> SUFFICES ASSUME MutexInv, [KeysNext]_keysVars PROVE MutexInv'
    OBVIOUS
  <1>1. CASE UNCHANGED mutexVars
    BY <1>1 DEF mutexVars, MutexInv, MutexTypeOK, OneServiceType
  <1>2. ASSUME NEW u \in Users, GetNextAddress(u) PROVE UNCHANGED mutexVars
    BY <1>2 DEF GetNextAddress
  <1>3. ChangeAccounts => UNCHANGED mutexVars
    BY DEF ChangeAccounts
  <1>4. UNCHANGED keysVars => UNCHANGED mutexVars
    BY DEF keysVars
  <1> QED
    BY <1>1, <1>2, <1>3, <1>4, TryLockPreserves, UnlockPreserves DEF KeysNext

(* Services of two types never hold an address at the same time, and its lock is free
   exactly when nobody holds it, for any number of users and types, and although an
   Unlock does not say whose it is. *)
THEOREM OneServiceTypeHolds == KeysSpec => []OneServiceType
  <1>1. MutexInv => OneServiceType
    BY DEF MutexInv
  <1> QED
    BY <1>1, MutexInit, MutexStep, PTL DEF KeysSpec

----------------------------------------------------------------------------
(* The round robin. *)

LEMMA RoundRobinInit == KeysInit => RoundRobinInv
  <1> SUFFICES ASSUME KeysInit PROVE RoundRobinInv
    OBVIOUS
  <1>1. Cardinality({}) = 0
    BY FS_EmptySet
  <1>2. RoundRobinTypeOK
    BY KeysAssumption DEF KeysInit, RoundRobinTypeOK
  <1>3. UsesAreOrdered
    BY DEF KeysInit, UsesAreOrdered
  <1>4. WaitIsBounded
    BY <1>1 DEF KeysInit, WaitIsBounded
  <1> QED
    BY <1>2, <1>3, <1>4 DEF RoundRobinInv

(* The key that is chosen was not used since the last use of any other key asked for:
   either it was never used, or all the others were used since. *)
LEMMA ChosenIsNew ==
    ASSUME RoundRobinTypeOK, UsesAreOrdered, NEW asked \in SUBSET Addresses,
           NEW next \in Preferred(asked)
    PROVE  next \in Addresses /\ \A a \in asked \ {next} : next \notin usedSince[a]
  <1>1. next \in asked
    BY DEF Preferred
  <1>2. CASE asked \subseteq lastUsed
    <2>1. asked \ {next} \subseteq usedSince[next]
      BY <1>2 DEF Preferred
    <2> QED
      BY <1>1, <2>1 DEF UsesAreOrdered
  <1>3. CASE ~(asked \subseteq lastUsed)
    <2>1. next \notin lastUsed
      BY <1>3 DEF Preferred
    <2>2. \A a \in asked : usedSince[a] \subseteq lastUsed
      BY DEF RoundRobinTypeOK
    <2> QED
      BY <1>1, <2>1, <2>2
  <1> QED
    BY <1>2, <1>3

LEMMA GetNextAddressPreserves ==
    ASSUME RoundRobinInv, NEW u \in Users, GetNextAddress(u)
    PROVE  RoundRobinInv'
  <1>0. RoundRobinTypeOK /\ UsesAreOrdered /\ WaitIsBounded
    BY DEF RoundRobinInv
  <1>1. /\ enabled' \subseteq Addresses /\ whitelist' \in [Users -> SUBSET Addresses]
        /\ Asked(u) \subseteq Addresses
    BY <1>0 DEF GetNextAddress, RoundRobinTypeOK, Asked
  <1>2. CASE UNCHANGED <<lastUsed, usedSince, passedOver>>
    BY <1>0, <1>1, <1>2 DEF RoundRobinInv, RoundRobinTypeOK, UsesAreOrdered, WaitIsBounded
  <1>3. ASSUME NEW next \in Preferred(Asked(u)),
               lastUsed' = lastUsed \cup {next},
               usedSince' = [a \in Addresses |-> IF a = next THEN {} ELSE usedSince[a] \cup {next}],
               passedOver' = [a \in Addresses |->
                                IF a = next THEN 0
                                ELSE IF a \in Asked(u) THEN passedOver[a] + 1
                                ELSE passedOver[a]]
        PROVE  RoundRobinInv'
    <2>1. next \in Addresses /\ \A a \in Asked(u) \ {next} : next \notin usedSince[a]
      BY <1>0, <1>1, <1>3, ChosenIsNew
    <2>2. RoundRobinTypeOK'
      BY <1>0, <1>1, <1>3, <2>1 DEF RoundRobinTypeOK
    <2>3. UsesAreOrdered'
      BY <1>0, <1>3, <2>1 DEF UsesAreOrdered
    <2>4. ASSUME NEW a \in Addresses
          PROVE  passedOver'[a] <= Cardinality(usedSince'[a])
      <3>1. /\ IsFiniteSet(usedSince[a]) /\ Cardinality(usedSince[a]) \in Nat
            /\ passedOver[a] \in Nat /\ passedOver[a] <= Cardinality(usedSince[a])
        <4>1. usedSince[a] \subseteq Addresses
          BY <1>0 DEF RoundRobinTypeOK
        <4> QED
          BY <1>0, <4>1, KeysAssumption, FS_Subset, FS_CardinalityType
          DEF RoundRobinTypeOK, WaitIsBounded
      <3>2. Cardinality(usedSince[a] \cup {next}) =
              IF next \in usedSince[a] THEN Cardinality(usedSince[a])
                                       ELSE Cardinality(usedSince[a]) + 1
        BY <3>1, FS_AddElement
      <3>3. CASE a = next
        BY <1>3, <3>3, FS_EmptySet
      <3>4. CASE a # next /\ a \in Asked(u)
        <4>1. next \notin usedSince[a]
          BY <2>1, <3>4
        <4>2. usedSince'[a] = usedSince[a] \cup {next} /\ passedOver'[a] = passedOver[a] + 1
          BY <1>3, <3>4
        <4> QED
          BY <3>1, <3>2, <4>1, <4>2
      <3>5. CASE a # next /\ a \notin Asked(u)
        <4>1. usedSince'[a] = usedSince[a] \cup {next} /\ passedOver'[a] = passedOver[a]
          BY <1>3, <3>5
        <4> QED
          BY <3>1, <3>2, <4>1
      <3> QED
        BY <3>3, <3>4, <3>5
    <2>5. WaitIsBounded'
      BY <2>4 DEF WaitIsBounded
    <2> QED
      BY <2>2, <2>3, <2>5 DEF RoundRobinInv
  <1> QED
    BY <1>2, <1>3 DEF GetNextAddress

LEMMA RoundRobinStep == RoundRobinInv /\ [KeysNext]_keysVars => RoundRobinInv'
  <1> SUFFICES ASSUME RoundRobinInv, [KeysNext]_keysVars PROVE RoundRobinInv'
    OBVIOUS
  <1>1. CASE UNCHANGED roundRobinVars
    BY <1>1 DEF roundRobinVars, RoundRobinInv, RoundRobinTypeOK, UsesAreOrdered, WaitIsBounded
  <1>2. ASSUME NEW u \in Users, TryLock(u) \/ Unlock(u) PROVE UNCHANGED roundRobinVars
    BY <1>2 DEF TryLock, Unlock
  <1>3. CASE ChangeAccounts
    <2>1. enabled' \subseteq Addresses
      BY <1>3 DEF ChangeAccounts, RoundRobinInv, RoundRobinTypeOK
    <2> QED
      BY <1>3, <2>1 DEF ChangeAccounts, RoundRobinInv, RoundRobinTypeOK, UsesAreOrdered, WaitIsBounded
  <1>4. UNCHANGED keysVars => UNCHANGED roundRobinVars
    BY DEF keysVars
  <1> QED
    BY <1>1, <1>2, <1>3, <1>4, GetNextAddressPreserves DEF KeysNext

(* The keys used since the last use of a key do not include that key. *)
LEMMA WaitIsShort == RoundRobinInv => NobodyIsPassedOver
  <1> SUFFICES ASSUME RoundRobinInv, NEW a \in Addresses
               PROVE  passedOver[a] < Cardinality(Addresses)
    BY DEF NobodyIsPassedOver
  <1>1. /\ passedOver[a] \in Nat /\ passedOver[a] <= Cardinality(usedSince[a])
        /\ usedSince[a] \subseteq Addresses \ {a}
    BY DEF RoundRobinInv, RoundRobinTypeOK, UsesAreOrdered, WaitIsBounded
  <1>2. /\ IsFiniteSet(Addresses \ {a})
        /\ Cardinality(Addresses \ {a}) = Cardinality(Addresses) - 1
    BY KeysAssumption, FS_RemoveElement
  <1>3. Cardinality(usedSince[a]) <= Cardinality(Addresses \ {a})
    BY <1>1, <1>2, FS_Subset
  <1>4. Cardinality(usedSince[a]) \in Nat /\ Cardinality(Addresses) \in Nat
    BY <1>1, <1>2, KeysAssumption, FS_Subset, FS_CardinalityType
  <1> QED
    BY <1>1, <1>2, <1>3, <1>4

(* A key that callers ask for and may use waits for fewer uses of other keys than there
   are keys, for any number of keys and callers, whatever lists they give and however
   the accounts change. *)
THEOREM NobodyIsPassedOverHolds == KeysSpec => []NobodyIsPassedOver
  BY RoundRobinInit, RoundRobinStep, WaitIsShort, PTL DEF KeysSpec

----------------------------------------------------------------------------
(* The bumps of the three estimators for every configuration that passes validation and
   every market.  The arithmetic is in the first lemmas, which say what the operators of
   GasBump bound; after them the proofs are linear. *)

(* The tip of a dynamic fee is covered by its cap, and of a legacy fee it is the cap; the
   fixed price estimator also counts on a cap that is never below its default tip. *)
CapInv ==
    /\ feeType = "legacy" => fee.tip = fee.cap
    /\ estimator = "fixed price" /\ feeType # "none" => fee.cap >= TipCapDefault
    /\ estimator = "fixed price" => feeType # "legacy"

GasInv == GasTypeOK /\ CapInv /\ BumpsStayBelowMax /\ CapCoversTip

----------------------------------------------------------------------------
(* Arithmetic. *)

LEMMA PercentageIsNat ==
    ASSUME NEW w \in Nat, NEW p \in Nat
    PROVE  AddPercentage(w, p) \in Nat
  <1>1. w * (100 + p) \in Nat
    OBVIOUS
  <1> QED
    BY <1>1 DEF AddPercentage

LEMMA PercentageIsMonotonic ==
    ASSUME NEW v \in Nat, NEW w \in Nat, NEW p \in Nat, NEW q \in Nat, v <= w, p <= q
    PROVE  AddPercentage(v, p) <= AddPercentage(w, q)
  <1>1. /\ v * (100 + p) \in Nat /\ w * (100 + q) \in Nat
        /\ v * (100 + p) <= w * (100 + q)
    OBVIOUS
  <1>2. \A a, b \in Nat : a <= b => a \div 100 <= b \div 100
    OBVIOUS
  <1> QED
    BY <1>1, <1>2 DEF AddPercentage

LEMMA BumpedPrice ==
    ASSUME NEW price \in Nat
    PROVE  /\ bumpFeePrice(price) \in Nat
           /\ bumpFeePrice(price) >= price
           /\ bumpFeePrice(price) > price \/ (BumpMin = 0 /\ price < 10)
           /\ bumpFeePrice(price) >= AddPercentage(price, 10)
  <1>1. AddPercentage(price, BumpPercent) \in Nat /\ AddPercentage(price, 10) \in Nat
    BY PercentageIsNat, GasAssumption
  <1>2. AddPercentage(price, BumpPercent) >= AddPercentage(price, 10)
    BY PercentageIsMonotonic, GasAssumption, <1>1
  <1>3. price >= 10 => AddPercentage(price, 10) > price
    BY DEF AddPercentage
  <1>4. bumpFeePrice(price) \in Nat /\ bumpFeePrice(price) >= AddPercentage(price, 10)
    BY <1>1, <1>2, GasAssumption DEF bumpFeePrice, Larger
  <1>5. bumpFeePrice(price) >= price + BumpMin
    BY <1>1, GasAssumption DEF bumpFeePrice, Larger
  <1> QED
    BY <1>1, <1>3, <1>4, <1>5, GasAssumption

LEMMA BumpedPriceIsMonotonic ==
    ASSUME NEW v \in Nat, NEW w \in Nat, v <= w
    PROVE  bumpFeePrice(v) <= bumpFeePrice(w)
  <1>1. AddPercentage(v, BumpPercent) \in Nat /\ AddPercentage(w, BumpPercent) \in Nat
    BY PercentageIsNat, GasAssumption
  <1>2. BumpPercent \in Nat /\ BumpPercent <= BumpPercent
    BY GasAssumption
  <1>3. AddPercentage(v, BumpPercent) <= AddPercentage(w, BumpPercent)
    BY <1>2, PercentageIsMonotonic
  <1> QED
    BY <1>1, <1>3, GasAssumption DEF bumpFeePrice, Larger

LEMMA MaximumIsNat == MaxGasPrice \in Nat /\ MaxGasPrice <= KeyPriceMax
  BY GasAssumption DEF MaxGasPrice, Smaller

LEMMA FeeCap ==
    ASSUME NEW base \in Market, NEW tip \in Nat, tip <= MaxGasPrice
    PROVE  calcFeeCap(base, tip) \in Nat /\ tip <= calcFeeCap(base, tip)
  BY GrowthAssumption, MaximumIsNat DEF calcFeeCap, Smaller

LEMMA WithMarket ==
    ASSUME NEW current \in Nat \cup {NoPrice}, NEW price \in Nat
    PROVE  /\ maxBumpedFee(current, price) \in Nat
           /\ maxBumpedFee(current, price) >= price
  BY GasAssumption DEF maxBumpedFee, Larger

LEMMA Limited ==
    ASSUME NEW original \in Nat, NEW current \in Nat
    PROVE  /\ LimitBumpedFee(original, current) \in Nat
           /\ LimitBumpedFee(original, current) <= KeyPriceMax
  <1>1. AddPercentage(original, BumpPercent) \in Nat
    BY PercentageIsNat, GasAssumption
  <1> QED
    BY <1>1, GasAssumption DEF LimitBumpedFee, Larger, Smaller

LEMMA LimitedIsMonotonic ==
    ASSUME NEW v \in Nat, NEW w \in Nat, v <= w, NEW a \in Nat, NEW b \in Nat, a <= b
    PROVE  LimitBumpedFee(v, a) <= LimitBumpedFee(w, b)
  <1>1. AddPercentage(v, BumpPercent) \in Nat /\ AddPercentage(w, BumpPercent) \in Nat
    BY PercentageIsNat, GasAssumption
  <1>2. BumpPercent \in Nat /\ BumpPercent <= BumpPercent
    BY GasAssumption
  <1>3. AddPercentage(v, BumpPercent) <= AddPercentage(w, BumpPercent)
    BY <1>2, PercentageIsMonotonic
  <1> QED
    BY <1>1, <1>3, GasAssumption DEF LimitBumpedFee, Larger, Smaller

LEMMA EnoughIsMore ==
    ASSUME NEW original \in Nat, NEW limited \in Nat, IsEnough(original, limited)
    PROVE  limited > original /\ limited >= AddPercentage(original, 10)
  <1>1. AddPercentage(original, 0) = original
    BY DEF AddPercentage
  <1>2. AddPercentage(original, 0) <= AddPercentage(original, 10)
    BY PercentageIsMonotonic
  <1>3. AddPercentage(original, 10) \in Nat
    BY PercentageIsNat
  <1> QED
    BY <1>1, <1>2, <1>3 DEF IsEnough

----------------------------------------------------------------------------
(* What each kind of bump does to the fee: the two caps of the replacement. *)

Replaces(tip, cap) ==
    /\ tip \in Nat /\ cap \in Nat
    /\ tip > fee.tip
    /\ cap > fee.cap \/ (cap = fee.cap /\ BumpMin = 0 /\ fee.cap < 10)
    /\ tip >= AddPercentage(fee.tip, 10) /\ cap >= AddPercentage(fee.cap, 10)
    /\ tip <= KeyPriceMax /\ cap <= KeyPriceMax

(* What a step that bumps must establish. *)
GoodBump ==
    \E tip \in Nat, cap \in Nat :
        /\ Replaces(tip, cap) /\ Bump(tip, cap)
        /\ blind' \in BOOLEAN
        /\ feeType \in {"legacy", "dynamic"}
        /\ feeType = "legacy" => tip = cap
        /\ (estimator = "block history" => ~blind') => tip <= cap

LEMMA Fees ==
    ASSUME GasInv
    PROVE  fee.tip \in Nat /\ fee.cap \in Nat /\ blind \in BOOLEAN
  BY DEF GasInv, GasTypeOK

(* bumpDynamicFee, for the two estimators that use it. *)
LEMMA DynamicBump ==
    ASSUME NEW currentTip, NEW base
    PROVE  /\ GasInv /\ feeType = "dynamic"
           /\ currentTip \in Nat \cup {NoPrice} /\ base \in Market \cup {NoPrice}
           /\ bumpDynamicFee(currentTip, base)
           /\ \/ estimator = "block history"
              \/ estimator = "fixed price" /\ currentTip = TipCapDefault
           => GoodBump
  <1>0. SUFFICES ASSUME /\ GasInv /\ feeType = "dynamic"
                        /\ currentTip \in Nat \cup {NoPrice} /\ base \in Market \cup {NoPrice}
                        /\ bumpDynamicFee(currentTip, base)
                        /\ \/ estimator = "block history"
                           \/ estimator = "fixed price" /\ currentTip = TipCapDefault
                 PROVE  GoodBump
    OBVIOUS
  <1> DEFINE baseline == Larger(fee.tip, TipCapDefault)
             tip == maxBumpedFee(currentTip, bumpFeePrice(baseline))
             usable == base # NoPrice /\ base <= MaxGasPrice
             fromBase == IF usable THEN calcFeeCap(base, tip) ELSE 0
             cap == Larger(bumpFeePrice(fee.cap), fromBase)
  <1>1. /\ tip <= MaxGasPrice /\ tip > fee.tip
        /\ cap <= MaxGasPrice
        /\ Bump(tip, cap)
        /\ blind' = (blind \/ ~usable)
    BY <1>0 DEF bumpDynamicFee
  <1> HIDE DEF baseline, tip, usable, fromBase, cap
  <1>2. fee.tip \in Nat /\ fee.cap \in Nat /\ blind \in BOOLEAN
    BY <1>0, Fees
  <1>3. baseline \in Nat /\ baseline >= fee.tip /\ baseline >= TipCapDefault
    BY <1>2, GasAssumption DEF baseline, Larger
  <1>4. /\ bumpFeePrice(baseline) \in Nat /\ bumpFeePrice(baseline) >= baseline
        /\ bumpFeePrice(baseline) >= AddPercentage(baseline, 10)
    BY <1>3, BumpedPrice
  <1>5. tip \in Nat /\ tip >= bumpFeePrice(baseline)
    BY <1>0, <1>4, WithMarket DEF tip
  <1>6. /\ AddPercentage(baseline, 10) \in Nat /\ AddPercentage(fee.tip, 10) \in Nat
        /\ AddPercentage(fee.cap, 10) \in Nat
    BY <1>2, <1>3, PercentageIsNat
  <1>7. AddPercentage(fee.tip, 10) <= AddPercentage(baseline, 10)
    <2>1. 10 \in Nat /\ 10 <= 10
      OBVIOUS
    <2> QED
      BY <1>2, <1>3, <2>1, PercentageIsMonotonic
  <1>8. /\ bumpFeePrice(fee.cap) \in Nat /\ bumpFeePrice(fee.cap) >= fee.cap
        /\ bumpFeePrice(fee.cap) > fee.cap \/ (BumpMin = 0 /\ fee.cap < 10)
        /\ bumpFeePrice(fee.cap) >= AddPercentage(fee.cap, 10)
    BY <1>2, BumpedPrice
  <1>9. fromBase \in Nat /\ (usable => tip <= fromBase)
    BY <1>0, <1>1, <1>5, FeeCap DEF fromBase, usable
  <1>10. cap \in Nat /\ cap >= bumpFeePrice(fee.cap) /\ cap >= fromBase
    BY <1>8, <1>9 DEF cap, Larger
  <1>11. Replaces(tip, cap)
    BY <1>1, <1>2, <1>4, <1>5, <1>6, <1>7, <1>8, <1>10, MaximumIsNat, GasAssumption DEF Replaces
  <1>12. (estimator = "block history" => ~blind') => tip <= cap
    <2>1. CASE estimator = "block history"
      <3>1. ~blind' => usable
        BY <1>1
      <3>2. fromBase \in Nat /\ cap \in Nat /\ tip \in Nat /\ cap >= fromBase
        BY <1>5, <1>9, <1>10
      <3>3. usable => tip <= cap
        BY <1>9, <3>2
      <3> QED
        BY <2>1, <3>1, <3>3
    <2>2. CASE estimator = "fixed price" /\ currentTip = TipCapDefault
      <3>1. fee.tip <= fee.cap /\ TipCapDefault <= fee.cap
        BY <1>0, <2>2 DEF GasInv, CapInv, CapCoversTip
      <3> baseline <= fee.cap
        BY <1>2, <3>1, GasAssumption DEF baseline, Larger
      <3>2. bumpFeePrice(baseline) <= bumpFeePrice(fee.cap)
        BY <1>2, <1>3, BumpedPriceIsMonotonic
      <3>3. tip = bumpFeePrice(baseline)
        <4>1. /\ TipCapDefault \in Nat /\ bumpFeePrice(baseline) \in Nat
              /\ bumpFeePrice(baseline) >= TipCapDefault
          BY <1>3, <1>4, GasAssumption
        <4>2. Larger(bumpFeePrice(baseline), TipCapDefault) = bumpFeePrice(baseline)
          BY <4>1 DEF Larger
        <4> QED
          BY <2>2, <4>2 DEF tip, maxBumpedFee
      <3>4. /\ cap \in Nat /\ bumpFeePrice(fee.cap) \in Nat /\ cap >= bumpFeePrice(fee.cap)
            /\ bumpFeePrice(baseline) \in Nat
        BY <1>4, <1>8, <1>10
      <3>5. bumpFeePrice(baseline) <= cap
        BY <3>2, <3>4
      <3> QED
        BY <3>3, <3>5
    <2> QED
      BY <1>0, <2>1, <2>2
  <1>13. blind' \in BOOLEAN
    BY <1>1
  <1> QED
    BY <1>1, <1>5, <1>10, <1>11, <1>0, <1>12, <1>13 DEF GoodBump

LEMMA HistoryAndFixedBumps ==
    GasInv /\ (BumpWithHistory \/ BumpFixed) => GoodBump
  <1>1. ASSUME GasInv, BumpWithHistory PROVE GoodBump
    <2>1. PICK price \in Market \cup {NoPrice}, base \in Market \cup {NoPrice} :
            bumpDynamicFee(price, base)
      BY <1>1 DEF BumpWithHistory
    <2>2. estimator = "block history" /\ feeType = "dynamic"
      BY <1>1 DEF BumpWithHistory
    <2>3. price \in Nat \cup {NoPrice}
      BY GasAssumption
    <2> QED
      BY <1>1, <2>1, <2>2, <2>3, DynamicBump
  <1>2. ASSUME GasInv, BumpFixed PROVE GoodBump
    <2>1. TipCapDefault \in Nat \cup {NoPrice}
      BY GasAssumption
    <2> QED
      BY <1>2, <2>1, DynamicBump DEF BumpFixed
  <1> QED
    BY <1>1, <1>2

(* bumpGasPrice: one price is both caps. *)
LEMMA GasPriceBump ==
    GasInv /\ BumpGasPrice => GoodBump
  <1>0. SUFFICES ASSUME GasInv /\ BumpGasPrice PROVE GoodBump
    OBVIOUS
  <1>1. /\ estimator = "block history" /\ feeType = "legacy" /\ fee.tip = fee.cap
        /\ fee.tip \in Nat /\ fee.cap \in Nat /\ blind' \in BOOLEAN
    BY <1>0, Fees DEF BumpGasPrice, GasInv, CapInv
  <1>2. PICK price \in Market \cup {NoPrice} :
          LET p == maxBumpedFee(price, bumpFeePrice(fee.cap)) IN
          p <= MaxGasPrice /\ p # fee.cap /\ Bump(p, p)
    BY <1>0 DEF BumpGasPrice
  <1> DEFINE p == maxBumpedFee(price, bumpFeePrice(fee.cap))
  <1>3. p <= MaxGasPrice /\ p # fee.cap /\ Bump(p, p)
    BY <1>2
  <1> HIDE DEF p
  <1>4. /\ bumpFeePrice(fee.cap) \in Nat /\ bumpFeePrice(fee.cap) >= fee.cap
        /\ bumpFeePrice(fee.cap) >= AddPercentage(fee.cap, 10)
    BY <1>1, BumpedPrice
  <1>5. price \in Nat \cup {NoPrice}
    BY GasAssumption
  <1>6. p \in Nat /\ p >= bumpFeePrice(fee.cap)
    BY <1>4, <1>5, WithMarket DEF p
  <1>7. AddPercentage(fee.cap, 10) \in Nat /\ KeyPriceMax \in Nat
    BY <1>1, PercentageIsNat, GasAssumption
  <1>8. p > fee.cap /\ p >= AddPercentage(fee.cap, 10) /\ p <= KeyPriceMax
    <2>1. /\ MaxGasPrice \in Nat /\ MaxGasPrice <= KeyPriceMax /\ p <= MaxGasPrice
          /\ fee.cap \in Nat /\ p # fee.cap
      BY <1>1, <1>3, MaximumIsNat
    <2> QED
      BY <1>4, <1>6, <1>7, <2>1
  <1>9. Replaces(p, p)
    BY <1>1, <1>6, <1>8 DEF Replaces
  <1>10. p <= p
    BY <1>6
  <1> QED
    BY <1>1, <1>3, <1>6, <1>9, <1>10 DEF GoodBump

(* LimitBumpedFee: each cap is limited on its own, and the larger stays the larger. *)
LEMMA FeeHistoryBumps ==
    GasInv /\ (BumpWithFeeHistory \/ BumpPriceWithFeeHistory) => GoodBump
  <1>1. ASSUME GasInv /\ BumpWithFeeHistory PROVE GoodBump
    <2>1. /\ estimator = "fee history" /\ feeType = "dynamic" /\ fee.tip <= fee.cap
          /\ fee.tip \in Nat /\ fee.cap \in Nat /\ blind' \in BOOLEAN
      BY <1>1, Fees DEF BumpWithFeeHistory
    <2>2. PICK price \in Market, base \in Market :
            LET tip == LimitBumpedFee(fee.tip, price)
                cap == LimitBumpedFee(fee.cap, AddPercentage(base, 40) + price)
            IN IsEnough(fee.tip, tip) /\ IsEnough(fee.cap, cap) /\ Bump(tip, cap)
      BY <1>1 DEF BumpWithFeeHistory
    <2> DEFINE tip == LimitBumpedFee(fee.tip, price)
               marketCap == AddPercentage(base, 40) + price
               cap == LimitBumpedFee(fee.cap, marketCap)
    <2>3. IsEnough(fee.tip, tip) /\ IsEnough(fee.cap, cap) /\ Bump(tip, cap)
      BY <2>2
    <2>4. price \in Nat /\ base \in Nat /\ AddPercentage(base, 40) \in Nat
      BY GasAssumption, PercentageIsNat
    <2>5. marketCap \in Nat /\ price <= marketCap
      BY <2>4
    <2> HIDE DEF tip, marketCap, cap
    <2>6. tip \in Nat /\ tip <= KeyPriceMax /\ cap \in Nat /\ cap <= KeyPriceMax
      BY <2>1, <2>4, <2>5, Limited DEF tip, cap
    <2>7. tip <= cap
      BY <2>1, <2>4, <2>5, LimitedIsMonotonic DEF tip, cap
    <2>8. Replaces(tip, cap)
      BY <2>1, <2>3, <2>6, EnoughIsMore DEF Replaces
    <2> QED
      BY <2>1, <2>3, <2>6, <2>7, <2>8 DEF GoodBump
  <1>2. ASSUME GasInv /\ BumpPriceWithFeeHistory PROVE GoodBump
    <2>1. /\ estimator = "fee history" /\ feeType = "legacy" /\ fee.tip = fee.cap
          /\ fee.tip \in Nat /\ fee.cap \in Nat /\ blind' \in BOOLEAN
      BY <1>2, Fees DEF BumpPriceWithFeeHistory, GasInv, CapInv
    <2>2. PICK price \in Market :
            LET p == LimitBumpedFee(fee.cap, price) IN IsEnough(fee.cap, p) /\ Bump(p, p)
      BY <1>2 DEF BumpPriceWithFeeHistory
    <2> DEFINE p == LimitBumpedFee(fee.cap, price)
    <2>3. IsEnough(fee.cap, p) /\ Bump(p, p)
      BY <2>2
    <2>4. price \in Nat
      BY GasAssumption
    <2> HIDE DEF p
    <2>5. p \in Nat /\ p <= KeyPriceMax
      BY <2>1, <2>4, Limited DEF p
    <2>6. p <= p
      BY <2>5
    <2>7. Replaces(p, p)
      BY <2>1, <2>3, <2>5, EnoughIsMore DEF Replaces
    <2> QED
      BY <2>1, <2>3, <2>5, <2>6, <2>7 DEF GoodBump
  <1> QED
    BY <1>1, <1>2

LEMMA EveryBumpIsGood ==
    GasInv /\ GasNext => FirstFee \/ BumpWithoutMempool \/ GoodBump
  BY HistoryAndFixedBumps, GasPriceBump, FeeHistoryBumps DEF GasNext

----------------------------------------------------------------------------
(* The invariant. *)

LEMMA GasInitEstablishes == GasInit => GasInv
  <1>0. SUFFICES ASSUME GasInit PROVE GasInv
    OBVIOUS
  <1>1. /\ estimator \in Estimators
        /\ fee = [tip |-> 0, cap |-> 0] /\ feeType = "none"
        /\ bumped = FALSE /\ blind = FALSE
    BY <1>0 DEF GasInit
  <1>2. fee \in [tip : Nat, cap : Nat] /\ fee.tip <= fee.cap
    <2>1. fee.tip = 0 /\ fee.cap = 0
      BY <1>1
    <2>2. fee \in [tip : Nat, cap : Nat]
      BY <1>1
    <2>3. 0 <= 0
      OBVIOUS
    <2> QED
      BY <2>1, <2>2, <2>3
  <1>3. GasTypeOK
    BY <1>1, <1>2 DEF GasTypeOK
  <1>4. CapInv /\ BumpsStayBelowMax
    BY <1>1 DEF CapInv, BumpsStayBelowMax
  <1>5. CapCoversTip
    BY <1>2 DEF CapCoversTip
  <1> QED
    BY <1>3, <1>4, <1>5 DEF GasInv

(* The fee of the market has its tip covered and is within the maximum. *)
LEMMA MarketFeePreserves ==
    GasInv /\ MarketFee /\ estimator \in {"fee history", "no mempool"} /\ bumped' \in BOOLEAN
        /\ blind' \in BOOLEAN => GasInv'
  <1>0. SUFFICES ASSUME GasInv, MarketFee, estimator \in {"fee history", "no mempool"},
                        bumped' \in BOOLEAN, blind' \in BOOLEAN
                 PROVE  GasInv'
    OBVIOUS
  <1>1. PICK price \in Nat, base \in Market :
          NewFee(Smaller(price, KeyPriceMax),
                 Smaller(AddPercentage(base, 40) + price, KeyPriceMax), "dynamic")
    BY <1>0, GasAssumption DEF MarketFee, PriorityFees
  <1> DEFINE tip == Smaller(price, KeyPriceMax)
             cap == Smaller(AddPercentage(base, 40) + price, KeyPriceMax)
  <1>2. AddPercentage(base, 40) \in Nat
    BY GasAssumption, PercentageIsNat
  <1>3. tip \in Nat /\ cap \in Nat /\ tip <= cap /\ tip <= KeyPriceMax /\ cap <= KeyPriceMax
    BY <1>2, GasAssumption DEF Smaller
  <1>4. NewFee(tip, cap, "dynamic")
    BY <1>1
  <1> HIDE DEF tip, cap
  <1>5. fee' = [tip |-> tip, cap |-> cap] /\ feeType' = "dynamic" /\ estimator' = estimator
    BY <1>4 DEF NewFee
  <1>6. GasTypeOK'
    BY <1>0, <1>3, <1>5 DEF GasInv, GasTypeOK
  <1>7. CapInv'
    BY <1>0, <1>5 DEF CapInv
  <1>8. BumpsStayBelowMax' /\ CapCoversTip'
    BY <1>3, <1>5 DEF BumpsStayBelowMax, CapCoversTip
  <1> QED
    BY <1>6, <1>7, <1>8 DEF GasInv

(* A first fee of any estimator has its tip covered. *)
LEMMA FirstFeePreserves == GasInv /\ FirstFee => GasInv'
  <1>0. SUFFICES ASSUME GasInv /\ FirstFee PROVE GasInv'
    OBVIOUS
  <1>1. bumped' = FALSE /\ blind' = FALSE /\ estimator \in Estimators
    BY <1>0 DEF FirstFee, GasInv, GasTypeOK
  <1>2. ASSUME NEW tip \in Nat, NEW cap \in Nat, NEW type \in {"legacy", "dynamic"},
               NewFee(tip, cap, type), tip <= cap, type = "legacy" => tip = cap,
               estimator = "fixed price" => type = "dynamic" /\ cap = FeeCapDefault
        PROVE  GasInv'
    <2>1. fee' = [tip |-> tip, cap |-> cap] /\ feeType' = type /\ estimator' = estimator
      BY <1>2 DEF NewFee
    <2>2. GasTypeOK'
      BY <1>1, <2>1 DEF GasTypeOK
    <2>3. CapInv'
      BY <1>2, <2>1, GasAssumption DEF CapInv
    <2>4. BumpsStayBelowMax' /\ CapCoversTip'
      BY <1>1, <1>2, <2>1 DEF BumpsStayBelowMax, CapCoversTip
    <2> QED
      BY <2>2, <2>3, <2>4 DEF GasInv
  <1>3. /\ KeyPriceMax \in Nat /\ TipCapDefault \in Nat /\ FeeCapDefault \in Nat
        /\ TipCapDefault <= FeeCapDefault
    BY GasAssumption
  <1>4. CASE /\ estimator = "block history"
             /\ \E price \in Market, base \in Market :
                  LET tip == Smaller(price, MaxGasPrice) IN NewFee(tip, calcFeeCap(base, tip), "dynamic")
    <2>1. PICK price \in Market, base \in Market :
            NewFee(Smaller(price, MaxGasPrice), calcFeeCap(base, Smaller(price, MaxGasPrice)), "dynamic")
      BY <1>4
    <2>2. Smaller(price, MaxGasPrice) \in Nat /\ Smaller(price, MaxGasPrice) <= MaxGasPrice
      BY GasAssumption, MaximumIsNat DEF Smaller
    <2>3. /\ calcFeeCap(base, Smaller(price, MaxGasPrice)) \in Nat
          /\ Smaller(price, MaxGasPrice) <= calcFeeCap(base, Smaller(price, MaxGasPrice))
      BY <2>2, FeeCap
    <2> QED
      BY <1>2, <1>4, <2>1, <2>2, <2>3
  <1>5. CASE estimator = "fixed price" /\ NewFee(TipCapDefault, FeeCapDefault, "dynamic")
    BY <1>2, <1>3, <1>5
  <1>6. CASE estimator \in {"fee history", "no mempool"} /\ MarketFee
    BY <1>0, <1>1, <1>6, MarketFeePreserves
  <1>7. CASE /\ estimator \in {"block history", "fee history"}
             /\ \E price \in Market :
                  LET p == Smaller(price, IF estimator = "block history" THEN MaxGasPrice
                                                                         ELSE KeyPriceMax)
                  IN NewFee(p, p, "legacy")
    <2>1. PICK price \in Market, limit \in {MaxGasPrice, KeyPriceMax} :
            NewFee(Smaller(price, limit), Smaller(price, limit), "legacy")
      BY <1>7
    <2>2. Smaller(price, limit) \in Nat /\ Smaller(price, limit) <= Smaller(price, limit)
      BY GasAssumption, MaximumIsNat DEF Smaller
    <2> QED
      BY <1>2, <1>7, <2>1, <2>2
  <1> QED
    BY <1>0, <1>4, <1>5, <1>6, <1>7 DEF FirstFee

LEMMA GoodBumpPreserves == GasInv /\ GoodBump => GasInv'
  <1>0. SUFFICES ASSUME GasInv /\ GoodBump PROVE GasInv'
    OBVIOUS
  <1>1. PICK tip \in Nat, cap \in Nat :
          /\ Replaces(tip, cap) /\ Bump(tip, cap)
          /\ blind' \in BOOLEAN
          /\ feeType \in {"legacy", "dynamic"}
          /\ feeType = "legacy" => tip = cap
          /\ (estimator = "block history" => ~blind') => tip <= cap
    BY <1>0 DEF GoodBump
  <1>2. /\ fee' = [tip |-> tip, cap |-> cap] /\ feeType' = feeType /\ estimator' = estimator
        /\ bumped' = TRUE
    BY <1>1 DEF Bump, NewFee
  <1>3. GasTypeOK'
    BY <1>0, <1>1, <1>2 DEF GasInv, GasTypeOK
  <1>4. cap >= fee.cap /\ tip <= KeyPriceMax /\ cap <= KeyPriceMax /\ fee.cap \in Nat
    <2>1. fee.cap \in Nat
      BY <1>0, Fees
    <2>2. cap > fee.cap \/ cap = fee.cap
      BY <1>1 DEF Replaces
    <2>3. tip <= KeyPriceMax /\ cap <= KeyPriceMax
      BY <1>1 DEF Replaces
    <2>4. cap >= fee.cap
      BY <2>1, <2>2
    <2> QED
      BY <2>1, <2>3, <2>4
  <1>5. CapInv'
    <2>1. fee'.tip = tip /\ fee'.cap = cap
      BY <1>2
    <2>2. TipCapDefault \in Nat /\ fee.cap \in Nat /\ cap >= fee.cap
      BY <1>4, GasAssumption
    <2>3. estimator = "fixed price" => fee.cap >= TipCapDefault /\ feeType # "legacy"
      BY <1>0, <1>1 DEF GasInv, CapInv
    <2>4. fee.cap >= TipCapDefault => cap >= TipCapDefault
      BY <2>2
    <2> QED
      BY <1>1, <1>2, <2>1, <2>3, <2>4 DEF CapInv
  <1>6. BumpsStayBelowMax' /\ CapCoversTip'
    BY <1>1, <1>2, <1>4 DEF BumpsStayBelowMax, CapCoversTip
  <1> QED
    BY <1>3, <1>5, <1>6 DEF GasInv

LEMMA GasStep == GasInv /\ [GasNext]_gasVars => GasInv'
  <1>1. GasInv /\ UNCHANGED gasVars => GasInv'
    <2> SUFFICES ASSUME GasInv, UNCHANGED gasVars PROVE GasInv'
      OBVIOUS
    <2>1. fee' = fee /\ estimator' = estimator /\ feeType' = feeType /\ bumped' = bumped /\ blind' = blind
      BY DEF gasVars
    <2>2. GasTypeOK' /\ CapInv'
      BY <2>1 DEF GasInv, GasTypeOK, CapInv
    <2>3. BumpsStayBelowMax' /\ CapCoversTip'
      BY <2>1 DEF GasInv, BumpsStayBelowMax, CapCoversTip
    <2> QED
      BY <2>2, <2>3 DEF GasInv
  <1>2. GasInv /\ BumpWithoutMempool => GasInv'
    <2> SUFFICES ASSUME GasInv, BumpWithoutMempool PROVE GasInv'
      OBVIOUS
    <2>1. /\ MarketFee /\ estimator \in {"fee history", "no mempool"}
          /\ bumped' \in BOOLEAN /\ blind' \in BOOLEAN
      BY Fees DEF BumpWithoutMempool
    <2> QED
      BY <2>1, MarketFeePreserves
  <1> QED
    BY <1>1, <1>2, EveryBumpIsGood, FirstFeePreserves, GoodBumpPreserves

----------------------------------------------------------------------------
(* No bump leads above the maximum price of the sender, and the fee cap covers the tip
   cap, unless the base fee was missing when a cap was computed from it: for every
   configuration and market, however long the transaction is bumped. *)
THEOREM FeesAreValidHolds == GasSpec => []FeesAreValid
  <1>1. GasInv => FeesAreValid
    BY DEF GasInv, FeesAreValid
  <1> QED
    BY <1>1, GasInitEstablishes, GasStep, PTL DEF GasSpec

(* Every bump of an estimator that bumps, which the one of a chain without a mempool does
   not, is one that the nodes accept as a replacement: both caps are above those of the
   attempt before, by a tenth at least.  ValidateConfig enforces what this rests on; it
   does not enforce a BumpMin, without which the tenth of a few wei is nothing. *)
THEOREM BumpsAreReplacementsHold == GasSpec => BumpsAreReplacements
  <1> DEFINE Accepted == bumped' /\ estimator # "no mempool" =>
                           /\ fee'.tip > fee.tip
                           /\ fee'.cap > fee.cap \/ (BumpMin = 0 /\ fee.cap < 10)
                           /\ fee'.tip >= (fee.tip * 110) \div 100
                           /\ fee'.cap >= (fee.cap * 110) \div 100
  <1>1. \A w \in Nat : AddPercentage(w, 10) = (w * 110) \div 100
    BY DEF AddPercentage
  <1>2. GasInv /\ GoodBump => Accepted
    <2>1. SUFFICES ASSUME GasInv /\ GoodBump PROVE Accepted
      OBVIOUS
    <2>2. PICK tip \in Nat, cap \in Nat : Replaces(tip, cap) /\ Bump(tip, cap)
      BY <2>1 DEF GoodBump
    <2>3. fee'.tip = tip /\ fee'.cap = cap
      BY <2>2 DEF Bump, NewFee
    <2>4. fee.tip \in Nat /\ fee.cap \in Nat
      BY <2>1, Fees
    <2> QED
      BY <1>1, <2>2, <2>3, <2>4 DEF Replaces
  <1>3. FirstFee \/ BumpWithoutMempool => Accepted
    BY DEF FirstFee, BumpWithoutMempool
  <1>4. GasInv /\ [GasNext]_gasVars => [Accepted]_gasVars
    BY <1>2, <1>3, EveryBumpIsGood
  <1> QED
    BY <1>4, GasInitEstablishes, GasStep, PTL DEF GasSpec, BumpsAreReplacements

----------------------------------------------------------------------------
(* Pruning, for any filters, pages of any size and any number of blocks and logs.  The
   ids of a query are logs that filters did not want when they were selected; that they
   still do not when they are deleted needs to know that pages do not overlap, and that
   the logs a filter keeps on a page are never selected from a later one. *)

(* The filters there have been all the round. *)
Steady == filterRows \ touched

(* Two logs differ in their block or their index, and no log is of a block to come. *)
LogsTyped ==
    /\ PruningTypeOK /\ IsFiniteSet(logRows)
    /\ query = [lower |-> query.lower, end |-> query.end, ids |-> query.ids]
    /\ \A l \in logRows : l.block <= lastBlock
    /\ \A k, l \in logRows : k.block = l.block /\ k.index = l.index => k = l

UnmatchedIds ==
    pruner \in {"unmatched pages", "delete unmatched"} =>
        \A l \in query.ids : \A f \in Steady : l.kind \notin Matches[f]

(* The logs of a filter that are not selected, on the pages that were seen. *)
Spared(f) ==
    {k \in logRows \ query.ids :
        k.kind \in Matches[f] /\ (pruner = "excess pages" => k.block < query.lower)}

ExcessIds ==
    pruner \in {"excess pages", "delete excess"} =>
        \A l \in query.ids : \A f \in Steady :
            l.kind \in Matches[f] =>
                MaxLogsKept[f] > 0 /\ Cardinality(Spared(f)) >= MaxLogsKept[f]

PagesAreBehind ==
    pruner = "excess pages" => \A l \in query.ids : l.block < query.lower

SelectedInv == UnmatchedIds /\ ExcessIds /\ PagesAreBehind
LogPruningInv == LogsTyped /\ SelectedInv

LEMMA PruningNumbers ==
    /\ LogPrunePageSize \in Nat /\ PruneKeepDepth \in Nat /\ PruneFinalityDepth \in Nat
    /\ LastBlock \in Nat /\ LastLog \in Nat /\ MaxTurns \in Nat
BY PruningAssumption

LEMMA PruningConstants ==
    /\ \A f \in Filters : MaxLogsKept[f] \in Nat /\ Retention[f] \in Nat /\ Matches[f] \in SUBSET Kinds
BY PruningAssumption

(* What the types say of the state, one by one. *)
LEMMA TypedState ==
    ASSUME LogsTyped
    PROVE  /\ lastBlock \in 0..LastBlock /\ firstBlock \in 0..lastBlock
           /\ logCount \in 0..LastLog /\ turns \in 0..MaxTurns
           /\ filterRows \subseteq Filters /\ touched \subseteq Filters /\ countActive \in BOOLEAN
           /\ pruner \in {"idle", "excess", "excess pages", "delete excess",
                          "unmatched", "unmatched pages", "delete unmatched"}
           /\ query.lower \in 0..(LastBlock + 1) /\ query.end \in 0..LastBlock
           /\ query.ids \subseteq LogRow /\ logRows \subseteq LogRow
BY DEF LogsTyped, PruningTypeOK

LEMMA TypedNumbers ==
    ASSUME LogsTyped
    PROVE  /\ lastBlock \in Nat /\ firstBlock \in Nat /\ turns \in Nat /\ logCount \in Nat
           /\ query.lower \in Nat /\ query.end \in Nat
           /\ firstBlock <= lastBlock /\ lastBlock <= LastBlock /\ turns <= MaxTurns
           /\ logCount <= LastLog /\ query.lower <= LastBlock + 1 /\ query.end <= LastBlock
<1>1. /\ lastBlock \in 0..LastBlock /\ firstBlock \in 0..lastBlock
      /\ logCount \in 0..LastLog /\ turns \in 0..MaxTurns
      /\ query.lower \in 0..(LastBlock + 1) /\ query.end \in 0..LastBlock
  BY TypedState
<1> QED
  BY <1>1, PruningNumbers

LEMMA LogBlocks ==
    LogsTyped => \A l \in logRows \cup query.ids : l.block \in Nat
<1>1. \A l \in LogRow : l.block \in Nat
  BY PruningNumbers DEF LogRow
<1> QED
  BY <1>1, TypedState

LEMMA QueryIsARecord ==
    LogsTyped => query = [lower |-> query.lower, end |-> query.end, ids |-> query.ids]
BY DEF LogsTyped

LEMMA FinalizedIsThere ==
    ASSUME LogsTyped
    PROVE  FinalizedBlock \in 0..lastBlock /\ lastBlock <= LastBlock /\ LastBlock \in Nat
BY TypedNumbers, PruningNumbers DEF FinalizedBlock

----------------------------------------------------------------------------
(* Row numbers are dense: where a row has a number above M, M rows have the numbers up
   to M.  These are the rows that max_logs_kept keeps. *)

NotAfter(k, l) == k.block < l.block \/ (k.block = l.block /\ k.index >= l.index)

LEMMA RowNumbersAreDense ==
    ASSUME NEW P \in SUBSET LogRow, IsFiniteSet(P), NEW f, NEW M \in Nat,
           \A k, l \in P : k.block = l.block /\ k.index = l.index => k = l,
           NEW l \in P, l.kind \in Matches[f], RowNumber(f, l, P) > M
    PROVE  Cardinality({k \in P : k.kind \in Matches[f] /\ RowNumber(f, k, P) <= M}) >= M
<1> DEFINE Rows == {k \in P : k.kind \in Matches[f]}
           UpTo(k) == {j \in Rows : NotAfter(j, k)}
           Low == {k \in Rows : Cardinality(UpTo(k)) <= M}
           Numbers == {Cardinality(UpTo(k)) : k \in Rows \ Low}
<1>1. \A k \in P : k.block \in Int /\ k.index \in Int
  BY PruningNumbers DEF LogRow
<1>2. \A k \in P : RowNumber(f, k, P) = Cardinality(UpTo(k))
  <2> TAKE k \in P
  <2>1. {j \in P : j.kind \in Matches[f] /\ (j.block < k.block \/ (j.block = k.block /\ j.index >= k.index))}
          = UpTo(k)
    BY DEF NotAfter
  <2> QED
    BY <2>1 DEF RowNumber
<1>3. {k \in P : k.kind \in Matches[f] /\ RowNumber(f, k, P) <= M} = Low
  <2> HIDE DEF UpTo
  <2> QED
    BY <1>2
<1>4. IsFiniteSet(Rows) /\ Rows \in SUBSET P
  <2>1. Rows \in SUBSET P
    OBVIOUS
  <2> QED
    BY <2>1, FS_Subset
<1>5. ASSUME NEW k \in Rows
      PROVE  IsFiniteSet(UpTo(k)) /\ Cardinality(UpTo(k)) \in Nat
  <2>1. UpTo(k) \in SUBSET Rows
    OBVIOUS
  <2> HIDE DEF UpTo, Rows
  <2> QED
    BY <1>4, <2>1, FS_Subset, FS_CardinalityType
<1>6. ASSUME NEW j \in Rows, NEW k \in Rows, j \in UpTo(k), j # k
      PROVE  Cardinality(UpTo(j)) < Cardinality(UpTo(k))
  <2>1. j \in P /\ k \in P /\ NotAfter(j, k)
    BY <1>6
  <2>2. ~NotAfter(k, j)
    BY <1>1, <1>6, <2>1 DEF NotAfter
  <2>3. \A i \in P : NotAfter(i, j) => NotAfter(i, k)
    BY <1>1, <2>1 DEF NotAfter
  <2>4. NotAfter(k, k)
    BY <1>1, <2>1 DEF NotAfter
  <2>5. UpTo(j) \cup {k} \in SUBSET UpTo(k) /\ k \notin UpTo(j)
    BY <2>2, <2>3, <2>4
  <2> HIDE DEF UpTo
  <2>6. Cardinality(UpTo(j) \cup {k}) = Cardinality(UpTo(j)) + 1
    BY <1>5, <2>5, FS_AddElement
  <2>7. Cardinality(UpTo(j) \cup {k}) <= Cardinality(UpTo(k))
    BY <1>5, <2>5, FS_Subset
  <2> QED
    BY <1>5, <2>6, <2>7
<1>7. IsFiniteSet(Low) /\ Cardinality(Low) \in Nat /\ Low \in SUBSET Rows
  <2>1. Low \in SUBSET Rows
    OBVIOUS
  <2> HIDE DEF Low, Rows
  <2> QED
    BY <1>4, <2>1, FS_Subset, FS_CardinalityType
<1>8. Numbers \in SUBSET Nat /\ Numbers # {}
  <2>1. l \in Rows /\ l \notin Low
    <3>1. l \in Rows /\ Cardinality(UpTo(l)) \in Nat /\ Cardinality(UpTo(l)) > M
      BY <1>2, <1>5
    <3> HIDE DEF UpTo
    <3> QED
      BY <3>1
  <2> HIDE DEF UpTo, Low, Rows
  <2> QED
    BY <1>5, <2>1
<1>9. PICK m \in Rows \ Low : \A k \in Rows \ Low : Cardinality(UpTo(m)) <= Cardinality(UpTo(k))
  <2> HIDE DEF UpTo, Low, Rows
  <2>1. PICK n \in Numbers : \A y \in Numbers : n <= y
    <3> HIDE DEF Numbers
    <3> QED
      BY <1>8, LeastOfNats
  <2> QED
    BY <2>1
<1>10. UpTo(m) \in SUBSET (Low \cup {m})
  <2>1. ASSUME NEW j \in UpTo(m), j # m, j \notin Low
        PROVE  FALSE
    <3>1. j \in Rows /\ m \in Rows
      BY <1>9
    <3>2. Cardinality(UpTo(j)) < Cardinality(UpTo(m))
      BY <1>6, <2>1, <3>1
    <3>3. Cardinality(UpTo(m)) <= Cardinality(UpTo(j))
      BY <1>9, <2>1, <3>1
    <3> HIDE DEF UpTo
    <3> QED
      BY <1>5, <3>1, <3>2, <3>3
  <2> QED
    BY <2>1
<1>11. Cardinality(UpTo(m)) <= Cardinality(Low) + 1
  <2> HIDE DEF UpTo, Low
  <2>1. IsFiniteSet(Low \cup {m}) /\ Cardinality(Low \cup {m}) = Cardinality(Low) + 1
    BY <1>7, <1>9, FS_AddElement
  <2> QED
    BY <1>10, <2>1, FS_Subset
<1>12. Cardinality(UpTo(m)) > M
  BY <1>5, <1>9
<1>13. Cardinality(Low) >= M
  <2> HIDE DEF UpTo, Low, Rows
  <2>1. Cardinality(UpTo(m)) \in Nat
    BY <1>5, <1>9
  <2> QED
    BY <1>7, <1>11, <1>12, <2>1
<1> HIDE DEF Low
<1> QED
  BY <1>3, <1>13

----------------------------------------------------------------------------
(* What each page adds. *)

LEMMA PageBounds ==
    ASSUME LogsTyped
    PROVE  /\ Upper \in Int
           /\ LogPrunePageSize # 0 /\ ~(Upper >= query.end) =>
                Upper >= query.lower /\ Upper + 1 \in 0..(LastBlock + 1)
           /\ Page \in SUBSET logRows /\ Page \in SUBSET LogRow /\ IsFiniteSet(Page)
           /\ \A l \in Page : query.lower <= l.block /\ l.block <= Upper
           /\ \A l \in logRows : l.block \in Nat
<1>1. query.lower \in 0..(LastBlock + 1) /\ query.end \in 0..LastBlock /\ logRows \in SUBSET LogRow
  BY DEF LogsTyped, PruningTypeOK
<1>2. Upper \in Int /\ (LogPrunePageSize # 0 /\ ~(Upper >= query.end) =>
                          Upper >= query.lower /\ Upper + 1 \in 0..(LastBlock + 1))
  BY <1>1, PruningNumbers DEF Upper
<1>3. Page \in SUBSET logRows /\ IsFiniteSet(Page)
  <2>1. Page \in SUBSET logRows
    BY DEF Page
  <2> QED
    BY <2>1, FS_Subset DEF LogsTyped
<1>4. \A l \in logRows : l.block \in Nat
  BY <1>1, PruningNumbers DEF LogRow
<1> QED
  BY <1>1, <1>2, <1>3, <1>4, PruningConstants DEF Page

(* Of a filter with a log among the excess, the page keeps as many as the filter wants. *)
LEMMA PageKeeps ==
    ASSUME LogsTyped, NEW l \in Excess(Page), NEW f \in filterRows, l.kind \in Matches[f]
    PROVE  /\ MaxLogsKept[f] \in Nat /\ MaxLogsKept[f] > 0
           /\ \E K \in SUBSET (Page \ Excess(Page)) :
                /\ \A k \in K : k.kind \in Matches[f]
                /\ IsFiniteSet(K) /\ Cardinality(K) \in Nat /\ Cardinality(K) >= MaxLogsKept[f]
<1> DEFINE M == MaxLogsKept[f]
           K == {k \in Page : k.kind \in Matches[f] /\ RowNumber(f, k, Page) <= M}
<1>1. l \in Page /\ f \in MatchingFilters(l) /\ Old(f, l, Page) /\ M \in Nat
  BY PruningConstants DEF Excess, MatchingFilters, LogsTyped, PruningTypeOK
<1>2. M # 0 /\ RowNumber(f, l, Page) > M
  BY <1>1 DEF Old
<1>3. \A j, k \in Page : j.block = k.block /\ j.index = k.index => j = k
  BY PageBounds DEF LogsTyped
<1>4. Cardinality(K) >= M
  BY <1>1, <1>2, <1>3, PageBounds, RowNumbersAreDense
<1>5. \A k \in Page : RowNumber(f, k, Page) \in Nat
  <2> TAKE k \in Page
  <2>1. {j \in Page : /\ j.kind \in Matches[f]
                      /\ \/ j.block < k.block
                         \/ j.block = k.block /\ j.index >= k.index} \in SUBSET Page
    OBVIOUS
  <2> QED
    BY <2>1, PageBounds, FS_Subset, FS_CardinalityType DEF RowNumber
<1>6. K \in SUBSET (Page \ Excess(Page))
  <2>1. ASSUME NEW k \in K, k \in Excess(Page)
        PROVE  FALSE
    <3>1. f \in MatchingFilters(k)
      BY DEF MatchingFilters
    <3>2. Old(f, k, Page)
      BY <2>1, <3>1 DEF Excess
    <3> QED
      BY <1>1, <1>5, <3>2 DEF Old
  <2> QED
    BY <2>1
<1>7. IsFiniteSet(K) /\ Cardinality(K) \in Nat
  <2>1. K \in SUBSET Page
    OBVIOUS
  <2> QED
    BY <2>1, PageBounds, FS_Subset, FS_CardinalityType
<1>8. \A k \in K : k.kind \in Matches[f]
  OBVIOUS
<1> HIDE DEF K
<1> QED
  BY <1>1, <1>2, <1>4, <1>6, <1>7, <1>8

LEMMA SparedIsFinite ==
    ASSUME LogsTyped, NEW f
    PROVE  IsFiniteSet(Spared(f)) /\ Cardinality(Spared(f)) \in Nat
<1>1. Spared(f) \in SUBSET logRows
  BY DEF Spared
<1> QED
  BY <1>1, FS_Subset, FS_CardinalityType DEF LogsTyped

LEMMA MoreSpared ==
    ASSUME LogsTyped', NEW f, NEW K \in SUBSET Spared(f)', NEW n \in Nat, Cardinality(K) >= n
    PROVE  Cardinality(Spared(f)') >= n
<1>1. Spared(f)' \in SUBSET logRows' /\ IsFiniteSet(logRows')
  BY DEF Spared, LogsTyped
<1>2. IsFiniteSet(Spared(f)') /\ Cardinality(Spared(f)') \in Nat
  BY <1>1, FS_Subset, FS_CardinalityType
<1>3. Cardinality(K) \in Nat /\ Cardinality(K) <= Cardinality(Spared(f)')
  BY <1>2, FS_Subset, FS_CardinalityType
<1> QED
  BY <1>2, <1>3

(* Steps outside the queries only add logs, and only take filters from the steady ones. *)
LEMMA OthersKeepSelected ==
    ASSUME LogPruningInv, LogsTyped', logRows \subseteq logRows',
           UNCHANGED <<pruner, query>>,
           pruner # "idle" => Steady' \subseteq Steady,
           filterRows \subseteq Filters
    PROVE  SelectedInv'
<1>1. UnmatchedIds'
  BY DEF LogPruningInv, SelectedInv, UnmatchedIds
<1>2. PagesAreBehind'
  BY DEF LogPruningInv, SelectedInv, PagesAreBehind
<1>3. ExcessIds'
  <2>1. SUFFICES ASSUME pruner' \in {"excess pages", "delete excess"},
                        NEW l \in query'.ids, NEW f \in Steady', l.kind \in Matches[f]
                 PROVE  MaxLogsKept[f] > 0 /\ Cardinality(Spared(f)') >= MaxLogsKept[f]
    BY DEF ExcessIds, Spared
  <2>2. f \in Steady /\ l \in query.ids /\ f \in Filters
    BY <2>1 DEF Steady
  <2>3. MaxLogsKept[f] > 0 /\ Cardinality(Spared(f)) >= MaxLogsKept[f] /\ MaxLogsKept[f] \in Nat
    BY <2>1, <2>2, PruningConstants DEF LogPruningInv, SelectedInv, ExcessIds
  <2>4. Spared(f) \in SUBSET Spared(f)'
    BY DEF Spared
  <2> QED
    BY <2>3, <2>4, MoreSpared
<1> QED
  BY <1>1, <1>2, <1>3 DEF SelectedInv

LEMMA NothingSelected ==
    ASSUME query'.ids = {}
    PROVE  SelectedInv'
BY DEF SelectedInv, UnmatchedIds, ExcessIds, PagesAreBehind

LEMMA IdleSelects ==
    ASSUME pruner' \notin {"excess pages", "delete excess", "unmatched pages", "delete unmatched"}
    PROVE  SelectedInv'
BY DEF SelectedInv, UnmatchedIds, ExcessIds, PagesAreBehind

----------------------------------------------------------------------------
(* The shape of the tables. *)

LEMMA SaveBlockKeepsTypes ==
    ASSUME LogsTyped, SaveBlock
    PROVE  LogsTyped' /\ logRows \subseteq logRows'
<1>1. PICK n \in 0..2 : \E saved \in [1..n -> UNION {Matches[f] : f \in filterRows}] :
        /\ lastBlock < LastBlock /\ logCount + n <= LastLog
        /\ lastBlock' = lastBlock + 1
        /\ firstBlock' = IF firstBlock = 0 THEN lastBlock + 1 ELSE firstBlock
        /\ logRows' = logRows \cup
             {[block |-> lastBlock + 1, index |-> i, kind |-> saved[i]] : i \in 1..n}
        /\ logCount' = logCount + n
        /\ UNCHANGED <<filterRows, countActive, pruner, query, touched, turns>>
  BY DEF SaveBlock
<1>2. PICK saved \in [1..n -> UNION {Matches[f] : f \in filterRows}] :
        /\ lastBlock < LastBlock /\ logCount + n <= LastLog
        /\ lastBlock' = lastBlock + 1
        /\ firstBlock' = IF firstBlock = 0 THEN lastBlock + 1 ELSE firstBlock
        /\ logRows' = logRows \cup
             {[block |-> lastBlock + 1, index |-> i, kind |-> saved[i]] : i \in 1..n}
        /\ logCount' = logCount + n
        /\ UNCHANGED <<filterRows, countActive, pruner, query, touched, turns>>
  BY <1>1
<1> DEFINE new(i) == [block |-> lastBlock + 1, index |-> i, kind |-> saved[i]]
           News == {new(i) : i \in 1..n}
<1>3. /\ lastBlock \in 0..LastBlock /\ firstBlock \in 0..lastBlock /\ logCount \in 0..LastLog
      /\ logRows \in SUBSET LogRow /\ filterRows \in SUBSET Filters
      /\ IsFiniteSet(logRows) /\ \A l \in logRows : l.block <= lastBlock
      /\ \A k, l \in logRows : k.block = l.block /\ k.index = l.index => k = l
  BY DEF LogsTyped, PruningTypeOK
<1>4. lastBlock' \in 1..LastBlock /\ firstBlock' \in 0..lastBlock' /\ logCount' \in 0..LastLog
  BY <1>2, <1>3, PruningNumbers
<1>5. \A i \in 1..n : saved[i] \in Kinds /\ i \in 1..2
  <2> TAKE i \in 1..n
  <2>1. saved[i] \in UNION {Matches[f] : f \in filterRows}
    OBVIOUS
  <2>2. PICK f \in filterRows : saved[i] \in Matches[f]
    BY <2>1
  <2> QED
    BY <1>3, <2>2, PruningConstants
<1>6. News \in SUBSET LogRow
  BY <1>2, <1>4, <1>5 DEF LogRow
<1>7. IsFiniteSet(News)
  <2>1. IsFiniteSet({new(1), new(2)})
    <3> HIDE DEF new
    <3>1. IsFiniteSet({} \cup {new(1)})
      BY FS_EmptySet, FS_AddElement
    <3>2. IsFiniteSet(({} \cup {new(1)}) \cup {new(2)})
      BY <3>1, FS_AddElement
    <3>3. ({} \cup {new(1)}) \cup {new(2)} = {new(1), new(2)}
      OBVIOUS
    <3> QED
      BY <3>2, <3>3
  <2>2. News \in SUBSET {new(1), new(2)}
    <3>1. \A i \in 1..n : i = 1 \/ i = 2
      OBVIOUS
    <3> HIDE DEF new
    <3> QED
      BY <3>1
  <2> HIDE DEF new, News
  <2> QED
    BY <2>1, <2>2, FS_Subset
<1>8. logRows' = logRows \cup News
  BY <1>2
<1>9. IsFiniteSet(logRows')
  <2> HIDE DEF News
  <2> QED
    BY <1>3, <1>7, <1>8, FS_Union
<1>10. \A l \in News : l.block = lastBlock + 1
  OBVIOUS
<1>11. \A k, l \in News : k.index = l.index => k = l
  OBVIOUS
<1>12. \A l \in logRows : l.block \in Int
  BY <1>3, PruningNumbers DEF LogRow
<1> HIDE DEF News
<1>13. \A l \in logRows' : l.block <= lastBlock'
  BY <1>2, <1>3, <1>8, <1>10, <1>12
<1>14. \A k, l \in logRows' : k.block = l.block /\ k.index = l.index => k = l
  <2>1. \A l \in logRows : l.block # lastBlock + 1
    BY <1>3, <1>12
  <2> QED
    BY <1>3, <1>8, <1>10, <1>11, <2>1
<1>15. PruningTypeOK'
  <2>1. query.end \in 0..LastBlock /\ query' = query /\ UNCHANGED <<filterRows, countActive, pruner, touched, turns>>
    BY <1>2 DEF LogsTyped, PruningTypeOK
  <2>2. logRows' \subseteq LogRow
    BY <1>3, <1>6, <1>8
  <2>3. lastBlock' \in 0..LastBlock
    BY <1>4
  <2> QED
    BY <1>4, <2>1, <2>2, <2>3 DEF LogsTyped, PruningTypeOK
<1> QED
  BY <1>2, <1>8, <1>9, <1>13, <1>14, <1>15 DEF LogsTyped

LEMMA SaveBlockKeeps ==
    ASSUME LogPruningInv, SaveBlock
    PROVE  LogPruningInv'
<1>1. LogsTyped' /\ logRows \subseteq logRows'
  BY SaveBlockKeepsTypes DEF LogPruningInv
<1>2. UNCHANGED <<filterRows, pruner, query, touched>>
  BY DEF SaveBlock
<1>3. Steady' \subseteq Steady /\ filterRows \subseteq Filters
  BY <1>2 DEF Steady, LogPruningInv, LogsTyped, PruningTypeOK
<1> QED
  BY <1>1, <1>2, <1>3, OthersKeepSelected DEF LogPruningInv

(* What the worker's steps leave alone or only delete from keeps its shape. *)
LEMMA DeletingKeepsTypes ==
    ASSUME LogsTyped, logRows' \subseteq logRows, lastBlock' = lastBlock,
           firstBlock' \in 0..lastBlock, logCount' = logCount, turns' \in 0..MaxTurns,
           filterRows' \subseteq Filters, touched' \subseteq Filters, countActive' \in BOOLEAN,
           pruner' \in {"idle", "excess", "excess pages", "delete excess",
                        "unmatched", "unmatched pages", "delete unmatched"},
           query' = [lower |-> query'.lower, end |-> query'.end, ids |-> query'.ids],
           query'.lower \in 0..(LastBlock + 1), query'.end \in 0..LastBlock,
           query'.ids \subseteq LogRow
    PROVE  LogsTyped'
<1>1. IsFiniteSet(logRows') /\ logRows' \subseteq LogRow
  <2>1. logRows' \in SUBSET logRows
    OBVIOUS
  <2> QED
    BY <2>1, FS_Subset DEF LogsTyped, PruningTypeOK
<1> QED
  BY <1>1 DEF LogsTyped, PruningTypeOK

LEMMA NoQueryTyped ==
    /\ NoQuery = [lower |-> NoQuery.lower, end |-> NoQuery.end, ids |-> NoQuery.ids]
    /\ NoQuery.lower \in 0..(LastBlock + 1) /\ NoQuery.end \in 0..LastBlock
    /\ NoQuery.ids = {} /\ NoQuery.ids \subseteq LogRow
BY PruningNumbers DEF NoQuery

LEMMA ChangeFilterKeeps ==
    ASSUME LogPruningInv, NEW f \in Filters, RegisterFilter(f) \/ UnregisterFilter(f)
    PROVE  LogPruningInv'
<1>1. /\ UNCHANGED <<firstBlock, lastBlock, logRows, pruner, query, logCount>>
      /\ filterRows' \subseteq filterRows \cup {f} /\ countActive' \in BOOLEAN
      /\ touched' = IF pruner = "idle" THEN {} ELSE touched \cup {f}
      /\ turns < MaxTurns /\ turns' = turns + 1
  BY TypedState DEF RegisterFilter, UnregisterFilter, ChangeFilter, LogPruningInv
<1>2. turns' \in 0..MaxTurns
  <2>1. LogsTyped
    BY DEF LogPruningInv
  <2> QED
    BY <1>1, <2>1, TypedNumbers, PruningNumbers
<1>3. LogsTyped'
  BY <1>1, <1>2, TypedState, QueryIsARecord, DeletingKeepsTypes DEF LogPruningInv
<1>4. pruner # "idle" => Steady' \subseteq Steady
  BY <1>1 DEF Steady
<1>5. filterRows \subseteq Filters
  BY TypedState DEF LogPruningInv
<1> QED
  BY <1>1, <1>3, <1>4, <1>5, OthersKeepSelected DEF LogPruningInv

LEMMA PrunerRestartKeeps ==
    ASSUME LogPruningInv, PrunerRestart
    PROVE  LogPruningInv'
<1>1. turns' \in 0..MaxTurns
  <2>1. LogsTyped
    BY DEF LogPruningInv
  <2> QED
    BY <2>1, TypedNumbers, PruningNumbers DEF PrunerRestart
<1>2. LogsTyped'
  BY <1>1, TypedState, QueryIsARecord, DeletingKeepsTypes, NoQueryTyped DEF PrunerRestart, LogPruningInv
<1>3. query'.ids = {}
  BY NoQueryTyped DEF PrunerRestart
<1> QED
  BY <1>2, <1>3, NothingSelected DEF LogPruningInv

LEMMA LoadFiltersKeeps ==
    ASSUME LogPruningInv, LoadFilters
    PROVE  LogPruningInv'
<1>1. /\ UNCHANGED <<firstBlock, lastBlock, logRows, filterRows, pruner, query, touched,
                     logCount, turns>>
      /\ countActive' \in BOOLEAN
  BY TypedState DEF LoadFilters, LogPruningInv
<1>2. LogsTyped'
  BY <1>1, TypedState, QueryIsARecord, DeletingKeepsTypes DEF LogPruningInv
<1>3. Steady' \subseteq Steady /\ filterRows \subseteq Filters
  BY <1>1, TypedState DEF Steady, LogPruningInv
<1> QED
  BY <1>1, <1>2, <1>3, OthersKeepSelected DEF LogPruningInv

LEMMA PruneBlocksKeeps ==
    ASSUME LogPruningInv, PruneBlocks
    PROVE  LogPruningInv'
<1>1. firstBlock' \in 0..lastBlock
  <2>1. LogsTyped
    BY DEF LogPruningInv
  <2> QED
    BY <2>1, TypedNumbers, PruningNumbers, FinalizedIsThere DEF PruneBlocks
<1>2. UNCHANGED <<lastBlock, logRows, filterRows, countActive, pruner, query, touched, logCount, turns>>
  BY DEF PruneBlocks
<1>3. LogsTyped'
  BY <1>1, <1>2, TypedState, QueryIsARecord, DeletingKeepsTypes DEF LogPruningInv
<1>4. Steady' \subseteq Steady /\ filterRows \subseteq Filters
  BY <1>2, TypedState DEF Steady, LogPruningInv
<1> QED
  BY <1>2, <1>3, <1>4, OthersKeepSelected DEF LogPruningInv

LEMMA WorkerKeepsTypes ==
    ASSUME LogsTyped, logRows' \subseteq logRows,
           UNCHANGED <<firstBlock, lastBlock, filterRows, countActive, logCount, turns>>,
           touched' \subseteq touched, query' = NoQuery,
           pruner' \in {"idle", "excess", "unmatched"}
    PROVE  LogsTyped' /\ SelectedInv'
<1>1. LogsTyped'
  BY TypedState, QueryIsARecord, DeletingKeepsTypes, NoQueryTyped
<1>2. query'.ids = {}
  BY NoQueryTyped
<1> QED
  BY <1>1, <1>2, NothingSelected

LEMMA DeleteExpiredKeeps ==
    ASSUME LogPruningInv, DeleteExpiredLogs
    PROVE  LogPruningInv'
<1>1. pruner' \in {"idle", "excess", "unmatched"}
  BY DEF DeleteExpiredLogs, AfterExpired
<1>2. logRows' \subseteq logRows
  BY DEF DeleteExpiredLogs
<1> QED
  BY <1>1, <1>2, WorkerKeepsTypes DEF DeleteExpiredLogs, LogPruningInv

LEMMA DeleteLogsKeeps ==
    ASSUME LogPruningInv, NEW delete, NEW next \in SUBSET {"idle", "excess", "unmatched"},
           DeleteLogsByRowID(delete, next)
    PROVE  LogPruningInv'
BY WorkerKeepsTypes DEF DeleteLogsByRowID, LogPruningInv

LEMMA PruneFailsKeeps ==
    ASSUME LogPruningInv, PruneFails
    PROVE  LogPruningInv'
BY WorkerKeepsTypes DEF PruneFails, LogPruningInv

LEMMA QueryStarts ==
    ASSUME LogsTyped
    PROVE  /\ firstBlock \in 0..(LastBlock + 1) /\ 0 \in 0..(LastBlock + 1)
           /\ FinalizedBlock \in 0..LastBlock
<1>1. /\ firstBlock \in Nat /\ lastBlock \in Nat
      /\ firstBlock <= lastBlock /\ lastBlock <= LastBlock
  BY TypedNumbers
<1>2. FinalizedBlock \in 0..lastBlock /\ LastBlock \in Nat
  BY FinalizedIsThere
<1> QED
  BY <1>1, <1>2

LEMMA StartQueryKeeps ==
    ASSUME LogPruningInv, NEW task, NEW pages \in {"excess pages", "unmatched pages"},
           StartQuery(task, pages)
    PROVE  LogPruningInv'
<1>1. CASE firstBlock = 0
  <2>1. logRows' \subseteq logRows /\ pruner' = "idle" /\ query' = NoQuery /\ touched' = touched
    BY <1>1 DEF StartQuery
  <2> QED
    BY <2>1, WorkerKeepsTypes DEF StartQuery, LogPruningInv
<1>2. CASE firstBlock # 0
  <2> DEFINE first == IF LogPrunePageSize = 0 THEN 0 ELSE firstBlock
  <2>1. /\ query' = [lower |-> first, end |-> FinalizedBlock, ids |-> {}]
        /\ pruner' = pages
        /\ UNCHANGED <<firstBlock, lastBlock, logRows, filterRows, countActive, touched, logCount, turns>>
    BY <1>2 DEF StartQuery
  <2>2. first \in 0..(LastBlock + 1) /\ FinalizedBlock \in 0..LastBlock
    <3>1. LogsTyped
      BY DEF LogPruningInv
    <3> QED
      BY <3>1, QueryStarts
  <2> HIDE DEF first
  <2>3. query'.lower = first /\ query'.end = FinalizedBlock /\ query'.ids = {}
    BY <2>1
  <2>4. LogsTyped'
    BY <2>1, <2>2, <2>3, TypedState, QueryIsARecord, DeletingKeepsTypes DEF LogPruningInv
  <2> QED
    BY <2>3, <2>4, NothingSelected DEF LogPruningInv
<1> QED
  BY <1>1, <1>2

LEMMA QueryPageTypes ==
    ASSUME LogsTyped, NEW pages \in {"excess pages", "unmatched pages"},
           NEW selected \in SUBSET Page,
           NEW delete \in {"delete excess", "delete unmatched"},
           QueryPage(pages, selected, delete)
    PROVE  /\ LogsTyped'
           /\ query'.ids = query.ids \cup selected
           /\ UNCHANGED <<logRows, filterRows, touched>>
           /\ pruner = pages
           /\ pruner' = delete \/ (pruner' = pages /\ query'.lower = Upper + 1 /\ Upper >= query.lower)
<1> DEFINE ids == query.ids \cup selected
<1>1. /\ ids \subseteq LogRow
      /\ UNCHANGED <<firstBlock, lastBlock, logRows, filterRows, countActive, touched, logCount, turns>>
  BY PageBounds, TypedState DEF QueryPage
<1>2. \/ pruner' = delete /\ query' = [query EXCEPT !.ids = ids]
      \/ /\ LogPrunePageSize # 0 /\ ~(Upper >= query.end) /\ pruner' = pruner
         /\ query' = [query EXCEPT !.lower = Upper + 1, !.ids = ids]
  BY DEF QueryPage
<1>3. pruner = pages
  BY DEF QueryPage
<1> HIDE DEF ids
<1>4. query = [lower |-> query.lower, end |-> query.end, ids |-> query.ids]
  BY QueryIsARecord
<1>5. CASE pruner' = delete /\ query' = [query EXCEPT !.ids = ids]
  <2>1. query' = [lower |-> query.lower, end |-> query.end, ids |-> ids]
    BY <1>4, <1>5
  <2>2. query'.lower = query.lower /\ query'.end = query.end /\ query'.ids = ids
    BY <2>1
  <2>3. LogsTyped'
    BY <1>1, <1>5, <2>1, <2>2, TypedState, QueryIsARecord, DeletingKeepsTypes
  <2> QED
    BY <1>1, <1>3, <1>5, <2>2, <2>3 DEF ids
<1>6. CASE /\ LogPrunePageSize # 0 /\ ~(Upper >= query.end) /\ pruner' = pruner
           /\ query' = [query EXCEPT !.lower = Upper + 1, !.ids = ids]
  <2>1. query' = [lower |-> Upper + 1, end |-> query.end, ids |-> ids]
    BY <1>4, <1>6
  <2>2. query'.lower = Upper + 1 /\ query'.end = query.end /\ query'.ids = ids
    BY <2>1
  <2>3. Upper + 1 \in 0..(LastBlock + 1) /\ Upper >= query.lower
    BY <1>6, PageBounds
  <2>4. LogsTyped'
    BY <1>1, <1>3, <1>6, <2>1, <2>2, <2>3, TypedState, QueryIsARecord, DeletingKeepsTypes
  <2> QED
    BY <1>1, <1>3, <1>6, <2>2, <2>3, <2>4 DEF ids
<1> QED
  BY <1>2, <1>5, <1>6

LEMMA UnmatchedPageKeeps ==
    ASSUME LogPruningInv, QueryPage("unmatched pages", Unmatched(Page), "delete unmatched")
    PROVE  LogPruningInv'
<1>1. Unmatched(Page) \in SUBSET Page
  BY DEF Unmatched
<1>2. /\ LogsTyped' /\ query'.ids = query.ids \cup Unmatched(Page)
      /\ UNCHANGED <<logRows, filterRows, touched>> /\ pruner = "unmatched pages"
      /\ pruner' \in {"delete unmatched", "unmatched pages"}
  <2>1. LogsTyped
    BY DEF LogPruningInv
  <2> QED
    BY <1>1, <2>1, QueryPageTypes
<1>3. \A l \in Unmatched(Page) : \A f \in Steady : l.kind \notin Matches[f]
  BY DEF Unmatched, MatchingFilters, Steady
<1>4. UnmatchedIds'
  BY <1>2, <1>3 DEF LogPruningInv, SelectedInv, UnmatchedIds, Steady
<1>5. ExcessIds' /\ PagesAreBehind'
  BY <1>2 DEF ExcessIds, PagesAreBehind
<1> QED
  BY <1>2, <1>4, <1>5 DEF LogPruningInv, SelectedInv

(* The page's own excess leaves enough on the page, and that of earlier pages is not
   touched by it. *)
QueryExcess == QueryPage("excess pages", Excess(Page), "delete excess")

LEMMA ExcessPageKeeps ==
    ASSUME LogPruningInv, QueryExcess
    PROVE  LogPruningInv'
<1>0. LogsTyped
  BY DEF LogPruningInv
<1>1. Excess(Page) \in SUBSET Page
  BY DEF Excess
<1>2. /\ LogsTyped' /\ query'.ids = query.ids \cup Excess(Page)
      /\ UNCHANGED <<logRows, filterRows, touched>> /\ pruner = "excess pages"
      /\ \/ pruner' = "delete excess"
         \/ pruner' = "excess pages" /\ query'.lower = Upper + 1 /\ Upper >= query.lower
  BY <1>0, <1>1, QueryPageTypes DEF QueryExcess
<1>3. /\ query.lower \in Int /\ Upper \in Int
      /\ \A l \in query.ids : l.block < query.lower /\ l.block \in Int
      /\ \A l \in Page : query.lower <= l.block /\ l.block <= Upper /\ l \in logRows
      /\ \A l \in logRows : l.block \in Int
  <2>1. \A l \in query.ids : l.block \in Int
    BY <1>0, LogBlocks
  <2>2. query.lower \in Int
    BY <1>0, TypedNumbers, PruningNumbers
  <2> QED
    <3>1. \A l \in query.ids : l.block < query.lower
      BY <1>2 DEF LogPruningInv, SelectedInv, PagesAreBehind
    <3>2. /\ Upper \in Int
          /\ \A l \in Page : query.lower <= l.block /\ l.block <= Upper /\ l \in logRows
      BY <1>0, PageBounds
    <3>3. \A l \in logRows : l.block \in Int
      BY <1>0, LogBlocks
    <3> QED
      BY <2>1, <2>2, <3>1, <3>2, <3>3
<1>4. UnmatchedIds'
  BY <1>2 DEF UnmatchedIds
<1>5. PagesAreBehind'
  <2>1. SUFFICES ASSUME pruner' = "excess pages", NEW l \in query'.ids
                 PROVE  l.block < query'.lower
    BY DEF PagesAreBehind
  <2>2. query'.lower = Upper + 1 /\ Upper >= query.lower
    BY <1>2, <2>1
  <2>3. CASE l \in query.ids
    BY <1>3, <2>2, <2>3
  <2>4. CASE l \in Excess(Page)
    <3>1. l.block <= Upper /\ l.block \in Int
      BY <1>1, <1>3, <2>4
    <3> QED
      BY <1>3, <2>2, <3>1
  <2> QED
    BY <1>2, <2>3, <2>4
<1>6. ExcessIds'
  <2>1. SUFFICES ASSUME NEW l \in query'.ids, NEW f \in Steady', l.kind \in Matches[f]
                 PROVE  MaxLogsKept[f] > 0 /\ Cardinality(Spared(f)') >= MaxLogsKept[f]
    BY DEF ExcessIds, Spared
  <2>2. f \in Steady /\ f \in filterRows /\ f \in Filters /\ MaxLogsKept[f] \in Nat
    BY <1>0, <1>2, TypedState, PruningConstants DEF Steady
  <2>3. CASE l \in query.ids
    <3>1. MaxLogsKept[f] > 0 /\ Cardinality(Spared(f)) >= MaxLogsKept[f]
      BY <1>2, <2>1, <2>2, <2>3 DEF LogPruningInv, SelectedInv, ExcessIds
    <3>2. ASSUME NEW k \in Spared(f)
          PROVE  k \in Spared(f)'
      <4>1. k \in logRows /\ k \notin query.ids /\ k.kind \in Matches[f] /\ k.block < query.lower
        BY <1>2 DEF Spared
      <4>2. k \notin Excess(Page)
        BY <1>1, <1>3, <4>1
      <4>3. pruner' = "excess pages" => k.block < query'.lower
        <5>1. SUFFICES ASSUME pruner' = "excess pages"
                       PROVE  k.block < query'.lower
          OBVIOUS
        <5>2. query'.lower = Upper + 1 /\ Upper >= query.lower
          BY <1>2, <5>1
        <5> QED
          BY <1>3, <4>1, <5>2
      <4> QED
        BY <1>2, <4>1, <4>2, <4>3 DEF Spared
    <3>3. Spared(f) \in SUBSET Spared(f)'
      BY <3>2
    <3> QED
      BY <1>2, <2>2, <3>1, <3>3, MoreSpared
  <2>4. CASE l \in Excess(Page)
    <3>1. MaxLogsKept[f] > 0
      BY <1>0, <2>1, <2>2, <2>4, PageKeeps
    <3>2. PICK K \in SUBSET (Page \ Excess(Page)) :
            /\ \A k \in K : k.kind \in Matches[f]
            /\ Cardinality(K) >= MaxLogsKept[f]
      BY <1>0, <2>1, <2>2, <2>4, PageKeeps
    <3>3. ASSUME NEW k \in K
          PROVE  k \in Spared(f)'
      <4>1. k \in Page /\ k \notin Excess(Page) /\ k.kind \in Matches[f] /\ k \in logRows
        BY <1>3, <3>2
      <4>2. k \notin query.ids
        BY <1>3, <4>1
      <4>3. pruner' = "excess pages" => k.block < query'.lower
        <5>1. SUFFICES ASSUME pruner' = "excess pages"
                       PROVE  k.block < query'.lower
          OBVIOUS
        <5>2. query'.lower = Upper + 1 /\ Upper >= query.lower
          BY <1>2, <5>1
        <5> QED
          BY <1>3, <4>1, <5>2
      <4> QED
        BY <1>2, <4>1, <4>2, <4>3 DEF Spared
    <3>4. K \in SUBSET Spared(f)'
      BY <3>3
    <3> QED
      BY <1>2, <2>2, <3>1, <3>2, <3>4, MoreSpared
  <2> QED
    BY <1>2, <2>3, <2>4
<1> QED
  BY <1>2, <1>4, <1>5, <1>6 DEF LogPruningInv, SelectedInv

----------------------------------------------------------------------------
LEMMA PruningInvInit == PruningInit => LogPruningInv
<1> SUFFICES ASSUME PruningInit PROVE LogPruningInv
  OBVIOUS
<1>1. LogsTyped
  <2>1. /\ query = [lower |-> query.lower, end |-> query.end, ids |-> query.ids]
        /\ query.lower \in 0..(LastBlock + 1) /\ query.end \in 0..LastBlock /\ query.ids = {}
    BY NoQueryTyped DEF PruningInit
  <2>2. /\ 0 \in 0..LastBlock /\ 0 \in 0..0 /\ 0 \in 0..LastLog /\ 0 \in 0..MaxTurns
    BY PruningNumbers
  <2> QED
    BY <2>1, <2>2, FS_EmptySet DEF PruningInit, LogsTyped, PruningTypeOK
<1>2. SelectedInv
  BY DEF PruningInit, SelectedInv, UnmatchedIds, ExcessIds, PagesAreBehind
<1> QED
  BY <1>1, <1>2 DEF LogPruningInv

LEMMA AfterExpiredIs == \A done \in BOOLEAN : AfterExpired(done) \in SUBSET {"idle", "excess", "unmatched"}
BY DEF AfterExpired

LEMMA PruningInvNext ==
    ASSUME LogPruningInv, [PruningNext]_pruningVars
    PROVE  LogPruningInv'
<1>1. CASE UNCHANGED pruningVars
  <2>1. LogsTyped' /\ logRows' = logRows /\ UNCHANGED <<pruner, query, filterRows, touched>>
    BY <1>1 DEF pruningVars, LogPruningInv, LogsTyped, PruningTypeOK
  <2>2. Steady' \subseteq Steady /\ filterRows \subseteq Filters
    BY <2>1, TypedState DEF Steady, LogPruningInv
  <2> QED
    BY <2>1, <2>2, OthersKeepSelected DEF LogPruningInv
<1>2. ASSUME NEW f \in Filters, RegisterFilter(f) \/ UnregisterFilter(f)
      PROVE  LogPruningInv'
  BY <1>2, ChangeFilterKeeps
<1>3. CASE PruneExpiredLogs
  <2>1. AfterExpired(~IsPage(Cardinality(query.ids))) \in SUBSET {"idle", "excess", "unmatched"}
    BY AfterExpiredIs
  <2> QED
    BY <1>3, <2>1, DeleteExpiredKeeps, StartQueryKeeps, ExcessPageKeeps, DeleteLogsKeeps
       DEF PruneExpiredLogs, QueryExcess
<1>4. CASE PruneUnmatchedLogs
  BY <1>4, StartQueryKeeps, UnmatchedPageKeeps, DeleteLogsKeeps DEF PruneUnmatchedLogs
<1> QED
  BY <1>1, <1>2, <1>3, <1>4, SaveBlockKeeps, PrunerRestartKeeps, LoadFiltersKeeps,
     PruneBlocksKeeps, PruneFailsKeeps DEF PruningNext

(* A log is only deleted when every filter that wants it, and was there all the round,
   has its retention behind it or as many logs left as it asks for: with pages of any
   size, and blocks, filters and restarts between the pages. *)
DeletesUnwanted ==
    \A l \in logRows \ logRows' : \A f \in filterRows \ touched :
         l.kind \in Matches[f] =>
            \/ Retention[f] > 0 /\ l.block + Retention[f] <= lastBlock
            \/ /\ MaxLogsKept[f] > 0
               /\ Cardinality({k \in logRows' : k.kind \in Matches[f]}) >= MaxLogsKept[f]

LEMMA PruningStepDeletesUnwanted ==
    ASSUME LogPruningInv, PruningNext
    PROVE  DeletesUnwanted
<1>1. CASE logRows \subseteq logRows'
  BY <1>1 DEF DeletesUnwanted
<1>2. CASE DeleteExpiredLogs
  BY <1>2 DEF DeleteExpiredLogs, Expired, MatchingFilters, DeletesUnwanted
<1>3. ASSUME NEW next, DeleteLogsByRowID("delete excess", next)
      PROVE  DeletesUnwanted
  <2>1. SUFFICES ASSUME NEW l \in logRows \ logRows', NEW f \in filterRows \ touched,
                        l.kind \in Matches[f]
                 PROVE  /\ MaxLogsKept[f] > 0
                        /\ Cardinality({k \in logRows' : k.kind \in Matches[f]}) >= MaxLogsKept[f]
    BY DEF DeletesUnwanted
  <2>2. l \in query.ids /\ f \in Steady /\ pruner = "delete excess" /\ logRows' = logRows \ query.ids
    BY <1>3 DEF DeleteLogsByRowID, Steady
  <2>3. MaxLogsKept[f] > 0 /\ Cardinality(Spared(f)) >= MaxLogsKept[f]
    BY <2>1, <2>2 DEF LogPruningInv, SelectedInv, ExcessIds
  <2>4. Spared(f) = {k \in logRows' : k.kind \in Matches[f]}
    BY <2>2 DEF Spared
  <2> QED
    BY <2>3, <2>4
<1>4. ASSUME NEW next, DeleteLogsByRowID("delete unmatched", next)
      PROVE  DeletesUnwanted
  BY <1>4 DEF DeleteLogsByRowID, LogPruningInv, SelectedInv, UnmatchedIds, Steady, DeletesUnwanted
<1>5. SaveBlock => logRows \subseteq logRows'
  BY DEF SaveBlock
<1>6. \A f \in Filters : RegisterFilter(f) \/ UnregisterFilter(f) => logRows' = logRows
  BY DEF RegisterFilter, UnregisterFilter
<1>7. PrunerRestart \/ LoadFilters \/ PruneBlocks \/ PruneFails => logRows' = logRows
  BY DEF PrunerRestart, LoadFilters, PruneBlocks, PruneFails
<1>8. StartQuery("excess", "excess pages") \/ StartQuery("unmatched", "unmatched pages")
        => logRows' = logRows
  BY DEF StartQuery
<1>9. \/ QueryPage("unmatched pages", Unmatched(Page), "delete unmatched")
      \/ QueryPage("excess pages", Excess(Page), "delete excess")
      => logRows' = logRows
  BY DEF QueryPage
<1> QED
  BY <1>1, <1>2, <1>3, <1>4, <1>5, <1>6, <1>7, <1>8, <1>9
     DEF PruningNext, PruneExpiredLogs, PruneUnmatchedLogs

THEOREM PrunedIsUnwantedHolds == PruningSpec => PrunedIsUnwanted
<1>1. PruningInit => LogPruningInv
  BY PruningInvInit
<1>2. LogPruningInv /\ [PruningNext]_pruningVars => LogPruningInv'
  BY PruningInvNext
<1>3. LogPruningInv /\ [PruningNext]_pruningVars => [DeletesUnwanted]_pruningVars
  BY PruningStepDeletesUnwanted
<1>4. PrunedIsUnwanted <=> [][DeletesUnwanted]_pruningVars
  BY PTL DEF PrunedIsUnwanted, DeletesUnwanted
<1> QED
  BY <1>1, <1>2, <1>3, <1>4, PTL DEF PruningSpec

----------------------------------------------------------------------------
(* Verdicts of the write target, for any number of writers. *)

(* What a call has confirmed is only open once the call has succeeded, and a call that
   has not returned has started no confirmation. *)
ConfirmsAfterSuccess ==
    \A w \in Writers : confirmer[w] # "none" => execute[w] = "success"

WriteInv == WriteTypeOK /\ ConfirmsAfterSuccess /\ VerdictsAreRight

(* The indices of the verdicts among some messages. *)
VerdictsIn(messages) == {i \in DOMAIN messages : messages[i] \in Verdicts}

Over(w) == execute[w] \in {"success", "error"} /\ confirmer[w] # "polling"

LEMMA OneVerdictMeans ==
    OneVerdict <=> \A w \in Writers :
                     IF Over(w) THEN \E i \in DOMAIN emitted[w] : VerdictsIn(emitted[w]) = {i}
                                ELSE VerdictsIn(emitted[w]) = {}
BY DEF OneVerdict, VerdictsIn, Over

LEMMA OneVerdictMeansNext ==
    OneVerdict' <=> \A w \in Writers :
                      IF Over(w)' THEN \E i \in DOMAIN emitted'[w] : VerdictsIn(emitted'[w]) = {i}
                                  ELSE VerdictsIn(emitted'[w]) = {}
BY DEF OneVerdict, VerdictsIn, Over

(* A verdict is one more, another message is none. *)
LEMMA VerdictsAppend ==
    ASSUME NEW messages \in Seq(Messages), NEW m \in Messages
    PROVE  /\ DOMAIN Append(messages, m) = 1..(Len(messages) + 1)
           /\ \A i \in 1..(Len(messages) + 1) :
                Append(messages, m)[i] = IF i = Len(messages) + 1 THEN m ELSE messages[i]
           /\ VerdictsIn(messages) \subseteq 1..Len(messages)
           /\ VerdictsIn(Append(messages, m)) =
                IF m \in Verdicts THEN VerdictsIn(messages) \cup {Len(messages) + 1}
                                  ELSE VerdictsIn(messages)
<1>1. DOMAIN messages = 1..Len(messages) /\ Len(messages) \in Nat
  OBVIOUS
<1>2. /\ DOMAIN Append(messages, m) = 1..(Len(messages) + 1)
      /\ \A i \in 1..(Len(messages) + 1) :
           Append(messages, m)[i] = IF i = Len(messages) + 1 THEN m ELSE messages[i]
  BY <1>1
<1> QED
  BY <1>1, <1>2 DEF VerdictsIn

(* A step in which a call says something: it is over afterwards exactly when what it says
   is a verdict, and was not over before. *)
LEMMA SayingKeeps ==
    ASSUME WriteInv, NEW w \in Writers, NEW m \in Messages, Emit(w, m),
           execute' \in [Writers -> {"called", "transmit", "success", "error"}],
           confirmer' \in [Writers -> {"none", "polling", "ended"}],
           \A v \in Writers \ {w} : execute'[v] = execute[v] /\ confirmer'[v] = confirmer[v],
           ~Over(w), Over(w)' <=> m \in Verdicts,
           UNCHANGED transmission, m = "confirmed" => transmission = "succeeded"
    PROVE  emitted' \in [Writers -> Seq(Messages)] /\ VerdictsAreRight'
<1>1. /\ emitted \in [Writers -> Seq(Messages)]
      /\ emitted' = [emitted EXCEPT ![w] = Append(emitted[w], m)]
      /\ emitted[w] \in Seq(Messages)
  BY DEF WriteInv, WriteTypeOK, Emit
<1>2. emitted' \in [Writers -> Seq(Messages)]
  BY <1>1
<1>3. emitted'[w] = Append(emitted[w], m) /\ \A v \in Writers \ {w} : emitted'[v] = emitted[v]
  BY <1>1
<1>4. \A v \in Writers \ {w} : Over(v)' <=> Over(v)
  BY DEF Over
<1>5. VerdictsIn(emitted[w]) = {}
  BY OneVerdictMeans DEF WriteInv, VerdictsAreRight
<1>6. IF Over(w)' THEN \E i \in DOMAIN emitted'[w] : VerdictsIn(emitted'[w]) = {i}
                  ELSE VerdictsIn(emitted'[w]) = {}
  <2>1. VerdictsIn(emitted'[w]) = IF m \in Verdicts THEN {Len(emitted[w]) + 1} ELSE {}
    BY <1>1, <1>3, <1>5, VerdictsAppend
  <2>2. Len(emitted[w]) + 1 \in DOMAIN emitted'[w]
    BY <1>1, <1>3, VerdictsAppend
  <2> QED
    BY <2>1, <2>2
<1>7. OneVerdict'
  <2>1. \A v \in Writers : IF Over(v) THEN \E i \in DOMAIN emitted[v] : VerdictsIn(emitted[v]) = {i}
                                      ELSE VerdictsIn(emitted[v]) = {}
    BY OneVerdictMeans DEF WriteInv, VerdictsAreRight
  <2> QED
    BY <1>3, <1>4, <1>6, <2>1, OneVerdictMeansNext
<1>8. SuccessIsTrue'
  <2>1. \A v \in Writers : \A i \in DOMAIN emitted[v] :
          emitted[v][i] = "confirmed" => transmission = "succeeded"
    BY DEF WriteInv, VerdictsAreRight, SuccessIsTrue
  <2>2. \A i \in DOMAIN emitted'[w] : emitted'[w][i] = "confirmed" => transmission = "succeeded"
    <3>1. \A i \in 1..(Len(emitted[w]) + 1) :
            emitted'[w][i] = IF i = Len(emitted[w]) + 1 THEN m ELSE emitted[w][i]
      BY <1>1, <1>3, VerdictsAppend
    <3>2. DOMAIN emitted'[w] = 1..(Len(emitted[w]) + 1) /\ DOMAIN emitted[w] = 1..Len(emitted[w])
      BY <1>1, <1>3, VerdictsAppend
    <3> QED
      BY <1>1, <2>1, <3>1, <3>2
  <2> QED
    BY <1>3, <2>1, <2>2 DEF SuccessIsTrue
<1> QED
  BY <1>2, <1>7, <1>8 DEF VerdictsAreRight

LEMMA WriteConfirmedIs ==
    /\ WriteConfirmed \in Messages /\ WriteConfirmed \in Verdicts
    /\ WriteConfirmed = "confirmed" => transmission = "succeeded"
BY DEF WriteConfirmed, Messages, Verdicts

(* Execute returns with a verdict. *)
LEMMA RespondKeeps ==
    ASSUME WriteInv, NEW w \in Writers, NEW r \in {"success", "error"},
           NEW m \in Verdicts, Respond(w, r, m), execute[w] \in {"called", "transmit"},
           m = "confirmed" => transmission = "succeeded"
    PROVE  WriteInv'
<1>1. /\ execute \in [Writers -> {"called", "transmit", "success", "error"}]
      /\ confirmer \in [Writers -> {"none", "polling", "ended"}]
      /\ execute' = [execute EXCEPT ![w] = r] /\ Emit(w, m)
      /\ UNCHANGED <<confirmer, txStatus, transmission>>
      /\ confirmer[w] = "none"
  BY DEF Respond, WriteInv, WriteTypeOK, ConfirmsAfterSuccess
<1>2. m \in Messages
  BY DEF Messages, Verdicts
<1>3. execute' \in [Writers -> {"called", "transmit", "success", "error"}]
  BY <1>1
<1>4. ~Over(w) /\ Over(w)'
  BY <1>1 DEF Over
<1>5. emitted' \in [Writers -> Seq(Messages)] /\ VerdictsAreRight'
  BY <1>1, <1>2, <1>3, <1>4, SayingKeeps
<1>6. ConfirmsAfterSuccess'
  BY <1>1 DEF WriteInv, ConfirmsAfterSuccess
<1> QED
  BY <1>1, <1>3, <1>5, <1>6 DEF WriteInv, WriteTypeOK

LEMMA WriteInvInit == WriteInit => WriteInv
<1>1. ASSUME WriteInit
      PROVE  /\ WriteTypeOK /\ ConfirmsAfterSuccess
             /\ \A w \in Writers : execute[w] = "called" /\ emitted[w] = <<>>
  <2>1. [w \in Writers |-> <<>>] \in [Writers -> Seq(Messages)]
    OBVIOUS
  <2>2. emitted \in [Writers -> Seq(Messages)]
    BY <1>1, <2>1 DEF WriteInit
  <2> QED
    BY <1>1, <2>2 DEF WriteInit, WriteTypeOK, ConfirmsAfterSuccess
<1>2. ASSUME WriteInit
      PROVE  OneVerdict
  <2>1. VerdictsIn(<<>>) = {}
    BY DEF VerdictsIn
  <2>2. \A w \in Writers : ~Over(w) /\ VerdictsIn(emitted[w]) = {}
    BY <1>1, <1>2, <2>1 DEF Over
  <2> QED
    BY <2>2, OneVerdictMeans
<1>3. ASSUME WriteInit
      PROVE  SuccessIsTrue
  BY <1>1, <1>3 DEF SuccessIsTrue
<1> QED
  BY <1>1, <1>2, <1>3 DEF WriteInv, VerdictsAreRight

LEMMA WriteInvNext ==
    ASSUME WriteInv, [WriteNext]_writeVars
    PROVE  WriteInv'
<1>0. /\ execute \in [Writers -> {"called", "transmit", "success", "error"}]
      /\ confirmer \in [Writers -> {"none", "polling", "ended"}]
      /\ txStatus \in [Writers -> {"none", "pending", "included", "finalized"}]
      /\ \A w \in Writers : confirmer[w] # "none" => execute[w] = "success"
  BY DEF WriteInv, WriteTypeOK, ConfirmsAfterSuccess
<1>1. ASSUME UNCHANGED <<execute, confirmer, emitted>>,
             txStatus' \in [Writers -> {"none", "pending", "included", "finalized"}],
             transmission' \in {"not attempted", "succeeded", "failed", "fatal"},
             transmission = "succeeded" => transmission' = "succeeded"
      PROVE  WriteInv'
  <2>1. WriteTypeOK' /\ ConfirmsAfterSuccess'
    BY <1>1 DEF WriteInv, WriteTypeOK, ConfirmsAfterSuccess
  <2>2. OneVerdict'
    BY <1>1 DEF WriteInv, VerdictsAreRight, OneVerdict
  <2>3. SuccessIsTrue'
    BY <1>1 DEF WriteInv, VerdictsAreRight, SuccessIsTrue
  <2> QED
    BY <2>1, <2>2, <2>3 DEF WriteInv, VerdictsAreRight
<1>2. CASE UNCHANGED writeVars
  BY <1>1, <1>2 DEF writeVars, WriteInv, WriteTypeOK
<1>3. ASSUME NEW w \in Writers, Reject(w)
      PROVE  WriteInv'
  BY <1>3, RespondKeeps DEF Reject, Verdicts
<1>4. ASSUME NEW w \in Writers, SkipEmptyReport(w)
      PROVE  WriteInv'
  BY <1>4, RespondKeeps DEF SkipEmptyReport, Verdicts
<1>5. ASSUME NEW w \in Writers, QueryTransmissionState(w)
      PROVE  WriteInv'
  <2>1. execute[w] = "called"
    BY <1>5 DEF QueryTransmissionState
  <2>2. CASE transmission = "fatal"
    <3>1. Respond(w, "error", "error")
      BY <1>5, <2>2 DEF QueryTransmissionState
    <3> QED
      BY <2>1, <3>1, RespondKeeps DEF Verdicts
  <2>3. CASE transmission = "succeeded"
    <3>1. Respond(w, "success", WriteConfirmed)
      BY <1>5, <2>3 DEF QueryTransmissionState
    <3> QED
      BY <2>1, <2>3, <3>1, RespondKeeps, WriteConfirmedIs
  <2>4. CASE transmission # "fatal" /\ transmission # "succeeded"
    <3>1. /\ execute' = [execute EXCEPT ![w] = "transmit"]
          /\ UNCHANGED <<confirmer, emitted, txStatus, transmission>>
      BY <1>5, <2>4 DEF QueryTransmissionState
    <3>2. confirmer[w] = "none"
      BY <1>0, <2>1
    <3>3. WriteTypeOK' /\ ConfirmsAfterSuccess'
      BY <1>0, <3>1, <3>2 DEF WriteInv, WriteTypeOK, ConfirmsAfterSuccess
    <3>4. \A v \in Writers : Over(v)' <=> Over(v)
      BY <1>0, <2>1, <3>1 DEF Over
    <3>5. OneVerdict'
      BY <3>1, <3>4, OneVerdictMeans, OneVerdictMeansNext DEF WriteInv, VerdictsAreRight
    <3>6. SuccessIsTrue'
      BY <3>1 DEF WriteInv, VerdictsAreRight, SuccessIsTrue
    <3> QED
      BY <3>3, <3>5, <3>6 DEF WriteInv, VerdictsAreRight
  <2> QED
    BY <2>2, <2>3, <2>4
<1>6. ASSUME NEW w \in Writers, TransmitReport(w)
      PROVE  WriteInv'
  <2>1. /\ execute[w] = "transmit" /\ confirmer[w] = "none"
        /\ execute' = [execute EXCEPT ![w] = "success"]
        /\ confirmer' = [confirmer EXCEPT ![w] = "polling"]
        /\ txStatus' = [txStatus EXCEPT ![w] = "pending"]
        /\ Emit(w, "sent") /\ UNCHANGED transmission
    BY <1>0, <1>6 DEF TransmitReport
  <2>2. "sent" \in Messages /\ "sent" \notin Verdicts /\ ~Over(w) /\ ~Over(w)'
    BY <1>0, <2>1 DEF Messages, Verdicts, Over
  <2>3. /\ execute' \in [Writers -> {"called", "transmit", "success", "error"}]
        /\ confirmer' \in [Writers -> {"none", "polling", "ended"}]
        /\ txStatus' \in [Writers -> {"none", "pending", "included", "finalized"}]
        /\ \A v \in Writers \ {w} : execute'[v] = execute[v] /\ confirmer'[v] = confirmer[v]
    BY <1>0, <2>1
  <2>4. emitted' \in [Writers -> Seq(Messages)] /\ VerdictsAreRight'
    BY <2>1, <2>2, <2>3, SayingKeeps
  <2>5. ConfirmsAfterSuccess'
    BY <1>0, <2>1 DEF ConfirmsAfterSuccess
  <2> QED
    BY <2>1, <2>3, <2>4, <2>5 DEF WriteInv, WriteTypeOK
<1>7. ASSUME NEW w \in Writers, NEW m \in Verdicts, confirmer[w] = "polling",
             Emit(w, m), m = "confirmed" => transmission = "succeeded",
             confirmer' = [confirmer EXCEPT ![w] = "ended"],
             UNCHANGED <<execute, txStatus, transmission>>
      PROVE  WriteInv'
  <2>1. m \in Messages /\ execute[w] = "success" /\ ~Over(w) /\ Over(w)'
    BY <1>0, <1>7 DEF Messages, Verdicts, Over
  <2>2. /\ confirmer' \in [Writers -> {"none", "polling", "ended"}]
        /\ \A v \in Writers \ {w} : execute'[v] = execute[v] /\ confirmer'[v] = confirmer[v]
        /\ execute' \in [Writers -> {"called", "transmit", "success", "error"}]
    BY <1>0, <1>7
  <2>3. emitted' \in [Writers -> Seq(Messages)] /\ VerdictsAreRight'
    BY <1>7, <2>1, <2>2, SayingKeeps
  <2>4. ConfirmsAfterSuccess'
    BY <1>0, <1>7, <2>1 DEF ConfirmsAfterSuccess
  <2> QED
    BY <1>7, <2>2, <2>3, <2>4 DEF WriteInv, WriteTypeOK
<1>8. ASSUME NEW w \in Writers, ConfirmWrite(w)
      PROVE  WriteInv'
  BY <1>7, <1>8, WriteConfirmedIs DEF ConfirmWrite, Ended
<1>9. ASSUME NEW w \in Writers, TimeOut(w)
      PROVE  WriteInv'
  BY <1>7, <1>9 DEF TimeOut, Verdicts
<1>10. ASSUME NEW w \in Writers, Include(w)
       PROVE  WriteInv'
  <2>1. transmission \in {"not attempted", "succeeded", "failed", "fatal"}
    BY DEF WriteInv, WriteTypeOK
  <2> QED
    BY <1>0, <1>1, <1>10, <2>1 DEF Include
<1>11. ASSUME NEW w \in Writers, Finalized(w)
       PROVE  WriteInv'
  <2>1. transmission \in {"not attempted", "succeeded", "failed", "fatal"}
    BY DEF WriteInv, WriteTypeOK
  <2> QED
    BY <1>0, <1>1, <1>11, <2>1 DEF Finalized
<1> QED
  BY <1>2, <1>3, <1>4, <1>5, <1>6, <1>8, <1>9, <1>10, <1>11 DEF WriteNext

(* Whoever follows the messages of a write learns how it ended, once and in the end; and
   a success is only claimed of a report that the receiver has got. *)
THEOREM VerdictsAreRightHolds == WriteSpec => []VerdictsAreRight
<1>1. WriteInit => WriteInv
  BY WriteInvInit
<1>2. WriteInv /\ [WriteNext]_writeVars => WriteInv'
  BY WriteInvNext
<1>3. WriteInv => VerdictsAreRight
  BY DEF WriteInv
<1> QED
  BY <1>1, <1>2, <1>3, PTL DEF WriteSpec

----------------------------------------------------------------------------
(* The types of the six components, side by side as alone. *)

LEMMA KeyTypes == MutexInv /\ RoundRobinInv => KeysTypeOK
<1> SUFFICES ASSUME MutexInv, RoundRobinInv PROVE KeysTypeOK
  OBVIOUS
<1>1. holders \in SUBSET Users /\ count = Cardinality(holders)
  BY DEF MutexInv, MutexTypeOK, OneServiceType
<1>2. count \in Nat /\ count <= Cardinality(Users) /\ Cardinality(Users) \in Nat
  BY <1>1, HoldersAreFinite, KeysAssumption, FS_Subset, FS_CardinalityType
<1>3. count \in 0..Cardinality(Users)
  BY <1>2
<1> QED
  BY <1>3 DEF MutexInv, MutexTypeOK, RoundRobinInv, RoundRobinTypeOK, KeysTypeOK

(* Whichever component is awake, every variable of every one has its type. *)
THEOREM StoresTypeCorrect == StoresSpec => []StoresTypeOK
<1> DEFINE Inv == /\ HeadsInv /\ LogPruningInv /\ FinderInv
                  /\ MutexInv /\ RoundRobinInv /\ GasInv /\ WriteInv
<1>1. StoresInit => Inv
  BY HeadsInvInit, PruningInvInit, FinderInit, MutexInit, RoundRobinInit, GasInitEstablishes,
     WriteInvInit DEF StoresInit
<1>2. Inv /\ [StoresNext]_stores => Inv'
  <2> SUFFICES ASSUME Inv, [StoresNext]_stores PROVE Inv'
    OBVIOUS
  <2>1. /\ [HeadsNext]_headsVars /\ [PruningNext]_pruningVars /\ [FindLCANext]_finderVars
        /\ [KeysNext]_keysVars /\ [GasNext]_gasVars /\ [WriteNext]_writeVars
    BY DEF StoresNext, stores
  <2> QED
    BY <2>1, HeadsInvNext, PruningInvNext, FinderStep, MutexStep, RoundRobinStep, GasStep,
       WriteInvNext
<1>3. Inv => StoresTypeOK
  <2> SUFFICES ASSUME Inv PROVE StoresTypeOK
    OBVIOUS
  <2>1. HeadsTypeOK
    BY DEF HeadsInv, CacheInv, CacheTypeOK, TableTypeOK, HeadsTypeOK
  <2>2. KeysTypeOK
    BY KeyTypes
  <2>3. PruningTypeOK /\ FindLCATypeOK /\ GasTypeOK /\ WriteTypeOK
    BY DEF LogPruningInv, LogsTyped, FinderInv, GasInv, WriteInv
  <2> QED
    BY <2>1, <2>2, <2>3 DEF StoresTypeOK
<1> QED
  BY <1>1, <1>2, <1>3, PTL DEF StoresSpec
===============================================================================

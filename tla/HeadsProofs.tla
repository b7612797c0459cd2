----------------------------- MODULE HeadsProofs -----------------------------
(* The heads, for every set of heads, every claim they make of their numbers and
   parents, every depth of the history and every bound on faults and restarts: the
   cache is consistent, finality spreads as it should, and a restart loses nothing.

   The invariant has a part about the cache, whose core is that the index by parent
   agrees with the set, and a part about the table and the goroutines. *)
EXTENDS Heads, FiniteSetTheorems, WellFoundedInduction, TLAPS

----------------------------------------------------------------------------
(* The inductive invariant. *)

CacheTypeOK ==
    /\ headsByHash \subseteq Header /\ headsByParent \in [Hash -> SUBSET Header]
    /\ parent \in [Header -> Header \cup {NoHead}]
    /\ isFinalized \subseteq headsByHash /\ highest \in headsByHash \cup {NoHead}

(* The index has the known heads that name a hash as their parent, and no others. *)
IndexRight ==
    \A p \in Hash : headsByParent[p] = {h \in headsByHash : ParentHash[h] = p}

(* The walk along the links goes down, so that it ends. *)
LinksGoDown ==
    \A h \in Header : parent[h] # NoHead => Number[parent[h]] < Number[h]

CacheInv ==
    /\ CacheTypeOK /\ IndexRight
    /\ LinksRight /\ LinksGoDown /\ HighestIsHighest
    /\ AncestorsAreFinal /\ OnlyFinalizedAreFinal

TableTypeOK ==
    /\ headsTable \subseteq Header /\ loading \subseteq Header
    /\ older \in [Header -> SUBSET Header]
    /\ headsPc \in [HeadsThreads -> {"idle", "insert", "trim"}]
    /\ DOMAIN headsJob = HeadsThreads
    /\ \A th \in HeadsThreads : headsJob[th] \in IF headsPc[th] = "insert" THEN Header ELSE Nat
    /\ lost \subseteq Header /\ trimmed \in Nat

(* Load takes rows of heads that are not yet known, and nobody else works meanwhile. *)
LoadsFirst ==
    /\ loading \subseteq headsTable /\ loading \cap headsByHash = {}
    /\ loading # {} => \A th \in HeadsThreads : headsPc[th] = "idle"

(* No row is trimmed above the highest bound of the cache. *)
TrimsBelow ==
    \A th \in HeadsThreads : headsPc[th] = "trim" => headsJob[th] <= trimmed

HeadsInv ==
    /\ CacheInv
    /\ TableTypeOK /\ LoadsFirst /\ TrimsBelow /\ RestartLosesNothing

----------------------------------------------------------------------------
(* The constants. *)

LEMMA HeadsConstants ==
    /\ NoHead \notin Header /\ FinalizedHead \subseteq Header
    /\ \A h \in Header : Number[h] \in Nat /\ ParentHash[h] \in Hash /\ ParentHash[h] # NoHead
    /\ \A h \in FinalizedHead : ParentHash[h] \in Header => ParentHash[h] \in FinalizedHead
    /\ \A g, h \in Header : ParentHash[g] = ParentHash[h] => Number[g] = Number[h]
    /\ Header \subseteq Hash
    /\ HistoryDepth \in Nat
BY HeadsAssumption DEF Hash

LEMMA MinIsNat == \A n \in Nat : MinBlockToKeep(n) \in Nat /\ MinBlockToKeep(n) <= n
BY HeadsConstants DEF MinBlockToKeep

(* What a closed set that has the head has of the marked heads. *)
LEMMA MarkedWithin ==
    ASSUME NEW head, NEW links \in [Header -> Header \cup {NoHead}],
           NEW S \in SUBSET Header, head \in S,
           \A h \in S \ isFinalized : links[h] # NoHead => links[h] \in S
    PROVE  Marked(head, links) \subseteq S
BY DEF Marked

(* The marked heads are closed themselves, and have the head. *)
LEMMA MarkedClosed ==
    ASSUME NEW head \in Header, NEW links \in [Header -> Header \cup {NoHead}]
    PROVE  /\ head \in Marked(head, links) /\ Marked(head, links) \subseteq Header
           /\ \A h \in Marked(head, links) \ isFinalized :
                links[h] # NoHead => links[h] \in Marked(head, links)
<1>1. DOMAIN links = Header
  OBVIOUS
<1>2. head \in Marked(head, links) /\ Marked(head, links) \subseteq Header
  BY <1>1 DEF Marked
<1>3. ASSUME NEW h \in Marked(head, links) \ isFinalized, links[h] # NoHead
      PROVE  links[h] \in Marked(head, links)
  <2>1. h \in Header /\ links[h] \in Header
    BY <1>2, <1>3
  <2>2. ASSUME NEW S \in SUBSET Header, head \in S,
               \A x \in S \ isFinalized : links[x] # NoHead => links[x] \in S
        PROVE  links[h] \in S
    BY <1>3, <2>2, MarkedWithin
  <2> QED
    BY <1>1, <2>1, <2>2 DEF Marked
<1> QED
  BY <1>2, <1>3

----------------------------------------------------------------------------
(* Adding a head to the cache. *)

LEMMA AddHeadKeepsTypes ==
    ASSUME CacheInv, NEW head \in Header, head \notin headsByHash,
           ~CycleDetected(head), AddHead(head)
    PROVE  CacheTypeOK' /\ IndexRight' /\ parent' = Linked(head)
<1>1. parent' = Linked(head) /\ Linked(head) \in [Header -> Header \cup {NoHead}]
  BY HeadsConstants DEF AddHead, Linked, CacheInv, CacheTypeOK
<1>2. headsByHash' \subseteq Header /\ headsByParent' \in [Hash -> SUBSET Header]
  BY HeadsConstants DEF AddHead, CacheInv, CacheTypeOK
<1>3. highest' \in headsByHash' \cup {NoHead}
  BY DEF AddHead, HighestAfter, CacheInv, CacheTypeOK
<1>4. Marked(head, Linked(head)) \subseteq headsByHash'
  <2>1. headsByHash' \in SUBSET Header /\ head \in headsByHash'
    BY <1>2 DEF AddHead
  <2>2. ASSUME NEW h \in headsByHash', Linked(head)[h] # NoHead
        PROVE  Linked(head)[h] \in headsByHash'
    BY <2>1, <2>2, HeadsConstants DEF AddHead, Linked, CacheInv, CacheTypeOK, LinksRight
  <2> QED
    BY <1>1, <2>1, <2>2, MarkedWithin
<1>5. isFinalized' \subseteq headsByHash'
  BY <1>4 DEF AddHead, CacheInv, CacheTypeOK
<1>6. ASSUME NEW p \in Hash
      PROVE  headsByParent'[p] = {h \in headsByHash' : ParentHash[h] = p}
  BY HeadsConstants DEF AddHead, CacheInv, CacheTypeOK, IndexRight
<1> QED
  BY <1>1, <1>2, <1>3, <1>5, <1>6 DEF CacheTypeOK, IndexRight

LEMMA AddHeadKeepsLinks ==
    ASSUME CacheInv, NEW head \in Header, head \notin headsByHash,
           ~CycleDetected(head), AddHead(head)
    PROVE  LinksRight' /\ LinksGoDown' /\ HighestIsHighest'
<1>0. headsByHash' = headsByHash \cup {head}
  BY DEF AddHead
<1>1. headsByParent[head] = {h \in headsByHash : ParentHash[h] = head}
  BY HeadsConstants DEF CacheInv, IndexRight
<1>2. ParentHash[head] # head
  BY DEF CycleDetected
<1>3. ASSUME NEW h \in Header
      PROVE  parent'[h] = IF h \in headsByHash' /\ ParentHash[h] \in headsByHash'
                            THEN ParentHash[h] ELSE NoHead
  <2>1. parent'[h] = IF h \in headsByParent[head] THEN head
                     ELSE IF h # head THEN parent[h]
                     ELSE IF ParentHash[head] \in headsByHash THEN ParentHash[head] ELSE NoHead
    BY DEF AddHead, Linked
  <2>2. parent[h] = IF h \in headsByHash /\ ParentHash[h] \in headsByHash
                      THEN ParentHash[h] ELSE NoHead
    BY DEF CacheInv, LinksRight
  <2> QED
    BY <1>0, <1>1, <1>2, <2>1, <2>2
<1>4. LinksRight'
  BY <1>3 DEF LinksRight
<1>5. ASSUME NEW h \in Header, parent'[h] # NoHead
      PROVE  Number[parent'[h]] < Number[h]
  <2>1. CASE h \in headsByParent[head]
    <3>1. parent'[h] = head
      BY <2>1 DEF AddHead, Linked
    <3>2. Number[head] \in Nat /\ Number[h] \in Nat /\ ~(Number[head] >= Number[h])
      BY <2>1, HeadsConstants DEF CycleDetected
    <3> QED
      BY <3>1, <3>2
  <2>2. CASE h \notin headsByParent[head] /\ h = head
    <3>1. parent'[h] = ParentHash[head] /\ ParentHash[head] \in headsByHash
      BY <1>5, <2>2 DEF AddHead, Linked
    <3>2. ~(Number[ParentHash[head]] >= Number[head])
      BY <3>1 DEF CycleDetected
    <3>3. Number[ParentHash[head]] \in Nat /\ Number[head] \in Nat
      BY <3>1, HeadsConstants DEF CacheInv, CacheTypeOK
    <3> QED
      BY <2>2, <3>1, <3>2, <3>3
  <2>3. CASE h \notin headsByParent[head] /\ h # head
    <3>1. parent'[h] = parent[h]
      BY <2>3 DEF AddHead, Linked
    <3> QED
      BY <1>5, <3>1 DEF CacheInv, LinksGoDown
  <2> QED
    BY <2>1, <2>2, <2>3
<1>6. LinksGoDown'
  BY <1>5 DEF LinksGoDown
<1>7. HighestIsHighest'
  <2>1. \A h \in headsByHash' : Number[h] \in Nat
    BY <1>0, HeadsConstants DEF CacheInv, CacheTypeOK
  <2>2. highest' = HighestAfter(head)
    BY DEF AddHead
  <2>3. CASE headsByHash = {}
    <3>1. highest = NoHead
      BY <2>3 DEF CacheInv, HighestIsHighest
    <3>2. highest' = head /\ headsByHash' = {head}
      BY <1>0, <2>2, <2>3, <3>1 DEF HighestAfter
    <3> QED
      BY <2>1, <3>2 DEF HighestIsHighest
  <2>4. CASE headsByHash # {}
    <3>1. highest \in headsByHash /\ \A h \in headsByHash : Number[h] <= Number[highest]
      BY <2>4 DEF CacheInv, HighestIsHighest
    <3>2. highest # NoHead
      BY <3>1, HeadsConstants DEF CacheInv, CacheTypeOK
    <3>3. highest' = IF Number[highest] <= Number[head] THEN head ELSE highest
      BY <2>2, <3>2 DEF HighestAfter
    <3>4. highest' \in headsByHash'
      BY <1>0, <3>1, <3>3
    <3>5. \A h \in headsByHash' : Number[h] <= Number[highest']
      BY <1>0, <2>1, <3>1, <3>3
    <3> QED
      BY <3>4, <3>5 DEF HighestIsHighest
  <2> QED
    BY <2>3, <2>4
<1> QED
  BY <1>4, <1>6, <1>7

LEMMA AddHeadKeepsFinality ==
    ASSUME CacheInv, NEW head \in Header, head \notin headsByHash,
           ~CycleDetected(head), AddHead(head)
    PROVE  AncestorsAreFinal' /\ OnlyFinalizedAreFinal'
<1> DEFINE M == Marked(head, Linked(head))
<1>1. parent' = Linked(head) /\ CacheTypeOK' /\ LinksRight'
  BY AddHeadKeepsTypes, AddHeadKeepsLinks
<1>2. Linked(head) \in [Header -> Header \cup {NoHead}]
  BY <1>1 DEF CacheTypeOK
<1>3. /\ isFinalized \subseteq headsByHash /\ headsByHash \subseteq Header
      /\ head \notin isFinalized /\ isFinalized \subseteq FinalizedHead
  BY DEF CacheInv, CacheTypeOK, OnlyFinalizedAreFinal
<1>4. \A h \in isFinalized :
        parent'[h] # NoHead =>
          (parent'[h] = head /\ h \in headsByParent[head]) \/ parent'[h] \in isFinalized
  BY <1>1, <1>3 DEF Linked, CacheInv, AncestorsAreFinal
<1>5. CASE headsByParent[head] \cap isFinalized = {}
  <2>1. isFinalized' = isFinalized
    BY <1>5 DEF AddHead
  <2> QED
    BY <1>3, <1>4, <1>5, <2>1 DEF AncestorsAreFinal, OnlyFinalizedAreFinal
<1>6. CASE headsByParent[head] \cap isFinalized # {}
  <2>1. isFinalized' = isFinalized \cup M
    BY <1>6 DEF AddHead
  <2>2. AncestorsAreFinal'
    <3>1. head \in M /\ \A h \in M \ isFinalized : parent'[h] # NoHead => parent'[h] \in M
      BY <1>1, <1>2, MarkedClosed
    <3> HIDE DEF M
    <3> QED
      BY <1>4, <2>1, <3>1 DEF AncestorsAreFinal
  <2>3. head \in FinalizedHead
    <3>1. PICK child \in headsByParent[head] : child \in isFinalized
      BY <1>6
    <3>2. ParentHash[child] = head
      BY <3>1, HeadsConstants DEF CacheInv, IndexRight
    <3> QED
      BY <1>3, <3>1, <3>2, HeadsConstants
  <2>4. \A h \in FinalizedHead : Linked(head)[h] # NoHead => Linked(head)[h] \in FinalizedHead
    <3>1. SUFFICES ASSUME NEW h \in FinalizedHead, Linked(head)[h] # NoHead
                   PROVE  Linked(head)[h] \in FinalizedHead
      OBVIOUS
    <3>2. h \in Header /\ Linked(head)[h] \in Header
      BY <1>2, <3>1, HeadsConstants
    <3>3. Linked(head)[h] = ParentHash[h]
      BY <1>1, <3>1, <3>2 DEF LinksRight
    <3> QED
      BY <3>2, <3>3, HeadsConstants
  <2>5. M \subseteq FinalizedHead
    BY <1>2, <2>3, <2>4, HeadsConstants, MarkedWithin
  <2> QED
    BY <1>3, <2>1, <2>2, <2>5 DEF OnlyFinalizedAreFinal
<1> QED
  BY <1>5, <1>6

LEMMA AddHeadKeepsCache ==
    ASSUME CacheInv, NEW head \in Header, head \notin headsByHash,
           ~CycleDetected(head), AddHead(head)
    PROVE  CacheInv'
BY AddHeadKeepsTypes, AddHeadKeepsLinks, AddHeadKeepsFinality DEF CacheInv

----------------------------------------------------------------------------
(* Marking a head as final, and trimming the cache. *)

LEMMA MarkFinalizedKeepsCache ==
    ASSUME CacheInv, MarkFinalized
    PROVE  CacheInv'
<1>1. PICK head \in FinalizedHead :
        LET min == MinBlockToKeep(Number[head])
            old == {h \in headsByHash : Number[h] < min}
        IN  /\ head \in headsByHash
            /\ isFinalized' = (isFinalized \cup Marked(head, parent)) \ old
            /\ headsByHash' = headsByHash \ old
            /\ headsByParent' = [p \in Hash |-> IF \E h \in old : ParentHash[h] = p
                                                  THEN {} ELSE headsByParent[p]]
            /\ parent' = LinksCut(old, parent)
            /\ highest' = IF Number[highest] < min THEN NoHead ELSE highest
  BY DEF MarkFinalized
<1> DEFINE min == MinBlockToKeep(Number[head])
           old == {h \in headsByHash : Number[h] < min}
           M == Marked(head, parent)
<1>2. /\ min \in Nat /\ old \subseteq headsByHash
      /\ headsByHash \subseteq Header
      /\ parent \in [Header -> Header \cup {NoHead}]
      /\ \A h \in Header : Number[h] \in Nat
  BY HeadsConstants, MinIsNat DEF CacheInv, CacheTypeOK
<1>3. \A h \in Header :
        /\ parent[h] # NoHead =>
             /\ h \in headsByHash /\ parent[h] = ParentHash[h] /\ parent[h] \in headsByHash
        /\ h \in headsByHash /\ ParentHash[h] \in headsByHash => parent[h] = ParentHash[h]
  BY DEF CacheInv, LinksRight
<1>4. \A p \in Hash : headsByParent[p] = {h \in headsByHash : ParentHash[h] = p}
  BY DEF CacheInv, IndexRight
<1>5. \A h \in Header :
        parent'[h] = IF h \in old \/ \E o \in old : h \in headsByParent[o]
                       THEN NoHead ELSE parent[h]
  BY <1>1 DEF LinksCut
<1>6. \A h \in Header : parent'[h] = IF h \in old \/ ParentHash[h] \in old THEN NoHead ELSE parent[h]
  <2>1. SUFFICES ASSUME NEW h \in Header
                 PROVE  parent'[h] = IF h \in old \/ ParentHash[h] \in old
                                       THEN NoHead ELSE parent[h]
    OBVIOUS
  <2>2. \A o \in old : h \in headsByParent[o] <=> h \in headsByHash /\ ParentHash[h] = o
    BY <1>2, <1>4, HeadsConstants
  <2>3. h \notin headsByHash => parent[h] = NoHead
    BY <1>3
  <2> HIDE DEF old
  <2> QED
    BY <1>5, <2>2, <2>3
<1>7. M \subseteq headsByHash
  <2>1. \A h \in headsByHash : parent[h] # NoHead => parent[h] \in headsByHash
    BY <1>2, <1>3
  <2> QED
    BY <1>1, <1>2, <2>1, MarkedWithin
<1>8. CacheTypeOK'
  <2>1. parent' \in [Header -> Header \cup {NoHead}]
    BY <1>1, <1>2 DEF LinksCut
  <2>2. headsByHash' \subseteq Header /\ headsByParent' \in [Hash -> SUBSET Header]
    BY <1>1, <1>2 DEF CacheInv, CacheTypeOK
  <2>3. isFinalized' \subseteq headsByHash'
    <3> HIDE DEF M, old
    <3>1. isFinalized \subseteq headsByHash
      BY DEF CacheInv, CacheTypeOK
    <3>2. isFinalized' = (isFinalized \cup M) \ old /\ headsByHash' = headsByHash \ old
      BY <1>1 DEF M, old
    <3> QED
      BY <1>7, <3>1, <3>2
  <2>4. highest' \in headsByHash' \cup {NoHead}
    BY <1>1, <1>2 DEF CacheInv, CacheTypeOK
  <2> QED
    BY <2>1, <2>2, <2>3, <2>4 DEF CacheTypeOK
<1>9. IndexRight'
  <2>1. SUFFICES ASSUME NEW p \in Hash
                 PROVE  headsByParent'[p] = {h \in headsByHash' : ParentHash[h] = p}
    BY DEF IndexRight
  <2>2. CASE \E h \in old : ParentHash[h] = p
    <3>1. \A h \in headsByHash : ParentHash[h] = p => h \in old
      BY <1>2, <2>2, HeadsConstants
    <3>2. headsByHash' = headsByHash \ old /\ headsByParent'[p] = {}
      BY <1>1, <2>2
    <3> HIDE DEF old
    <3> QED
      BY <3>1, <3>2
  <2>3. CASE ~\E h \in old : ParentHash[h] = p
    <3>1. headsByHash' = headsByHash \ old /\ headsByParent'[p] = headsByParent[p]
      BY <1>1, <2>3
    <3> HIDE DEF old
    <3> QED
      BY <1>4, <2>3, <3>1
  <2> QED
    BY <2>2, <2>3
<1>10. LinksRight'
  <2>1. headsByHash' = headsByHash \ old
    BY <1>1
  <2>2. \A h \in Header : parent[h] = IF h \in headsByHash /\ ParentHash[h] \in headsByHash
                                        THEN ParentHash[h] ELSE NoHead
    BY DEF CacheInv, LinksRight
  <2> HIDE DEF old
  <2> QED
    BY <1>2, <1>6, <2>1, <2>2 DEF LinksRight
<1>11. LinksGoDown'
  <2> HIDE DEF old
  <2> QED
    BY <1>6 DEF CacheInv, LinksGoDown
<1>12. HighestIsHighest'
  <2>1. highest \in headsByHash /\ \A h \in headsByHash : Number[h] <= Number[highest]
    BY <1>1 DEF CacheInv, HighestIsHighest
  <2>2. head \in headsByHash /\ Number[head] >= min
    BY <1>1, <1>2, MinIsNat
  <2>3. ~(Number[highest] < min)
    BY <1>2, <2>1, <2>2
  <2>4. highest' = highest /\ headsByHash' = headsByHash \ old /\ highest \notin old
    BY <1>1, <2>3
  <2> HIDE DEF old
  <2> QED
    BY <2>1, <2>4 DEF HighestIsHighest
<1>13. AncestorsAreFinal'
  <2>1. isFinalized' = (isFinalized \cup M) \ old
    BY <1>1
  <2>2. M \subseteq Header /\ \A h \in M \ isFinalized : parent[h] # NoHead => parent[h] \in M
    BY <1>1, <1>2, MarkedClosed
  <2>3. isFinalized \subseteq Header /\ \A h \in isFinalized : parent[h] # NoHead => parent[h] \in isFinalized
    BY <1>2 DEF CacheInv, CacheTypeOK, AncestorsAreFinal
  <2>4. \A h \in Header : parent'[h] # NoHead =>
          parent'[h] = parent[h] /\ parent[h] # NoHead /\ parent[h] = ParentHash[h] /\ ParentHash[h] \notin old
    <3> HIDE DEF old
    <3> QED
      BY <1>3, <1>6
  <2> HIDE DEF old, M
  <2> QED
    BY <2>1, <2>2, <2>3, <2>4 DEF AncestorsAreFinal
<1>14. OnlyFinalizedAreFinal'
  <2>1. \A h \in FinalizedHead : parent[h] # NoHead => parent[h] \in FinalizedHead
    <3>1. SUFFICES ASSUME NEW h \in FinalizedHead, parent[h] # NoHead
                   PROVE  parent[h] \in FinalizedHead
      OBVIOUS
    <3>2. parent[h] = ParentHash[h] /\ parent[h] \in Header
      BY <1>2, <1>3, <3>1, HeadsConstants
    <3> QED
      BY <3>2, HeadsConstants
  <2>2. M \subseteq FinalizedHead
    BY <1>2, <2>1, HeadsConstants, MarkedWithin
  <2>3. isFinalized' = (isFinalized \cup M) \ old /\ isFinalized \subseteq FinalizedHead
    BY <1>1 DEF CacheInv, OnlyFinalizedAreFinal
  <2> HIDE DEF old, M
  <2> QED
    BY <2>2, <2>3 DEF OnlyFinalizedAreFinal
<1> QED
  BY <1>8, <1>9, <1>10, <1>11, <1>12, <1>13, <1>14 DEF CacheInv

----------------------------------------------------------------------------
(* The whole state. *)

LEMMA CacheUnchanged ==
    ASSUME CacheInv, UNCHANGED headSet
    PROVE  CacheInv'
BY DEF CacheInv, headSet, CacheTypeOK, IndexRight, LinksRight, LinksGoDown, HighestIsHighest,
       AncestorsAreFinal, OnlyFinalizedAreFinal

LEMMA EmptyCache ==
    /\ headsByHash = {} /\ headsByParent = [p \in Hash |-> {}]
    /\ parent = [h \in Header |-> NoHead] /\ isFinalized = {} /\ highest = NoHead
    => CacheInv
BY DEF CacheInv, CacheTypeOK, IndexRight, LinksRight, LinksGoDown, HighestIsHighest,
       AncestorsAreFinal, OnlyFinalizedAreFinal

LEMMA EmptyCacheNext ==
    /\ headsByHash' = {} /\ headsByParent' = [p \in Hash |-> {}]
    /\ parent' = [h \in Header |-> NoHead] /\ isFinalized' = {} /\ highest' = NoHead
    => CacheInv'
BY DEF CacheInv, CacheTypeOK, IndexRight, LinksRight, LinksGoDown, HighestIsHighest,
       AncestorsAreFinal, OnlyFinalizedAreFinal

LEMMA HeadsInvInit == HeadsInit => HeadsInv
<1> SUFFICES ASSUME HeadsInit PROVE HeadsInv
  OBVIOUS
<1>1. CacheInv
  BY EmptyCache DEF HeadsInit
<1>2. TableTypeOK /\ LoadsFirst /\ TrimsBelow /\ RestartLosesNothing
  BY DEF HeadsInit, TableTypeOK, LoadsFirst, TrimsBelow, RestartLosesNothing
<1> QED
  BY <1>1, <1>2 DEF HeadsInv

LEMMA SaveKeeps ==
    ASSUME HeadsInv, NEW th \in HeadsThreads, Save(th)
    PROVE  HeadsInv'
<1>1. PICK head \in Header :
        /\ loading = {} /\ headsPc[th] = "idle"
        /\ \/ UNCHANGED <<headSet, headsPc, headsJob>>
           \/ /\ head \in headsByHash \/ ~CycleDetected(head)
              /\ IF head \in headsByHash THEN UNCHANGED headSet ELSE AddHead(head)
              /\ headsPc' = [headsPc EXCEPT ![th] = "insert"]
              /\ headsJob' = [headsJob EXCEPT ![th] = head]
        /\ UNCHANGED <<headsTable, older, loading, headsUsed, lost, trimmed>>
  BY DEF Save
<1>2. CASE UNCHANGED <<headSet, headsPc, headsJob>>
  <2>1. CacheInv' /\ headsByHash' = headsByHash
    BY <1>2, CacheUnchanged DEF HeadsInv, headSet
  <2> QED
    BY <1>1, <1>2, <2>1 DEF HeadsInv, TableTypeOK, LoadsFirst, TrimsBelow, RestartLosesNothing
<1>3. CASE /\ head \in headsByHash \/ ~CycleDetected(head)
           /\ IF head \in headsByHash THEN UNCHANGED headSet ELSE AddHead(head)
           /\ headsPc' = [headsPc EXCEPT ![th] = "insert"]
           /\ headsJob' = [headsJob EXCEPT ![th] = head]
  <2>1. CacheInv'
    BY <1>3, CacheUnchanged, AddHeadKeepsCache DEF HeadsInv
  <2>2. headsByHash' \subseteq headsByHash \cup {head} /\ headsByHash \subseteq Header
    BY <1>3 DEF HeadsInv, CacheInv, CacheTypeOK, headSet, AddHead
  <2>3. /\ \A t \in HeadsThreads : headsPc'[t] = IF t = th THEN "insert" ELSE headsPc[t]
        /\ \A t \in HeadsThreads : headsJob'[t] = IF t = th THEN head ELSE headsJob[t]
        /\ DOMAIN headsJob' = HeadsThreads
        /\ headsPc' \in [HeadsThreads -> {"idle", "insert", "trim"}]
    BY <1>3 DEF HeadsInv, TableTypeOK
  <2>4. TableTypeOK'
    BY <1>1, <2>3 DEF HeadsInv, TableTypeOK
  <2>5. LoadsFirst' /\ TrimsBelow'
    BY <1>1, <2>3 DEF HeadsInv, LoadsFirst, TrimsBelow
  <2>6. RestartLosesNothing'
    <3>1. SUFFICES ASSUME NEW h \in headsByHash', Number[h] >= trimmed'
                   PROVE  \/ h \in headsTable' \cup lost'
                          \/ \E t \in HeadsThreads : headsPc'[t] = "insert" /\ h = headsJob'[t]
      BY DEF RestartLosesNothing
    <3>2. CASE h = head
      BY <2>3, <3>2
    <3>3. CASE h # head
      <4>1. \/ h \in headsTable \cup lost
            \/ \E t \in HeadsThreads : headsPc[t] = "insert" /\ h = headsJob[t]
        BY <1>1, <2>2, <3>1, <3>3 DEF HeadsInv, RestartLosesNothing
      <4> QED
        BY <1>1, <2>3, <4>1
    <3> QED
      BY <3>2, <3>3
  <2> QED
    BY <2>1, <2>4, <2>5, <2>6 DEF HeadsInv
<1> QED
  BY <1>1, <1>2, <1>3

LEMMA InsertKeeps ==
    ASSUME HeadsInv, NEW th \in HeadsThreads, IdempotentInsertHead(th)
    PROVE  HeadsInv'
<1> DEFINE head == headsJob[th]
<1>1. /\ headsPc[th] = "insert" /\ head \in Header
      /\ headsTable \subseteq headsTable' /\ headsTable' \subseteq headsTable \cup {head}
      /\ lost' \subseteq lost \cup {head} /\ lost \subseteq lost' \cup {head}
      /\ head \in headsTable' \cup lost'
      /\ older' \in [Header -> SUBSET Header]
      /\ UNCHANGED <<headSet, loading, trimmed>>
      /\ headsPc' = [headsPc EXCEPT ![th] = "idle"]
      /\ headsJob' = [headsJob EXCEPT ![th] = 0]
  BY DEF IdempotentInsertHead, HeadsInv, TableTypeOK
<1> HIDE DEF head
<1>2. /\ \A t \in HeadsThreads : headsPc'[t] = IF t = th THEN "idle" ELSE headsPc[t]
      /\ \A t \in HeadsThreads : headsJob'[t] = IF t = th THEN 0 ELSE headsJob[t]
      /\ DOMAIN headsJob' = HeadsThreads
      /\ headsPc' \in [HeadsThreads -> {"idle", "insert", "trim"}]
  BY <1>1 DEF HeadsInv, TableTypeOK
<1>3. CacheInv' /\ headsByHash' = headsByHash
  BY <1>1, CacheUnchanged DEF HeadsInv, headSet
<1>4. TableTypeOK'
  BY <1>1, <1>2 DEF HeadsInv, TableTypeOK
<1>5. LoadsFirst' /\ TrimsBelow'
  <2>1. loading = {}
    BY <1>1 DEF HeadsInv, LoadsFirst
  <2> QED
    BY <1>1, <1>2, <2>1 DEF HeadsInv, LoadsFirst, TrimsBelow
<1>6. RestartLosesNothing'
  <2>1. SUFFICES ASSUME NEW h \in headsByHash', Number[h] >= trimmed'
                 PROVE  \/ h \in headsTable' \cup lost'
                        \/ \E t \in HeadsThreads : headsPc'[t] = "insert" /\ h = headsJob'[t]
    BY DEF RestartLosesNothing
  <2>2. \/ h \in headsTable \cup lost
        \/ \E t \in HeadsThreads : headsPc[t] = "insert" /\ h = headsJob[t]
    BY <1>1, <1>3, <2>1 DEF HeadsInv, RestartLosesNothing
  <2> QED
    BY <1>1, <1>2, <2>2 DEF head
<1> QED
  BY <1>3, <1>4, <1>5, <1>6 DEF HeadsInv

LEMMA MarkFinalizedKeeps ==
    ASSUME HeadsInv, MarkFinalized
    PROVE  HeadsInv'
<1>1. PICK head \in FinalizedHead :
        LET min == MinBlockToKeep(Number[head]) IN
        /\ loading = {} /\ headsPc["backfill"] = "idle"
        /\ headsByHash' \subseteq headsByHash
        /\ headsPc' = [headsPc EXCEPT !["backfill"] = "trim"]
        /\ headsJob' = [headsJob EXCEPT !["backfill"] = min]
        /\ trimmed' = IF min > trimmed THEN min ELSE trimmed
        /\ UNCHANGED <<headsTable, older, loading, headsUsed, lost>>
  BY DEF MarkFinalized
<1> DEFINE min == MinBlockToKeep(Number[head])
<1>2. min \in Nat /\ trimmed \in Nat /\ "backfill" \in HeadsThreads
  BY HeadsConstants, MinIsNat DEF HeadsInv, TableTypeOK, HeadsThreads
<1>3. /\ headsPc' = [headsPc EXCEPT !["backfill"] = "trim"]
      /\ headsJob' = [headsJob EXCEPT !["backfill"] = min]
      /\ trimmed' = IF min > trimmed THEN min ELSE trimmed
  BY <1>1
<1> HIDE DEF min
<1>4. /\ \A t \in HeadsThreads : headsPc'[t] = IF t = "backfill" THEN "trim" ELSE headsPc[t]
      /\ \A t \in HeadsThreads : headsJob'[t] = IF t = "backfill" THEN min ELSE headsJob[t]
      /\ DOMAIN headsJob' = HeadsThreads
      /\ headsPc' \in [HeadsThreads -> {"idle", "insert", "trim"}]
  BY <1>2, <1>3 DEF HeadsInv, TableTypeOK
<1>5. CacheInv'
  BY MarkFinalizedKeepsCache DEF HeadsInv
<1>6. trimmed' \in Nat /\ trimmed' >= trimmed /\ trimmed' >= min
  BY <1>2, <1>3
<1>7. TableTypeOK'
  BY <1>1, <1>2, <1>4, <1>6 DEF HeadsInv, TableTypeOK
<1>8. LoadsFirst'
  BY <1>1 DEF HeadsInv, LoadsFirst
<1>9. TrimsBelow'
  <2>1. SUFFICES ASSUME NEW t \in HeadsThreads, headsPc'[t] = "trim"
                 PROVE  headsJob'[t] <= trimmed'
    BY DEF TrimsBelow
  <2>2. CASE t = "backfill"
    BY <1>2, <1>4, <1>6, <2>2
  <2>3. CASE t # "backfill"
    <3>1. headsPc[t] = "trim" /\ headsJob'[t] = headsJob[t] /\ headsJob[t] \in Nat
      BY <1>4, <2>1, <2>3 DEF HeadsInv, TableTypeOK
    <3>2. headsJob[t] <= trimmed
      BY <3>1 DEF HeadsInv, TrimsBelow
    <3> QED
      BY <1>2, <1>6, <3>1, <3>2
  <2> QED
    BY <2>2, <2>3
<1>10. RestartLosesNothing'
  <2>1. SUFFICES ASSUME NEW h \in headsByHash', Number[h] >= trimmed'
                 PROVE  \/ h \in headsTable' \cup lost'
                        \/ \E t \in HeadsThreads : headsPc'[t] = "insert" /\ h = headsJob'[t]
    BY DEF RestartLosesNothing
  <2>2. h \in headsByHash /\ h \in Header /\ Number[h] \in Nat
    BY <1>1, <2>1, HeadsConstants DEF HeadsInv, CacheInv, CacheTypeOK
  <2>3. Number[h] >= trimmed
    BY <1>2, <1>6, <2>1, <2>2
  <2>4. \/ h \in headsTable \cup lost
        \/ \E t \in HeadsThreads : headsPc[t] = "insert" /\ h = headsJob[t]
    BY <2>2, <2>3 DEF HeadsInv, RestartLosesNothing
  <2> QED
    BY <1>1, <1>4, <2>4
<1> QED
  BY <1>5, <1>7, <1>8, <1>9, <1>10 DEF HeadsInv

LEMMA TrimKeeps ==
    ASSUME HeadsInv, TrimOldHeads
    PROVE  HeadsInv'
<1>1. /\ headsPc["backfill"] = "trim"
      /\ headsTable' \subseteq headsTable
      /\ \A h \in headsTable \ headsTable' : ~(Number[h] >= headsJob["backfill"])
      /\ older' \in [Header -> SUBSET Header]
      /\ headsPc' = [headsPc EXCEPT !["backfill"] = "idle"]
      /\ headsJob' = [headsJob EXCEPT !["backfill"] = 0]
      /\ UNCHANGED <<headSet, loading, lost, trimmed>>
  BY DEF TrimOldHeads, Trimmed, HeadsInv, TableTypeOK
<1>2. /\ "backfill" \in HeadsThreads
      /\ \A t \in HeadsThreads : headsPc'[t] = IF t = "backfill" THEN "idle" ELSE headsPc[t]
      /\ \A t \in HeadsThreads : headsJob'[t] = IF t = "backfill" THEN 0 ELSE headsJob[t]
      /\ DOMAIN headsJob' = HeadsThreads
      /\ headsPc' \in [HeadsThreads -> {"idle", "insert", "trim"}]
  BY <1>1 DEF HeadsInv, TableTypeOK, HeadsThreads
<1>3. CacheInv' /\ headsByHash' = headsByHash
  BY <1>1, CacheUnchanged DEF HeadsInv, headSet
<1>4. TableTypeOK'
  BY <1>1, <1>2 DEF HeadsInv, TableTypeOK
<1>5. loading = {}
  BY <1>1, <1>2 DEF HeadsInv, LoadsFirst
<1>6. LoadsFirst' /\ TrimsBelow'
  BY <1>1, <1>2, <1>5 DEF HeadsInv, LoadsFirst, TrimsBelow
<1>7. RestartLosesNothing'
  <2>1. SUFFICES ASSUME NEW h \in headsByHash', Number[h] >= trimmed'
                 PROVE  \/ h \in headsTable' \cup lost'
                        \/ \E t \in HeadsThreads : headsPc'[t] = "insert" /\ h = headsJob'[t]
    BY DEF RestartLosesNothing
  <2>2. \/ h \in headsTable \cup lost
        \/ \E t \in HeadsThreads : headsPc[t] = "insert" /\ h = headsJob[t]
    BY <1>1, <1>3, <2>1 DEF HeadsInv, RestartLosesNothing
  <2>3. Number[h] \in Nat /\ trimmed \in Nat /\ headsJob["backfill"] \in Nat
    BY <1>1, <1>2, <1>3, <2>1, HeadsConstants DEF HeadsInv, CacheInv, CacheTypeOK, TableTypeOK
  <2>4. Number[h] >= headsJob["backfill"]
    BY <1>1, <1>2, <2>1, <2>3 DEF HeadsInv, TrimsBelow
  <2> QED
    BY <1>1, <1>2, <2>2, <2>4
<1> QED
  BY <1>3, <1>4, <1>6, <1>7 DEF HeadsInv

LEMMA RestartKeeps ==
    ASSUME HeadsInv, HeadsRestart
    PROVE  HeadsInv'
<1>1. CacheInv' /\ headsByHash' = {}
  BY EmptyCacheNext DEF HeadsRestart
<1>2. loading' \subseteq headsTable
  BY DEF HeadsRestart
<1>3. TableTypeOK' /\ LoadsFirst' /\ TrimsBelow' /\ RestartLosesNothing'
  BY <1>1, <1>2 DEF HeadsRestart, HeadsInv, TableTypeOK, LoadsFirst, TrimsBelow,
                    RestartLosesNothing
<1> QED
  BY <1>1, <1>3 DEF HeadsInv

LEMMA LoadKeeps ==
    ASSUME HeadsInv, Load
    PROVE  HeadsInv'
<1>1. PICK head \in loading :
        /\ \/ loading' = {} /\ UNCHANGED headSet
           \/ ~CycleDetected(head) /\ loading' = loading \ {head} /\ AddHead(head)
        /\ UNCHANGED <<headsTable, older, headsPc, headsJob, headsUsed, lost, trimmed>>
  BY DEF Load
<1>2. head \in Header /\ head \in headsTable /\ head \notin headsByHash
  BY DEF HeadsInv, TableTypeOK, LoadsFirst
<1>3. CacheInv'
  BY <1>1, <1>2, CacheUnchanged, AddHeadKeepsCache DEF HeadsInv
<1>4. /\ headsByHash \subseteq headsByHash' /\ headsByHash' \subseteq headsByHash \cup {head}
      /\ loading' \subseteq loading /\ loading' \cap headsByHash' = {}
  BY <1>1 DEF AddHead, headSet, HeadsInv, LoadsFirst
<1>5. TableTypeOK' /\ LoadsFirst' /\ TrimsBelow'
  BY <1>1, <1>4 DEF HeadsInv, TableTypeOK, LoadsFirst, TrimsBelow
<1>6. RestartLosesNothing'
  BY <1>1, <1>2, <1>4 DEF HeadsInv, RestartLosesNothing
<1> QED
  BY <1>3, <1>5, <1>6 DEF HeadsInv

LEMMA HeadsInvNext ==
    ASSUME HeadsInv, [HeadsNext]_headsVars
    PROVE  HeadsInv'
<1>1. CASE UNCHANGED headsVars
  <2>1. CacheInv'
    BY <1>1, CacheUnchanged DEF HeadsInv, headsVars
  <2> QED
    BY <1>1, <2>1 DEF HeadsInv, headsVars, headSet, TableTypeOK, LoadsFirst, TrimsBelow,
                      RestartLosesNothing
<1>2. ASSUME NEW th \in HeadsThreads, Save(th) \/ IdempotentInsertHead(th)
      PROVE  HeadsInv'
  BY <1>2, SaveKeeps, InsertKeeps
<1> QED
  BY <1>1, <1>2, MarkFinalizedKeeps, TrimKeeps, RestartKeeps, LoadKeeps DEF HeadsNext

----------------------------------------------------------------------------
(* The order of the rows.  Load takes the first row of ORDER BY, so it must have one:
   rows are created one after the other, and trimming keeps their order. *)

RowsAreOrdered ==
    /\ IsFiniteSet(headsTable) /\ headsTable \subseteq Header
    /\ older \in [Header -> SUBSET Header]
    /\ \A h \in headsTable : older[h] \subseteq headsTable /\ h \notin older[h]
    /\ \A g, h \in headsTable : g # h => g \in older[h] \/ h \in older[g]
    /\ \A f, g, h \in headsTable : f \in older[g] /\ g \in older[h] => f \in older[h]

(* g comes after h in the order of LatestHeads. *)
Before(g, h) == Number[g] < Number[h] \/ (Number[g] = Number[h] /\ g \in older[h])

LEMMA BeforeIsAnOrder ==
    ASSUME RowsAreOrdered
    PROVE  /\ \A h \in headsTable : ~Before(h, h)
           /\ \A g, h \in headsTable : g # h => Before(g, h) \/ Before(h, g)
           /\ \A f, g, h \in headsTable : Before(f, g) /\ Before(g, h) => Before(f, h)
<1>1. \A h \in headsTable : Number[h] \in Nat
  BY HeadsConstants DEF RowsAreOrdered
<1>2. \A h \in headsTable : ~Before(h, h)
  BY <1>1 DEF RowsAreOrdered, Before
<1>3. \A g, h \in headsTable : g # h => Before(g, h) \/ Before(h, g)
  BY <1>1 DEF RowsAreOrdered, Before
<1>4. \A f, g, h \in headsTable : Before(f, g) /\ Before(g, h) => Before(f, h)
  BY <1>1 DEF RowsAreOrdered, Before
<1> QED
  BY <1>2, <1>3, <1>4

LEMMA LeastOfNats ==
    ASSUME NEW T \in SUBSET Nat, T # {}
    PROVE  \E m \in T : \A y \in T : m <= y
<1> DEFINE R == OpToRel(<, Nat)
<1>1. PICK m \in T : \A y \in T : ~(<<y, m>> \in R)
  <2> HIDE DEF R
  <2> QED
    BY NatLessThanWellFounded, WFMin DEF R
<1>2. \A y \in T : m <= y
  <2> TAKE y \in T
  <2>1. y \in Nat /\ m \in Nat
    OBVIOUS
  <2>2. y < m => <<y, m>> \in R
    BY <2>1 DEF OpToRel
  <2>3. ~(y < m)
    <3> HIDE DEF R
    <3> QED
      BY <1>1, <2>2
  <2> QED
    BY <2>1, <2>3
<1> QED
  BY <1>2

(* The row with the most others before it is the latest. *)
LEMMA SomeRowIsLatest ==
    ASSUME RowsAreOrdered, NEW T \in SUBSET headsTable, T # {}
    PROVE  \E h \in T : IsLatest(h, T)
<1> DEFINE Below(h) == {g \in T : Before(g, h)}
           Room == {Cardinality(T) - Cardinality(Below(h)) : h \in T}
<1>1. IsFiniteSet(T) /\ Cardinality(T) \in Nat
  BY FS_Subset, FS_CardinalityType DEF RowsAreOrdered
<1>2. ASSUME NEW h \in T
      PROVE  /\ IsFiniteSet(Below(h)) /\ Cardinality(Below(h)) \in Nat
             /\ Cardinality(Below(h)) <= Cardinality(T)
  <2>1. Below(h) \in SUBSET T
    OBVIOUS
  <2> HIDE DEF Below
  <2> QED
    BY <1>1, <2>1, FS_Subset, FS_CardinalityType
<1> HIDE DEF Below
<1>3. Room \in SUBSET Nat /\ Room # {}
  <2>1. \A h \in T : Cardinality(T) - Cardinality(Below(h)) \in Nat
    BY <1>1, <1>2
  <2> QED
    BY <2>1
<1>4. PICK h \in T : \A g \in T : Cardinality(Below(g)) <= Cardinality(Below(h))
  <2>1. PICK m \in Room : \A y \in Room : m <= y
    <3> HIDE DEF Room
    <3> QED
      BY <1>3, LeastOfNats
  <2>2. PICK h \in T : m = Cardinality(T) - Cardinality(Below(h))
    BY <2>1
  <2>3. ASSUME NEW g \in T
        PROVE  Cardinality(Below(g)) <= Cardinality(Below(h))
    <3>1. Cardinality(T) - Cardinality(Below(h)) <= Cardinality(T) - Cardinality(Below(g))
      BY <2>1, <2>2
    <3> QED
      BY <1>1, <1>2, <3>1
  <2> QED
    BY <2>3
<1>5. ASSUME NEW g \in T, g # h, ~Before(g, h)
      PROVE  FALSE
  <2>1. Before(h, g)
    BY <1>5, BeforeIsAnOrder
  <2>2. h \notin Below(h) /\ Below(h) \cup {h} \in SUBSET Below(g)
    BY <2>1, BeforeIsAnOrder DEF Below
  <2>3. Cardinality(Below(h) \cup {h}) = Cardinality(Below(h)) + 1
    BY <1>2, <2>2, FS_AddElement
  <2>4. Cardinality(Below(h) \cup {h}) <= Cardinality(Below(g))
    BY <1>2, <2>2, FS_Subset
  <2> QED
    BY <1>2, <1>4, <2>3, <2>4
<1> QED
  BY <1>5 DEF IsLatest, Before

LEMMA RowsOrderedNext ==
    ASSUME HeadsInv, RowsAreOrdered, [HeadsNext]_headsVars
    PROVE  RowsAreOrdered'
<1>1. CASE UNCHANGED <<headsTable, older>>
  BY <1>1 DEF RowsAreOrdered
<1>2. ASSUME NEW th \in HeadsThreads, IdempotentInsertHead(th)
      PROVE  RowsAreOrdered'
  <2> DEFINE head == headsJob[th]
  <2>1. head \in Header
    BY <1>2 DEF IdempotentInsertHead, HeadsInv, TableTypeOK
  <2>2. \/ UNCHANGED <<headsTable, older>>
        \/ /\ head \notin headsTable /\ headsTable' = headsTable \cup {head}
           /\ older' = [older EXCEPT ![head] = headsTable]
    BY <1>2 DEF IdempotentInsertHead
  <2> HIDE DEF head
  <2>3. CASE /\ head \notin headsTable /\ headsTable' = headsTable \cup {head}
             /\ older' = [older EXCEPT ![head] = headsTable]
    <3>1. IsFiniteSet(headsTable') /\ headsTable' \subseteq Header
      BY <2>1, <2>3, FS_AddElement DEF RowsAreOrdered
    <3>2. /\ older' \in [Header -> SUBSET Header]
          /\ \A h \in Header : older'[h] = IF h = head THEN headsTable ELSE older[h]
      BY <2>1, <2>3 DEF RowsAreOrdered
    <3>3. \A h \in headsTable' : older'[h] \subseteq headsTable' /\ h \notin older'[h]
      BY <2>3, <3>1, <3>2 DEF RowsAreOrdered
    <3>4. \A g, h \in headsTable' : g # h => g \in older'[h] \/ h \in older'[g]
      BY <2>3, <3>1, <3>2 DEF RowsAreOrdered
    <3>5. \A f, g, h \in headsTable' : f \in older'[g] /\ g \in older'[h] => f \in older'[h]
      BY <2>3, <3>1, <3>2 DEF RowsAreOrdered
    <3> QED
      BY <3>1, <3>2, <3>3, <3>4, <3>5 DEF RowsAreOrdered
  <2> QED
    BY <1>1, <2>2, <2>3
<1>3. CASE TrimOldHeads
  <2>1. \/ UNCHANGED <<headsTable, older>>
        \/ /\ headsTable' \in SUBSET headsTable
           /\ older' = [h \in Header |->
                          IF h \in headsTable' THEN older[h] \cap headsTable' ELSE {}]
    BY <1>3 DEF TrimOldHeads, Trimmed
  <2>2. CASE /\ headsTable' \in SUBSET headsTable
             /\ older' = [h \in Header |->
                            IF h \in headsTable' THEN older[h] \cap headsTable' ELSE {}]
    <3>1. IsFiniteSet(headsTable')
      BY <2>2, FS_Subset DEF RowsAreOrdered
    <3> QED
      BY <2>2, <3>1 DEF RowsAreOrdered
  <2> QED
    BY <1>1, <2>1, <2>2
<1>4. ASSUME NEW th \in HeadsThreads, Save(th)
      PROVE  UNCHANGED <<headsTable, older>>
  BY <1>4 DEF Save
<1>5. MarkFinalized \/ HeadsRestart \/ Load => UNCHANGED <<headsTable, older>>
  BY DEF MarkFinalized, HeadsRestart, Load
<1>6. UNCHANGED headsVars => UNCHANGED <<headsTable, older>>
  BY DEF headsVars
<1> QED
  BY <1>1, <1>2, <1>3, <1>4, <1>5, <1>6 DEF HeadsNext

----------------------------------------------------------------------------
(* The theorems. *)

LEMMA HeadsAlways == HeadsSpec => []HeadsInv
<1>1. HeadsInit => HeadsInv
  BY HeadsInvInit
<1>2. HeadsInv /\ [HeadsNext]_headsVars => HeadsInv'
  BY HeadsInvNext
<1> QED
  BY <1>1, <1>2, PTL DEF HeadsSpec

(* Every variable has the shape the code's types and the table give it. *)
THEOREM HeadsTypeCorrect == HeadsSpec => []HeadsTypeOK
<1>1. HeadsInv => HeadsTypeOK
  BY DEF HeadsInv, CacheInv, CacheTypeOK, TableTypeOK, HeadsTypeOK
<1> QED
  BY <1>1, HeadsAlways, PTL

(* However heads come in, are trimmed and are loaded again, a known head is linked to
   its parent exactly when that is known, and LatestHead has the highest number. *)
THEOREM CacheIsConsistent == HeadsSpec => []CacheIsRight
<1>1. HeadsInv => CacheIsRight
  BY DEF HeadsInv, CacheInv, CacheIsRight
<1> QED
  BY <1>1, HeadsAlways, PTL

(* What ensureNoCycles is for: numbers fall along the links, so that no walk over the
   ancestors of a head comes back to where it was. *)
THEOREM WalksGoDown == HeadsSpec => []LinksGoDown
<1>1. HeadsInv => LinksGoDown
  BY DEF HeadsInv, CacheInv
<1> QED
  BY <1>1, HeadsAlways, PTL

(* All known ancestors of a head that counts as final count as final, also those that
   come after it, and no head of a fork does. *)
THEOREM FinalitySpreads == HeadsSpec => []FinalityIsRight
<1>1. HeadsInv => FinalityIsRight
  BY DEF HeadsInv, CacheInv, FinalityIsRight
<1> QED
  BY <1>1, HeadsAlways, PTL

(* What a restart would load has every head of the cache above the highest bound that
   was trimmed to, but for failed inserts and those still to be done. *)
THEOREM NoHeadIsLost == HeadsSpec => []RestartLosesNothing
<1>1. HeadsInv => RestartLosesNothing
  BY DEF HeadsInv
<1> QED
  BY <1>1, HeadsAlways, PTL

(* While there are rows left to load, one of them is the latest: the order by number
   and by creation has a first row, whatever was inserted and trimmed before. *)
LoadHasALatest == loading # {} => \E head \in loading : IsLatest(head, loading)

THEOREM LoadIsNotStuck == HeadsSpec => []LoadHasALatest
<1>1. HeadsInit => RowsAreOrdered
  BY FS_EmptySet DEF HeadsInit, RowsAreOrdered
<1>2. HeadsInv /\ RowsAreOrdered /\ [HeadsNext]_headsVars => RowsAreOrdered'
  BY RowsOrderedNext
<1>3. HeadsInv /\ RowsAreOrdered => LoadHasALatest
  <2>1. ASSUME HeadsInv, RowsAreOrdered, loading # {}
        PROVE  \E head \in loading : IsLatest(head, loading)
    BY <2>1, SomeRowIsLatest DEF HeadsInv, LoadsFirst
  <2> QED
    BY <2>1 DEF LoadHasALatest
<1> QED
  BY <1>1, <1>2, <1>3, HeadsAlways, PTL DEF HeadsSpec
==============================================================================

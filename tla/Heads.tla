-------------------------------- MODULE Heads --------------------------------
(* The heads that pkg/heads keeps: the set of AddHeads and MarkFinalized, which
   links each head to its parent, and the table the saver copies it to.  The
   tracker, external, saves what the node announces in one goroutine and what it
   backfills in another, which also marks the finalized head; the table is written
   after the lock of the set is released.

   A head is its hash.  The node may announce any of them, in any order and more
   than once, also those whose number or parent cannot be right.

   An operator marked "faulty" is a plausible mistake in the operator after it. *)
EXTENDS Integers, FiniteSets

CONSTANTS
    Header, NoHead,
    Number, ParentHash,      \* what each head says of itself
    FinalizedHead,           \* the heads the chain finalizes
    HistoryDepth,
    MaxLostInserts, MaxRestarts      \* bounds: statements that fail, restarts

Hash == Header \cup {ParentHash[h] : h \in Header}

ASSUME HeadsAssumption ==
    /\ NoHead \notin Hash
    /\ Number \in [Header -> Nat] /\ HistoryDepth \in Nat
    /\ \A h \in FinalizedHead : ParentHash[h] \in Header => ParentHash[h] \in FinalizedHead
    /\ FinalizedHead \subseteq Header
    \* "headsByParent are expected to be of the same height" (MarkFinalized)
    /\ \A g, h \in Header : ParentHash[g] = ParentHash[h] => Number[g] = Number[h]

VARIABLES
    headsByHash,             \* the heads that are known
    headsByParent,           \* index: hash -> the known heads that name it as parent
    parent, isFinalized,     \* Head.Parent and Head.IsFinalized of the known heads
    highest,
    headsTable,              \* evm.heads: the heads that have a row
    older,                   \* the rows that were there when a row was created
    headsPc, headsJob,       \* where each goroutine is, and the head or bound it works on
    loading,                 \* the rows that Load has still to add
    headsUsed,               \* how much went wrong so far
    lost, trimmed            \* history: failed inserts, the highest bound trimmed to

headSet == <<headsByHash, headsByParent, parent, isFinalized, highest>>
headsVars == <<headSet, headsTable, older, headsPc, headsJob, loading, headsUsed, lost, trimmed>>

HeadsThreads == {"listener", "backfill"}

HeadsInit ==
    /\ headsByHash = {} /\ headsByParent = [p \in Hash |-> {}]
    /\ parent = [h \in Header |-> NoHead] /\ isFinalized = {} /\ highest = NoHead
    /\ headsTable = {} /\ older = [h \in Header |-> {}] /\ loading = {}
    /\ headsPc = [th \in HeadsThreads |-> "idle"]
    /\ headsJob = [th \in HeadsThreads |-> 0]
    /\ headsUsed = [faults |-> 0, restarts |-> 0]
    /\ lost = {} /\ trimmed = 0

HeadsFault == /\ headsUsed.faults < MaxLostInserts
              /\ headsUsed' = [headsUsed EXCEPT !.faults = @ + 1]

----------------------------------------------------------------------------
(* markFinalized: the head and its ancestors, up to one that is final already: the
   smallest set with the head that has the parent of each of its other members. *)
OnlyItself(head, links) == {head}                                  \* faulty
Marked(head, links) ==
    {g \in DOMAIN links :
        \A S \in SUBSET DOMAIN links :
            /\ head \in S
            /\ \A h \in S \ isFinalized : links[h] # NoHead => links[h] \in S
            => g \in S}

(* ensureNoCycles. *)
CycleDetected(head) ==
    \/ ParentHash[head] = head
    \/ ParentHash[head] \in headsByHash /\ Number[ParentHash[head]] >= Number[head]
    \/ \E child \in headsByParent[head] : Number[head] >= Number[child]

OnlyItsParent(head) ==                                             \* faulty
    [parent EXCEPT ![head] = IF ParentHash[head] \in headsByHash THEN ParentHash[head] ELSE NoHead]
Linked(head) ==
    [h \in Header |->
        IF h \in headsByParent[head] THEN head
        ELSE IF h # head THEN parent[h]
        ELSE IF ParentHash[head] \in headsByHash THEN ParentHash[head] ELSE NoHead]

HighestAfter(head) ==
    IF highest = NoHead \/ Number[highest] <= Number[head] THEN head ELSE highest

(* AddHeads, for one head that is new and makes no cycle. *)
AddHead(head) ==
    /\ headsByHash' = headsByHash \cup {head}
    /\ headsByParent' = [headsByParent EXCEPT ![ParentHash[head]] = @ \cup {head}]
    /\ parent' = Linked(head)
    /\ isFinalized' = IF headsByParent[head] \cap isFinalized # {}
                        THEN isFinalized \cup Marked(head, Linked(head))
                        ELSE isFinalized
    /\ highest' = HighestAfter(head)

(* The saver's Save, which inserts a known head again. *)
Save(th) ==
    \E head \in Header :
        /\ loading = {} /\ headsPc[th] = "idle"
        /\ \/ /\ head \notin headsByHash /\ CycleDetected(head)
              /\ UNCHANGED <<headSet, headsPc, headsJob>>
           \/ /\ head \in headsByHash \/ ~CycleDetected(head)
              /\ IF head \in headsByHash THEN UNCHANGED headSet ELSE AddHead(head)
              /\ headsPc' = [headsPc EXCEPT ![th] = "insert"]
              /\ headsJob' = [headsJob EXCEPT ![th] = head]
        /\ UNCHANGED <<headsTable, older, loading, headsUsed, lost, trimmed>>

(* The statement after it: ON CONFLICT DO NOTHING. *)
IdempotentInsertHead(th) ==
    LET head == headsJob[th] IN
    /\ headsPc[th] = "insert"
    /\ \/ /\ headsTable' = headsTable \cup {head}
          /\ older' = IF head \in headsTable THEN older ELSE [older EXCEPT ![head] = headsTable]
          /\ lost' = lost \ {head}
          /\ UNCHANGED headsUsed
       \/ /\ HeadsFault
          /\ lost' = lost \cup ({head} \ headsTable)
          /\ UNCHANGED <<headsTable, older>>
    /\ headsPc' = [headsPc EXCEPT ![th] = "idle"]
    /\ headsJob' = [headsJob EXCEPT ![th] = 0]
    /\ UNCHANGED <<headSet, loading, trimmed>>

----------------------------------------------------------------------------
NegativeMin(finalizedNumber) == finalizedNumber - HistoryDepth     \* faulty
MinBlockToKeep(finalizedNumber) ==
    IF finalizedNumber > HistoryDepth THEN finalizedNumber - HistoryDepth ELSE 0

LinksCut(cut, links) ==
    [h \in Header |-> IF h \in cut \/ \E old \in cut : h \in headsByParent[old]
                      THEN NoHead ELSE links[h]]

(* The set's MarkFinalized.  The heads go in the order of their numbers, so that
   the children of a head are still indexed when it goes. *)
MarkFinalized ==
    \E head \in FinalizedHead :
        LET min == MinBlockToKeep(Number[head])
            old == {h \in headsByHash : Number[h] < min}
        IN
        /\ loading = {} /\ headsPc["backfill"] = "idle"
        /\ head \in headsByHash
        /\ isFinalized' = (isFinalized \cup Marked(head, parent)) \ old
        /\ headsByHash' = headsByHash \ old
        /\ headsByParent' = [p \in Hash |-> IF \E h \in old : ParentHash[h] = p
                                              THEN {} ELSE headsByParent[p]]
        /\ parent' = LinksCut(old, parent)
        /\ highest' = IF Number[highest] < min THEN NoHead ELSE highest
        /\ headsPc' = [headsPc EXCEPT !["backfill"] = "trim"]
        /\ headsJob' = [headsJob EXCEPT !["backfill"] = min]
        /\ trimmed' = IF min > trimmed THEN min ELSE trimmed
        /\ UNCHANGED <<headsTable, older, loading, headsUsed, lost>>

TrimmedTooMuch(min) == {h \in headsTable : Number[h] > min}         \* faulty
Trimmed(min) == {h \in headsTable : Number[h] >= min}

TrimOldHeads ==
    /\ headsPc["backfill"] = "trim"
    /\ \/ /\ headsTable' = Trimmed(headsJob["backfill"])
          /\ older' = [h \in Header |->
                          IF h \in headsTable' THEN older[h] \cap headsTable' ELSE {}]
          /\ UNCHANGED headsUsed
       \/ HeadsFault /\ UNCHANGED <<headsTable, older>>
    /\ headsPc' = [headsPc EXCEPT !["backfill"] = "idle"]
    /\ headsJob' = [headsJob EXCEPT !["backfill"] = 0]
    /\ UNCHANGED <<headSet, loading, lost, trimmed>>

----------------------------------------------------------------------------
(* The process starts again, and the tracker calls Load before anything else. *)

(* ORDER BY number DESC, created_at DESC, id DESC: no other of the rows is before h. *)
IsLatest(h, stored) ==
    \A g \in stored \ {h} :
        Number[g] < Number[h] \/ (Number[g] = Number[h] /\ g \in older[h])

HeadsRestart ==
    /\ headsUsed.restarts < MaxRestarts
    /\ headsUsed' = [headsUsed EXCEPT !.restarts = @ + 1]
    /\ headsByHash' = {} /\ headsByParent' = [p \in Hash |-> {}]
    /\ parent' = [h \in Header |-> NoHead] /\ isFinalized' = {} /\ highest' = NoHead
    /\ headsPc' = [th \in HeadsThreads |-> "idle"]
    /\ headsJob' = [th \in HeadsThreads |-> 0]
    /\ \E latest \in {Number[h] : h \in FinalizedHead} :
         loading' = {h \in headsTable : Number[h] >= MinBlockToKeep(latest)}
    /\ UNCHANGED <<headsTable, older, lost, trimmed>>

(* AddHeads holds the lock for all the rows; it gives up at the first that makes a
   cycle. *)
Load ==
    \E head \in loading :
        /\ IsLatest(head, loading)
        /\ IF CycleDetected(head)
             THEN loading' = {} /\ UNCHANGED headSet
             ELSE loading' = loading \ {head} /\ AddHead(head)
        /\ UNCHANGED <<headsTable, older, headsPc, headsJob, headsUsed, lost, trimmed>>

HeadsNext ==
    \/ \E th \in HeadsThreads : Save(th) \/ IdempotentInsertHead(th)
    \/ MarkFinalized \/ TrimOldHeads \/ HeadsRestart \/ Load

HeadsSpec == HeadsInit /\ [][HeadsNext]_headsVars

----------------------------------------------------------------------------
(* Properties. *)

(* Every variable has the shape the code's types and the table give it. *)
HeadsTypeOK ==
    /\ headsByHash \subseteq Header /\ headsByParent \in [Hash -> SUBSET Header]
    /\ parent \in [Header -> Header \cup {NoHead}]
    /\ isFinalized \subseteq headsByHash /\ highest \in headsByHash \cup {NoHead}
    /\ headsTable \subseteq Header /\ loading \subseteq Header
    /\ older \in [Header -> SUBSET Header]
    /\ headsPc \in [HeadsThreads -> {"idle", "insert", "trim"}]
    /\ \A th \in HeadsThreads : headsJob[th] \in IF headsPc[th] = "insert" THEN Header ELSE Nat
    /\ lost \subseteq Header /\ trimmed \in Nat

(* In whatever order heads come, and whatever was trimmed in between, a known head
   is linked to its parent if and only if that is known too: the chain that a
   consumer walks has neither a hole nor a head that was dropped. *)
LinksRight ==
    \A h \in Header :
        parent[h] = IF h \in headsByHash /\ ParentHash[h] \in headsByHash THEN ParentHash[h]
                                                                         ELSE NoHead

(* "we can assume that if a head was previously marked as finalized all its ancestors
   were marked as finalized" (markFinalized). *)
AncestorsAreFinal == \A h \in isFinalized : parent[h] # NoHead => parent[h] \in isFinalized

(* A head is not taken for final because a head of another fork is. *)
OnlyFinalizedAreFinal == isFinalized \subseteq FinalizedHead

(* LatestHead is a head with the highest number, and there is one exactly when there
   are heads. *)
HighestIsHighest ==
    IF headsByHash = {} THEN highest = NoHead
    ELSE highest \in headsByHash /\ \A h \in headsByHash : Number[h] <= Number[highest]

(* The cache is consistent with the set of its heads. *)
CacheIsRight == LinksRight /\ HighestIsHighest

(* Finality spreads to all ancestors, and to nothing else. *)
FinalityIsRight == AncestorsAreFinal /\ OnlyFinalizedAreFinal

(* What a restart would load has every head of the set that was not trimmed, but
   for those whose insert failed or is still to be done. *)
RestartLosesNothing ==
    \A h \in headsByHash :
        Number[h] >= trimmed =>
            h \in headsTable \cup lost \cup {headsJob[th] : th \in {t \in HeadsThreads : headsPc[t] = "insert"}}

(* "if heads have the same height, LatestHead prefers most recent" (heads_test.go): also
   once the table is loaded.  Not so, and no run checks it; see the README. *)
LatestSurvivesRestart ==
    [][loading # {} /\ loading' = {} => IsLatest(highest', headsTable)]_headsVars
=============================================================================

------------------------------ MODULE LogPruning ------------------------------
(* The pruning worker of the log poller, while blocks are saved and clients register
   and unregister filters: PruneOldBlocks, PruneExpiredLogs and PruneUnmatchedLogs.
   Excess and unmatched logs are selected page by page and deleted by a statement of
   their own, so that everything may change in between.

   A log has a block, its index in the block and a kind, its address and event.  The
   clock is the number of the latest block.  Reorgs are the subject of LogPoller:
   apart from expiry the worker touches logs of final blocks only.

   An operator marked "faulty" is a plausible mistake in the operator after it. *)
EXTENDS Integers, FiniteSets, Sequences

CONSTANTS
    Filters, Kinds,
    Matches,                         \* the kinds of each filter
    Retention, MaxLogsKept,          \* of each filter; 0 is "for ever" and "all"
    LogPrunePageSize,                \* 0 is "no pages"
    PruneKeepDepth, PruneFinalityDepth,      \* keepFinalizedBlocksDepth; finality depth
    LastBlock, LastLog, MaxTurns     \* bounds: blocks, logs, changes of the filters and restarts

ASSUME PruningAssumption ==
    /\ Matches \in [Filters -> SUBSET Kinds]
    /\ Retention \in [Filters -> Nat] /\ MaxLogsKept \in [Filters -> Nat]
    /\ {LogPrunePageSize, PruneKeepDepth, PruneFinalityDepth, LastBlock, LastLog, MaxTurns} \subseteq Nat

VARIABLES
    firstBlock, lastBlock,   \* the rows of log_poller_blocks: a range, 0 if there is none
    logRows,                 \* evm.logs
    filterRows,              \* evm.log_poller_filters
    countActive,             \* countBasedLogPruningActive
    pruner,                  \* where the worker is
    query,                   \* its paged query: next block, last block, the ids so far
    touched,                 \* history: filters changed since the worker was idle
    logCount, turns          \* how many logs there were, how often the filters changed

pruningVars == <<firstBlock, lastBlock, logRows, filterRows, countActive, pruner, query,
                 touched, logCount, turns>>

NoQuery == [lower |-> 0, end |-> 0, ids |-> {}]

PruningInit ==
    /\ firstBlock = 0 /\ lastBlock = 0 /\ logRows = {} /\ filterRows = {}
    /\ countActive = FALSE /\ pruner = "idle" /\ query = NoQuery
    /\ touched = {} /\ logCount = 0 /\ turns = 0

FinalizedBlock == IF lastBlock > PruneFinalityDepth THEN lastBlock - PruneFinalityDepth ELSE 0

MatchingFilters(l) == {f \in filterRows : l.kind \in Matches[f]}

----------------------------------------------------------------------------
(* The poller saves the next block, with logs of the filters there are. *)
SaveBlock ==
    LET kinds == UNION {Matches[f] : f \in filterRows} IN
    \E n \in 0..2 : \E saved \in [1..n -> kinds] :
        /\ lastBlock < LastBlock /\ logCount + n <= LastLog
        /\ lastBlock' = lastBlock + 1
        /\ firstBlock' = IF firstBlock = 0 THEN lastBlock + 1 ELSE firstBlock
        /\ logRows' = logRows \cup
             {[block |-> lastBlock + 1, index |-> i, kind |-> saved[i]] : i \in 1..n}
        /\ logCount' = logCount + n
        /\ UNCHANGED <<filterRows, countActive, pruner, query, touched, turns>>

ChangeFilter(f) ==
    /\ turns < MaxTurns /\ turns' = turns + 1
    /\ touched' = IF pruner = "idle" THEN {} ELSE touched \cup {f}

RegisterFilter(f) ==
    /\ f \notin filterRows
    /\ filterRows' = filterRows \cup {f}
    /\ countActive' = (countActive \/ MaxLogsKept[f] > 0)
    /\ ChangeFilter(f)
    /\ UNCHANGED <<firstBlock, lastBlock, logRows, pruner, query, logCount>>

UnregisterFilter(f) ==
    /\ f \in filterRows
    /\ filterRows' = filterRows \ {f}
    /\ ChangeFilter(f)
    /\ UNCHANGED <<firstBlock, lastBlock, logRows, countActive, pruner, query, logCount>>

(* A restart, after which run() loads the filters; it may be late with that. *)
PrunerRestart ==
    /\ turns < MaxTurns /\ turns' = turns + 1
    /\ countActive' = FALSE /\ pruner' = "idle" /\ query' = NoQuery /\ touched' = {}
    /\ UNCHANGED <<firstBlock, lastBlock, logRows, filterRows, logCount>>

LoadFilters ==
    /\ countActive' = (countActive \/ \E f \in filterRows : MaxLogsKept[f] # 0)
    /\ UNCHANGED <<firstBlock, lastBlock, logRows, filterRows, pruner, query, touched, logCount, turns>>

----------------------------------------------------------------------------
(* PruneOldBlocks, all pages at once. *)
PruneBlocks ==
    /\ pruner = "idle" /\ firstBlock > 0
    /\ FinalizedBlock > PruneKeepDepth
    /\ firstBlock <= FinalizedBlock - PruneKeepDepth
    /\ firstBlock' = IF FinalizedBlock - PruneKeepDepth = lastBlock THEN 0
                     ELSE FinalizedBlock - PruneKeepDepth + 1
    /\ UNCHANGED <<lastBlock, logRows, filterRows, countActive, pruner, query, touched, logCount, turns>>

(* DeleteExpiredLogs: HAVING MIN(retention) > 0, and the MAX(retention) is over. *)
SomeExpired(l) == \E f \in MatchingFilters(l) : Retention[f] > 0 /\ l.block + Retention[f] <= lastBlock  \* faulty
Expired(l) ==
    /\ MatchingFilters(l) # {}
    /\ \A f \in MatchingFilters(l) : Retention[f] > 0 /\ l.block + Retention[f] <= lastBlock

(* Where the worker goes after PruneExpiredLogs: the unmatched logs have their turn
   only when all the expired ones are gone, and not each time. *)
AfterExpired(done) == IF done THEN {"unmatched", "idle"} ELSE {"idle"}
IsPage(rows) == LogPrunePageSize # 0 /\ rows = LogPrunePageSize

DeleteExpiredLogs ==
    LET expired == {l \in logRows : Expired(l)} IN
    /\ pruner = "idle"
    /\ \E rows \in SUBSET expired :
         /\ IF LogPrunePageSize = 0 \/ Cardinality(expired) <= LogPrunePageSize
              THEN rows = expired
              ELSE Cardinality(rows) = LogPrunePageSize
         /\ logRows' = logRows \ rows
         /\ pruner' \in IF countActive THEN {"excess"} ELSE AfterExpired(~IsPage(Cardinality(rows)))
    /\ query' = NoQuery /\ touched' = {}
    /\ UNCHANGED <<firstBlock, lastBlock, filterRows, countActive, logCount, turns>>

----------------------------------------------------------------------------
(* SelectExcessLogIDs: ROW_NUMBER() OVER (PARTITION BY f.name
   ORDER BY block_number, log_index DESC) > max_logs_kept, and BOOL_AND(old). *)
RowNumber(f, l, rows) ==
    Cardinality({k \in rows : /\ k.kind \in Matches[f]
                              /\ \/ k.block < l.block
                                 \/ k.block = l.block /\ k.index >= l.index})

Old(f, l, rows) == MaxLogsKept[f] # 0 /\ RowNumber(f, l, rows) > MaxLogsKept[f]

Excess(rows) ==
    {l \in rows : MatchingFilters(l) # {} /\ \A f \in MatchingFilters(l) : Old(f, l, rows)}

(* SelectUnmatchedLogIDs. *)
Unmatched(rows) == {l \in rows : MatchingFilters(l) = {}}

(* ExecPagedQuery: from the first block that has a row in log_poller_blocks. *)
StartQuery(task, pages) ==
    /\ pruner = task
    /\ IF firstBlock = 0
         THEN pruner' = "idle" /\ query' = NoQuery
         ELSE /\ pruner' = pages
              /\ query' = [lower |-> IF LogPrunePageSize = 0 THEN 0 ELSE firstBlock,
                           end |-> FinalizedBlock, ids |-> {}]
    /\ UNCHANGED <<firstBlock, lastBlock, logRows, filterRows, countActive, touched, logCount, turns>>

Upper ==
    LET last == query.lower + LogPrunePageSize - 1
    IN  IF LogPrunePageSize = 0 \/ last > query.end THEN query.end ELSE last
Page == {l \in logRows : l.block \in query.lower..Upper}

QueryPage(pages, selected, delete) ==
    LET ids == query.ids \cup selected IN
    /\ pruner = pages
    /\ IF LogPrunePageSize = 0 \/ Upper >= query.end \/ Cardinality(ids) >= LogPrunePageSize
         THEN pruner' = delete /\ query' = [query EXCEPT !.ids = ids]
         ELSE UNCHANGED pruner /\ query' = [query EXCEPT !.lower = Upper + 1, !.ids = ids]
    /\ UNCHANGED <<firstBlock, lastBlock, logRows, filterRows, countActive, touched, logCount, turns>>

DeleteLogsByRowID(delete, next) ==
    /\ pruner = delete
    /\ logRows' = logRows \ query.ids
    /\ pruner' \in next /\ query' = NoQuery
    /\ UNCHANGED <<firstBlock, lastBlock, filterRows, countActive, touched, logCount, turns>>

(* A statement that fails ends the round. *)
PruneFails ==
    /\ pruner # "idle" /\ pruner' = "idle" /\ query' = NoQuery
    /\ UNCHANGED <<firstBlock, lastBlock, logRows, filterRows, countActive, touched, logCount, turns>>

PruneExpiredLogs ==
    \/ DeleteExpiredLogs
    \/ StartQuery("excess", "excess pages")
    \/ QueryPage("excess pages", Excess(Page), "delete excess")
    \/ DeleteLogsByRowID("delete excess", AfterExpired(~IsPage(Cardinality(query.ids))))

PruneUnmatchedLogs ==
    \/ StartQuery("unmatched", "unmatched pages")
    \/ QueryPage("unmatched pages", Unmatched(Page), "delete unmatched")
    \/ DeleteLogsByRowID("delete unmatched", {"idle"})

PruningNext ==
    \/ SaveBlock
    \/ \E f \in Filters : RegisterFilter(f) \/ UnregisterFilter(f)
    \/ PrunerRestart \/ LoadFilters
    \/ PruneBlocks \/ PruneExpiredLogs \/ PruneUnmatchedLogs \/ PruneFails

PruningSpec == PruningInit /\ [][PruningNext]_pruningVars

----------------------------------------------------------------------------
(* Properties. *)

LogRow == [block : 1..LastBlock, index : 1..2, kind : Kinds]

(* Every variable has the shape the code's types and the tables give it. *)
PruningTypeOK ==
    /\ lastBlock \in 0..LastBlock /\ firstBlock \in 0..lastBlock
    /\ logRows \subseteq LogRow /\ query.ids \subseteq LogRow
    /\ filterRows \subseteq Filters /\ touched \subseteq Filters /\ countActive \in BOOLEAN
    /\ pruner \in {"idle", "excess", "excess pages", "delete excess",
                   "unmatched", "unmatched pages", "delete unmatched"}
    /\ query.lower \in 0..(LastBlock + 1) /\ query.end \in 0..LastBlock
    /\ logCount \in 0..LastLog /\ turns \in 0..MaxTurns

(* A log is only deleted when no filter wants it: each filter that matches it, and was
   there all the round, has either its retention behind it, or as many logs left as it
   asks for.  The ids were selected page by page, before blocks were saved and other
   filters registered or dropped. *)
PrunedIsUnwanted ==
    [][\A l \in logRows \ logRows' : \A f \in filterRows \ touched :
         l.kind \in Matches[f] =>
            \/ Retention[f] > 0 /\ l.block + Retention[f] <= lastBlock
            \/ /\ MaxLogsKept[f] > 0
               /\ Cardinality({k \in logRows' : k.kind \in Matches[f]}) >= MaxLogsKept[f]]_pruningVars

(* "finds any logs old enough that MaxLogsKept has been exceeded", "in reverse order"
   (SelectExcessLogIDs): no log goes while an older one that the same filters match
   stays. *)
OldestGoFirst ==
    [][pruner = "delete excess" =>
         \A l \in logRows \ logRows', k \in logRows' :
            l.kind = k.kind => l.block < k.block \/ (l.block = k.block /\ l.index < k.index)]_pruningVars

(* "Returns whether all unmatched logs were removed" (PruneUnmatchedLogs): when it
   says so, and no filter has changed meanwhile, no log up to the finalized block is
   left that no filter matches.  Not so, and no run checks it; see the README. *)
UnmatchedAreGone ==
    [][/\ pruner = "delete unmatched" /\ pruner' = "idle" /\ logRows' = logRows \ query.ids
       /\ LogPrunePageSize = 0 \/ Cardinality(query.ids) < LogPrunePageSize
       /\ touched = {}
       => \A l \in logRows' : l.block <= query.end => MatchingFilters(l) # {}]_pruningVars
===============================================================================

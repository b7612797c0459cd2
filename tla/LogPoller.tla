------------------------------ MODULE LogPoller ------------------------------
(* The log poller of pkg/logpoller: the goroutine of run() that polls, backfills
   and serves replays, a client in Replay(), the pruning worker, the two tables
   of the ORM, and the chain behind the RPC.

   What is asked for by hash cannot change between two calls, so the walk to the
   lowest common ancestor is one step; every other RPC and every SQL statement is
   one.

   An operator marked "faulty" is a plausible mistake in the operator after it.
   Nothing uses it; the mutants of the project put it in that operator's place. *)
EXTENDS Blocks, FiniteSets, FiniteSetsExt

CONSTANTS
    BackfillBatchSize, BackupPollerBlockDelay, KeepFinalizedBlocksDepth,
    FinalityDepth,                   \* how far the chain's finality is behind its head
    MaxFaults, MaxIncomplete,        \* bounds: failing calls, eth_getLogs that misses logs
    MaxReorgs, MaxDeepReorgs,        \* bounds: reorgs above and below the finalized block
    MaxCrashes, MaxReplays,          \* bounds: restarts of the process, calls of Replay
    RegisteredFirst                  \* whether the filter is there before the first poll

ASSUME ParametersAssumption ==
    /\ BackfillBatchSize \in Nat \ {0}
    /\ BackupPollerBlockDelay \in Nat /\ KeepFinalizedBlocksDepth \in Nat \ {0}
    /\ FinalityDepth \in Nat
    /\ RegisteredFirst \subseteq BOOLEAN /\ RegisteredFirst # {}

VARIABLES
    blocks,                  \* evm.log_poller_blocks: number -> row
    logs,                    \* evm.logs: the blocks whose log is saved
    pc, job,                 \* where each goroutine is, and its locals
    backupPollerNextBlock, finalityViolated,
    registered,              \* whether the table of filters has the one that matches the logs
    filters, filtersLoaded,  \* whether lp.filters has it, in memory, and the flag of run()
    chain, finalized,        \* external: the canonical head, its last finalized number
    used,                    \* how much went wrong so far
    firstPolled,             \* history: where the first poll with the filter started
    unchecked,               \* history: whether the poller began where no check of its reaches
    blind                    \* history: whether the last replay began its backfill without it

tables == <<blocks, logs>>
poller == <<pc, job, backupPollerNextBlock, finalityViolated>>
outside == <<registered, filters, filtersLoaded, chain, finalized>>
history == <<firstPolled, unchecked, blind>>
vars   == <<tables, poller, outside, used, history>>

Threads == {"run", "client"}
Row     == [hash : Block, finalized : Heights]
NoRow   == [hash |-> NoBlock, finalized |-> 0]

Job   == [kind : {"none", "poll", "replayed", "backup", "replay"},
          requested : 0..MaxHeight, current : 0..(MaxHeight + 1),
          block : Block \cup {NoBlock}, looping : BOOLEAN,
          latest : 0..MaxHeight, finalized : 0..MaxHeight,
          from : 0..MaxHeight, end : 0..MaxHeight, size : 0..BackfillBatchSize,
          logs : SUBSET Block]
NoJob == [kind |-> "none", requested |-> 0, current |-> 0, block |-> NoBlock, looping |-> FALSE,
          latest |-> 0, finalized |-> 0, from |-> 0, end |-> 0, size |-> 0, logs |-> {}]

(* What eth_getLogs returns for the query that Filter() builds at that moment from
   lp.filters: that of the zero address, which finds nothing, when it is empty. *)
Matching(found) == IF filters THEN found ELSE {}

(* loadFilters: lp.filters becomes what the table has. *)
LoadFilters == filters' = (IF filtersLoaded THEN filters ELSE registered)

Saved        == {n \in Heights : blocks[n] # NoRow}
LatestNumber == IF Saved = {} THEN 0 ELSE Max(Saved)
LatestRow    == blocks[LatestNumber]
Smaller(m, n) == IF m < n THEN m ELSE n
Larger(m, n)  == IF m > n THEN m ELSE n

Spend(what, bound) == used[what] < bound /\ used' = [used EXCEPT ![what] = @ + 1]
Fault == Spend("faults", MaxFaults)

----------------------------------------------------------------------------
Init ==
    /\ blocks = [n \in Heights |-> NoRow] /\ logs = {}
    /\ pc = [th \in Threads |-> "idle"]
    /\ job = [th \in Threads |-> NoJob]
    /\ backupPollerNextBlock = 0 /\ finalityViolated = FALSE
    /\ \E v \in Versions : chain = <<v>>
    /\ finalized = 0 /\ firstPolled = 0 /\ unchecked = FALSE
    /\ registered \in RegisteredFirst
    /\ filters = FALSE /\ filtersLoaded = FALSE /\ blind = FALSE
    /\ used = [faults |-> 0, incomplete |-> 0, reorgs |-> 0, deep |-> 0,
               crashes |-> 0, replays |-> 0]

Goto(th, label, locals) ==
    /\ pc' = [pc EXCEPT ![th] = label]
    /\ job' = [job EXCEPT ![th] = locals]

Resume(th, label, locals) ==
    Goto(th, label, locals) /\ UNCHANGED <<backupPollerNextBlock, finalityViolated>>

FlagAfter(kind, outcome) ==
    CASE outcome = "violated" -> TRUE
      [] outcome = "ok" /\ kind \in {"poll", "replayed"} -> FALSE
      [] OTHER -> finalityViolated

(* The goroutine is done with what it was doing.  PollAndSaveLogs raises the flag
   on a finality violation and lowers it whenever pollAndSaveLogs returns no
   error; BackupPollAndSaveLogs and Replay only raise it.  A replay's client is
   told in either case. *)
Return(th, outcome) ==
    /\ pc' = [t \in Threads |-> IF t = th THEN "idle"
                                ELSE IF job[th].kind = "replayed" /\ pc[t] = "waiting"
                                       THEN "replayed" ELSE pc[t]]
    /\ job' = [job EXCEPT ![th] = NoJob]
    /\ finalityViolated' = FlagAfter(job[th].kind, outcome)
    /\ UNCHANGED backupPollerNextBlock

----------------------------------------------------------------------------
(* backfill, in batches that are halved when the RPC has too many results. *)

To(j) == Smaller(j.from + j.size - 1, j.end)

(* The chain has final blocks, up to end, that the saved ones contradict: the poller
   has not yet seen a reorg, and what replaced its blocks is final by now. *)
Contradicts(end) ==
    Saved # {} /\ LET n == Smaller(LatestNumber, end)
                 IN  n > Len(chain) \/ At(LatestRow.hash, n) # At(chain, n)

(* A backfill takes for granted that final blocks go with the saved ones. *)
Backfill(th, locals, from, end) ==
    /\ Goto(th, "backfill", [locals EXCEPT !.from = from, !.end = end, !.size = BackfillBatchSize])
    /\ unchecked' = (unchecked \/ Contradicts(end))

AfterEnd(j) == j.end + 1

(* What follows the last batch depends on who called backfill. *)
AfterBackfill(th, j) ==
    CASE j.kind = "backup" ->
           /\ Goto(th, "idle", NoJob)
           /\ backupPollerNextBlock' = AfterEnd(j)
           /\ UNCHANGED finalityViolated
      [] j.kind = "replay" ->
           IF j.current > j.latest THEN Return(th, "ok") ELSE Resume(th, "handoff", j)
      [] OTHER ->
           Resume(th, "current", [j EXCEPT !.current = AfterEnd(j), !.looping = TRUE])

SkippedBatch(j) == j.from + j.size + 1                              \* faulty
NextFrom(j) == j.from + j.size

NextBatch(th, j) ==
    IF NextFrom(j) > j.end
      THEN AfterBackfill(th, [j EXCEPT !.logs = {}, !.size = 0, !.from = 0])
      ELSE Resume(th, "backfill", [j EXCEPT !.logs = {}, !.from = NextFrom(j)])

FilterLogsInRange(th) ==
    LET j == job[th]
        found == Matching(LogsIn(chain, j.from, To(j)))
    IN
    /\ pc[th] = "backfill"
    /\ \/ Fault /\ Return(th, "error")
       \/ Fault /\ j.size > 1                                    \* too many results
          /\ Resume(th, "backfill", [j EXCEPT !.size = @ \div 2])
       \/ \E got \in SUBSET found :
            /\ IF got = found THEN UNCHANGED used ELSE Spend("incomplete", MaxIncomplete)
            /\ IF got = {} THEN NextBatch(th, j)
                           ELSE Resume(th, "blocks", [j EXCEPT !.logs = got])
    /\ UNCHANGED <<tables, outside, history>>

(* SelectLatestFinalizedBlock: its number, 0 for no rows. *)
ChainReference ==
    LET final == {n \in Saved : n <= LatestRow.finalized}
    IN  IF final = {} THEN 0 ELSE Max(final)

(* blocksFromFinalizedLogs: the block of every log and of the end of the range,
   from the table or else from the RPC (which reads them twice, so that a reorg
   between the reads of a batch is noticed: here the batch is one step). *)
BlocksFromFinalizedLogs(th) ==
    LET j == job[th]
        numbers == {Len(l) : l \in j.logs} \cup {To(j)}
        otherChain == /\ ChainReference > 0
                      /\ At(chain, ChainReference) # blocks[ChainReference].hash
        Compare(blockAt) == IF \E l \in j.logs : l # blockAt[Len(l)] THEN Return(th, "violated")
                            ELSE Resume(th, "save", [j EXCEPT !.block = blockAt[To(j)]])
        Fetch(missing) ==
            IF missing # {} /\ ChainReference > Len(chain) THEN Return(th, "error")
            ELSE IF missing # {} /\ otherChain THEN Return(th, "violated")
            ELSE IF \E n \in missing : n > finalized THEN Return(th, "error")
            ELSE Compare([n \in numbers |-> IF n \in missing THEN At(chain, n)
                                                              ELSE blocks[n].hash])
    IN
    /\ pc[th] = "blocks"
    /\ \/ Fault /\ Return(th, "error")
       \/ Fault /\ Fetch(numbers)                     \* the table cannot be read
       \/ Fetch(numbers \ Saved) /\ UNCHANGED used
    /\ UNCHANGED <<tables, outside, history>>

(* InsertLogsWithBlock: one transaction, which leaves rows that exist alone. *)
WithBlock(block, finalizedNumber) ==
    IF blocks[Len(block)] = NoRow
      THEN [blocks EXCEPT ![Len(block)] = [hash |-> block, finalized |-> finalizedNumber]]
      ELSE blocks

SaveBatch(th) ==
    LET j == job[th] IN
    /\ pc[th] = "save"
    /\ \/ Fault /\ Return(th, "error") /\ UNCHANGED tables
       \/ /\ blocks' = WithBlock(j.block, Len(j.block))
          /\ logs' = logs \cup j.logs
          /\ NextBatch(th, j)
          /\ UNCHANGED used
    /\ UNCHANGED <<outside, history>>

BackfillStep(th) == FilterLogsInRange(th) \/ BlocksFromFinalizedLogs(th) \/ SaveBatch(th)

----------------------------------------------------------------------------
(* pollAndSaveLogs, in the goroutine of run(). *)

Run == job["run"]

(* latestBlocks: the table wants a finalized number above 0. *)
LatestFinalized == Larger(finalized, 1)

(* The ticker of run(): it loads the filters, until that has worked once, and polls
   from the block after the last one in the table or, on the first poll ever, from the
   first finalized block.  Nothing that another goroutine does comes between these
   reads and matters to them, so they are one step. *)
StartPoll ==
    LET start == IF Saved = {} THEN LatestFinalized ELSE LatestNumber + 1 IN
    /\ pc["run"] = "idle"
    /\ \/ /\ Fault                              \* of the filters, or of what is read next
          /\ UNCHANGED <<filters, filtersLoaded>> \/ (LoadFilters /\ filtersLoaded' = TRUE)
          /\ UNCHANGED <<poller, firstPolled>>
       \/ /\ LoadFilters /\ filtersLoaded' = TRUE
          /\ Resume("run", "latest", [NoJob EXCEPT !.kind = "poll", !.current = start])
          /\ firstPolled' = IF Saved = {} /\ registered THEN start ELSE firstPolled
          /\ UNCHANGED used
    /\ UNCHANGED <<tables, registered, chain, finalized, unchecked, blind>>

LatestBlocks ==
    /\ pc["run"] = "latest"
    /\ \/ Fault /\ Return("run", "ok")               \* an error here is no error of the poll
       \/ Run.current > Len(chain) /\ Return("run", "ok") /\ UNCHANGED used
       \/ /\ Run.current <= Len(chain)
          /\ Resume("run", "current",
                    [Run EXCEPT !.latest = Len(chain), !.finalized = LatestFinalized,
                                !.block = IF Run.current = Len(chain) THEN chain ELSE NoBlock])
          /\ UNCHANGED used
    /\ UNCHANGED <<tables, outside, history>>

(* The finalized blocks are backfilled first, once; the rest goes block by block. *)
Proceed(j) ==
    IF ~j.looping /\ j.finalized - 1 >= j.current
      THEN /\ Backfill("run", j, j.current, j.finalized - 1)
           /\ UNCHANGED <<backupPollerNextBlock, finalityViolated>>
      ELSE Resume("run", "logs", [j EXCEPT !.looping = TRUE]) /\ UNCHANGED unchecked

(* findBlockAfterLCA: the numbers at or above the bound at which the table has an
   ancestor of the block, and those the walk fails at, for lack of a row. *)
OnlyParent(block, bound) ==                                        \* faulty
    {n \in {Len(block) - 2} : n > 0 /\ blocks[n].hash = At(block, n)}
AnyAncestor(block, bound) ==                                       \* faulty
    {n \in 1..(Len(block) - 1) : blocks[n].hash = At(block, n)}
CommonAncestors(block, bound) ==
    {n \in bound..(Len(block) - 1) : n > 0 /\ blocks[n].hash = At(block, n)}
MissingAncestors(block, bound) == {n \in bound..(Len(block) - 1) : n = 0 \/ n \notin Saved}

KeepParent(block) == TRUE                                          \* faulty
ParentMatches(block) ==
    \/ Len(block) = 1 \/ blocks[Len(block) - 1] = NoRow
    \/ blocks[Len(block) - 1].hash = At(block, Len(block) - 1)

(* getCurrentBlockMaybeHandleReorg, up to the deletes. *)
GetCurrentBlock ==
    LET known == Run.block # NoBlock /\ Len(Run.block) = Run.current
        block == IF known THEN Run.block ELSE At(chain, Run.current)
        bound == blocks[Run.current - 1].finalized
        common == CommonAncestors(block, bound)
        missing == MissingAncestors(block, bound)
        broken == missing # {} /\ (common = {} \/ Max(missing) > Max(common))
    IN
    /\ pc["run"] = "current"
    /\ \/ Fault /\ Return("run", "error") /\ UNCHANGED unchecked
       \/ /\ ~known /\ Run.current > Len(chain)             \* the chain got shorter
          /\ Return("run", "error")
          /\ UNCHANGED <<used, unchecked>>
       \/ /\ known \/ Run.current <= Len(chain)
          /\ UNCHANGED used
          /\ IF ParentMatches(block) THEN Proceed([Run EXCEPT !.block = block])
             ELSE /\ UNCHANGED unchecked
                  /\ IF broken THEN Return("run", "error")
                     ELSE IF common = {} THEN Return("run", "violated")
                     ELSE Resume("run", "deleteBlocks",
                                 [Run EXCEPT !.block = At(block, Max(common) + 1),
                                             !.current = Max(common) + 1])
    /\ UNCHANGED <<tables, outside, firstPolled, blind>>

(* DeleteLogsAndBlocksAfter: the closure given to Transact uses the ORM outside of
   the transaction, so each delete commits by itself. *)
DeleteBlocks ==
    /\ pc["run"] = "deleteBlocks"
    /\ \/ Fault /\ Return("run", "error") /\ UNCHANGED blocks
       \/ /\ blocks' = [n \in Heights |-> IF n >= Run.current THEN NoRow ELSE blocks[n]]
          /\ Resume("run", "deleteLogs", Run)
          /\ UNCHANGED used
    /\ UNCHANGED <<logs, outside, history>>

AllLogs(start) == logs                                             \* faulty
LogsBefore(start) == {l \in logs : Len(l) < start}

DeleteLogs ==
    /\ pc["run"] = "deleteLogs"
    /\ \/ Fault /\ Return("run", "error") /\ UNCHANGED <<logs, unchecked>>
       \/ /\ logs' = LogsBefore(Run.current)
          /\ Proceed(Run)
          /\ UNCHANGED used
    /\ UNCHANGED <<blocks, outside, firstPolled, blind>>

FilterLogsOfBlock ==
    LET found == Matching(LogsOf(Run.block)) IN
    /\ pc["run"] = "logs"
    /\ \/ Fault /\ Return("run", "ok")
       \/ \E got \in SUBSET found :
            /\ IF got = found THEN UNCHANGED used ELSE Spend("incomplete", MaxIncomplete)
            /\ Resume("run", "insert", [Run EXCEPT !.logs = got])
    /\ UNCHANGED <<tables, outside, history>>

InsertLogsWithBlock ==
    LET next == [Run EXCEPT !.current = @ + 1, !.logs = {}] IN
    /\ pc["run"] = "insert"
    /\ \/ Fault /\ Return("run", "ok") /\ UNCHANGED tables
       \/ /\ blocks' = WithBlock(Run.block, Run.finalized)
          /\ logs' = logs \cup Run.logs
          /\ IF next.current > Run.latest THEN Return("run", "ok")
                                          ELSE Resume("run", "current", next)
          /\ UNCHANGED used
    /\ UNCHANGED <<outside, history>>

PollAndSaveLogs ==
    \/ StartPoll \/ LatestBlocks
    \/ GetCurrentBlock \/ DeleteBlocks \/ DeleteLogs
    \/ FilterLogsOfBlock \/ InsertLogsWithBlock
    \/ BackfillStep("run")

(* BackupPollAndSaveLogs, up to the backfill. *)
BelowZero == Smaller(LatestRow.finalized, LatestNumber - BackupPollerBlockDelay)   \* faulty
BackupStart == Larger(Smaller(LatestRow.finalized, LatestNumber - BackupPollerBlockDelay), 0)

BackupPollAndSaveLogs ==
    LET start == IF backupPollerNextBlock # 0 THEN backupPollerNextBlock ELSE BackupStart IN
    /\ pc["run"] = "idle"
    /\ BackupPollerBlockDelay # 0 /\ filtersLoaded
    /\ backupPollerNextBlock # 0 \/ Saved # {}
    /\ backupPollerNextBlock' = start
    /\ \/ /\ LatestFinalized - 1 >= start
          /\ Backfill("run", [NoJob EXCEPT !.kind = "backup"], start, LatestFinalized - 1)
          /\ UNCHANGED used
       \/ /\ \/ LatestFinalized - 1 < start /\ UNCHANGED used
             \/ Fault                                   \* the latest blocks are unknown
          /\ UNCHANGED <<pc, job, unchecked>>
    /\ UNCHANGED <<tables, finalityViolated, outside, firstPolled, blind>>

----------------------------------------------------------------------------
(* Replay, in the goroutine of a client, and handleReplayRequest, in run()'s. *)

(* A filter that is in memory already is left alone. *)
RegisterFilter ==
    /\ ~filters /\ registered' = TRUE /\ filters' = TRUE
    /\ UNCHANGED <<tables, poller, filtersLoaded, chain, finalized, used, history>>

(* A client that has registered its filter, in this process or in an earlier one. *)
Replay ==
    \E fromBlock \in 1..Len(chain) :
        LET saved == IF Saved = {} THEN 0 ELSE LatestRow.finalized
            j == [NoJob EXCEPT !.kind = "replay", !.requested = fromBlock, !.latest = Len(chain),
                               !.current = Larger(fromBlock, saved + 1)]
        IN  /\ pc["client"] = "idle" /\ registered
            /\ Spend("replays", MaxReplays)
            /\ blind' = (fromBlock <= saved /\ ~filters)
            /\ IF fromBlock <= saved THEN Backfill("client", j, fromBlock, saved)
               ELSE Goto("client", "handoff", j) /\ UNCHANGED unchecked
            /\ UNCHANGED <<tables, backupPollerNextBlock, finalityViolated, outside, firstPolled>>

(* GetReplayFromBlock: never after the last block in the table, "to avoid replaying
   from a block later than what we have in the DB and skipping blocks". *)
AsRequested(requested) == requested                                \* faulty
ReplayFrom(requested) == IF Saved = {} THEN requested ELSE Smaller(requested, LatestNumber)

HandleReplayRequest ==
    LET from == ReplayFrom(job["client"].current) IN
    /\ pc["run"] = "idle" /\ pc["client"] = "handoff"
    /\ \/ Fault /\ Goto("client", "idle", NoJob)         \* it gets the error
          /\ UNCHANGED <<filters, history>>
       \/ /\ LoadFilters
          /\ pc' = [pc EXCEPT !["run"] = "latest", !["client"] = "waiting"]
          /\ job' = [job EXCEPT !["run"] = [NoJob EXCEPT !.kind = "replayed", !.current = from]]
          /\ firstPolled' = IF Saved = {} THEN from ELSE firstPolled
          \* the poll of an empty table starts above what is final
          /\ unchecked' = (unchecked \/ (Saved = {} /\ from > LatestFinalized))
          /\ UNCHANGED <<used, blind>>
    /\ UNCHANGED <<tables, backupPollerNextBlock, finalityViolated,
                   registered, filtersLoaded, chain, finalized>>

ReplayComplete ==
    /\ pc["client"] = "replayed"
    /\ Resume("client", "idle", NoJob)
    /\ UNCHANGED <<tables, outside, used, history>>

----------------------------------------------------------------------------
(* The pruning worker: PruneOldBlocks, a page at a time. *)

PruneEverything == LatestRow.finalized                             \* faulty
PruneLimit == LatestRow.finalized - KeepFinalizedBlocksDepth

PruneOldBlocks ==
    /\ Saved # {}
    /\ \E n \in Saved :
         /\ n <= PruneLimit
         /\ blocks' = [k \in Heights |-> IF k <= n THEN NoRow ELSE blocks[k]]
    /\ UNCHANGED <<logs, poller, outside, used, history>>

----------------------------------------------------------------------------
(* The process stops and starts again: only the tables survive, and lp.filters is
   empty until a poll or a replay loads it. *)
Restart ==
    /\ Spend("crashes", MaxCrashes)
    /\ pc' = [th \in Threads |-> "idle"] /\ job' = [th \in Threads |-> NoJob]
    /\ backupPollerNextBlock' = 0 /\ finalityViolated' = FALSE
    /\ filters' = FALSE /\ filtersLoaded' = FALSE
    /\ UNCHANGED <<tables, registered, chain, finalized, history>>

(* External: the chain. *)
Mine ==
    /\ Len(chain) < MaxHeight
    /\ \E v \in Versions : chain' = Append(chain, v)
    /\ UNCHANGED <<tables, poller, registered, filters, filtersLoaded, finalized, used, history>>

Finalize ==
    /\ finalized < Len(chain) - FinalityDepth
    /\ finalized' = finalized + 1
    /\ UNCHANGED <<tables, poller, registered, filters, filtersLoaded, chain, used, history>>

(* Block 1 stays: only block 0 is below it.  The bound on the height leaves room for
   the chain to outgrow the old fork, which is when the poller sees a reorg. *)
ReorgTo(height) ==
    /\ Len(chain) < MaxHeight
    /\ \E v \in Versions \ {chain[height + 1]} : chain' = Append(At(chain, height), v)

Reorg ==
    \E height \in Larger(finalized, 1)..(Len(chain) - 1) :
        /\ Spend("reorgs", MaxReorgs)
        /\ ReorgTo(height)
        /\ UNCHANGED <<tables, poller, registered, filters, filtersLoaded, finalized, history>>

DeepReorg ==
    \E height \in 1..(finalized - 1) :
        /\ Spend("deep", MaxDeepReorgs)
        /\ ReorgTo(height)
        /\ finalized' = height
        /\ UNCHANGED <<tables, poller, registered, filters, filtersLoaded, history>>

Node == Mine \/ Finalize \/ Reorg \/ DeepReorg

Next ==
    \/ PollAndSaveLogs \/ BackupPollAndSaveLogs
    \/ RegisterFilter \/ Replay \/ BackfillStep("client") \/ HandleReplayRequest \/ ReplayComplete
    \/ PruneOldBlocks \/ Restart \/ Node

Spec == Init /\ [][Next]_vars

(* The goroutines run, blocks are produced and become final; nothing obliges a
   client to call Replay, a fault or a reorg.  The select of run() chooses at random
   among the channels that are ready, so none of its cases waits for ever. *)
Fairness ==
    /\ WF_vars(PollAndSaveLogs)
    /\ SF_vars(StartPoll) /\ SF_vars(BackupPollAndSaveLogs) /\ SF_vars(HandleReplayRequest)
    /\ WF_vars(BackfillStep("client"))
    /\ WF_vars(Mine) /\ WF_vars(Finalize)

FairSpec == Spec /\ Fairness

----------------------------------------------------------------------------
(* Properties. *)

(* Every variable has the shape the code's types and the tables give it. *)
TypeOK ==
    /\ blocks \in [Heights -> Row \cup {NoRow}] /\ logs \subseteq Block
    /\ pc \in [Threads -> {"idle", "latest", "current", "deleteBlocks", "deleteLogs", "logs",
                           "insert", "backfill", "blocks", "save", "handoff", "waiting",
                           "replayed"}]
    /\ job \in [Threads -> Job]
    /\ backupPollerNextBlock \in 0..MaxHeight /\ finalityViolated \in BOOLEAN
    /\ chain \in Block /\ finalized \in 0..Len(chain)
    /\ registered \in BOOLEAN /\ filters \in BOOLEAN /\ filtersLoaded \in BOOLEAN
    /\ firstPolled \in 0..MaxHeight /\ unchecked \in BOOLEAN /\ blind \in BOOLEAN

(* Final blocks were never reorged, and no backfill went past a reorg of other blocks
   that the poller had yet to notice: what its comments take for granted ("we don't
   need to worry about re-orgs after finality depth"). *)
Checked == used.deep = 0 /\ ~unchecked

(* The rows of log_poller_blocks are blocks of one fork: whatever reorg, restart,
   failing call, backup poll, replay or pruning happens in the middle of a poll, a row of
   an abandoned fork is never left below or above a row of the new one. *)
SavedBlocksAreAChain ==
    Checked => \A m, n \in Saved : m <= n => blocks[m].hash = At(blocks[n].hash, m)

(* No log is skipped: when the table has a block, the logs of all its ancestors
   since the first poll are saved, if the filter was there before it, and whatever
   batches, rewinds, replays and restarts come in between. *)
Complete ==
    Checked /\ used.incomplete = 0 /\ firstPolled > 0 /\ Saved # {} =>
        LogsIn(LatestRow.hash, firstPolled, LatestNumber) \subseteq logs

(* "logs ... which are canonical at time of query" (comment on Logs): between two
   polls, when the last saved block is the head of the chain, the logs up to it are
   logs of the chain. *)
Canonical ==
    pc["run"] = "idle" /\ Saved # {} /\ LatestRow.hash = chain =>
        \A l \in logs : Len(l) <= LatestNumber => l = At(chain, Len(l))

(* No reorg of blocks that are not final raises the flag, but for those that a
   backfill overtook. *)
NoFalseAlarm == Checked => ~finalityViolated

(* "This flag is raised whenever the log poller detects that the chain's finality
   has been violated": not otherwise. *)
FlagMeansViolation == finalityViolated => used.deep > 0

(* A rewind never goes below what the last row says was final, so that a reorg of
   finalized blocks is reported and not followed.  A replay starts below the last row,
   where a row that an overtaken reorg left sends it further back. *)
FinalizedBlocksAreKept ==
    [][pc["run"] = "deleteBlocks" /\ pc'["run"] = "deleteLogs"
         => (used.replays > 0 /\ ~Checked) \/ Run.current > LatestRow.finalized]_vars

Covered(j) == LogsIn(LatestRow.hash, j.requested, Smaller(j.latest, LatestNumber)) \subseteq logs

(* "Replay can be used to ensure that filter modification has been applied for all
   blocks from fromBlock up to latest": once the client is told that its replay is
   complete, the table has their logs, up to the last saved block, whatever polls,
   batches and pruning come in between and whatever restarts came before it.  The poll
   of the replay swallows its errors and starts below the last block, so this is only
   so when no call fails, no answer is incomplete and no reorg comes in between.  Nor is
   it so for a replay that begins its backfill between a restart and the loading of the
   filters: it asks for the final blocks' logs of the zero address, and nil is sent. *)
ReplayCovers ==
    /\ pc["client"] = "replayed" /\ Saved # {} /\ ~blind
    /\ used.faults + used.incomplete + used.reorgs + used.deep = 0
    => Covered(job["client"])

(* "If the client needs a guarantee that the replay is complete before proceeding, it
   should either avoid cancelling or retry until nil is returned" (Replay): the same
   when a call of the poll fails; the client whose call returns an error is not meant. *)
ReplayGuarantee ==
    pc["client"] = "replayed" /\ Saved # {} /\ used.reorgs = 0 => Covered(job["client"])

(* The poller recovers from every reorg of unfinalized blocks and from failing
   calls: it ends up on the chain's fork with all its logs. *)
CatchesUp == <>[](Saved # {} /\ LatestRow.hash = chain)

(* Once the backup poller runs, it makes up for every log that the first request
   for its block missed. *)
BackupRepairs ==
    \A n \in Heights :
        [](used.incomplete = MaxIncomplete /\ pc["run"] = "idle" /\ backupPollerNextBlock = n
               => <>[](LogsIn(chain, n, finalized - 1) \subseteq logs))

(* What a reader of the tables sees is a log of one fork that only grows at its end
   or is cut back to an ancestor. *)
View == INSTANCE LogView WITH
            head <- IF Saved = {} THEN NoBlock ELSE LatestRow.hash,
            view <- {l \in logs : Len(l) <= LatestNumber}
ImplementsLogView == View!Spec
=============================================================================

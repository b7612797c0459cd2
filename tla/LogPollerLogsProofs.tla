-------------------------- MODULE LogPollerLogsProofs --------------------------
(* No log is skipped, replays are complete, and what a reader of the tables sees is a
   log of one fork: the refinement of LogView. *)
EXTENDS LogPollerForkProofs

(* The logs of a block's ancestors, from one number to another, are saved. *)
Held(ls, b, from, to) == LogsIn(b, from, to) \subseteq ls

LEMMA HeldIs ==
    ASSUME NEW ls, NEW b \in Block, NEW from \in Int, NEW to \in Int
    PROVE  Held(ls, b, from, to) <=>
             \A n \in 1..Len(b) : from <= n /\ n <= to /\ HasLogs(At(b, n)) => At(b, n) \in ls
  BY LogsInAre DEF Held

LEMMA HeldSame ==
    ASSUME NEW ls, NEW b \in Block, NEW c \in Block, NEW from \in Int, NEW to \in Int,
           NEW e \in Nat, e <= Len(b), e <= Len(c), At(b, e) = At(c, e), to <= e,
           Held(ls, b, from, to)
    PROVE  Held(ls, c, from, to)
<1>1. Len(b) \in Nat /\ Len(c) \in Nat
  BY BlockIsSeq
<1>2. \A n \in 1..Len(c) : n <= to => n \in 1..Len(b) /\ At(b, n) = At(c, n)
  <2> TAKE n \in 1..Len(c)
  <2> HAVE n <= to
  <2>1. n \in 0..e /\ e \in 0..Len(b) /\ n \in 1..Len(b)
    BY <1>1
  <2> QED
    BY <2>1, AtMonotonic
<1> QED
  BY <1>2, HeldIs

LEMMA HeldJoin ==
    ASSUME NEW ls, NEW b \in Block, NEW from \in Int, NEW mid \in Int, NEW to \in Int, NEW got,
           Held(ls, b, from, mid - 1), LogsIn(b, mid, to) \subseteq got
    PROVE  Held(ls \cup got, b, from, to)
<1>1. Held(got, b, mid, to) /\ mid - 1 \in Int
  BY DEF Held
<1>2. \A n \in 1..Len(b) : n <= mid - 1 \/ mid <= n
  BY BlockIsSeq
<1> QED
  BY <1>1, <1>2, HeldIs

LEMMA HeldLess ==
    ASSUME NEW ls, NEW ls2, ls \subseteq ls2, NEW b \in Block, NEW from \in Int, NEW to \in Int,
           NEW to2 \in Int, to2 <= to, Held(ls, b, from, to)
    PROVE  Held(ls2, b, from, to2)
<1>1. \A n \in 1..Len(b) : n <= to2 => n <= to
  BY BlockIsSeq
<1>2. \A n \in 1..Len(b) : from <= n /\ n <= to /\ HasLogs(At(b, n)) => At(b, n) \in ls
  BY HeldIs
<1>3. \A n \in 1..Len(b) : from <= n /\ n <= to2 /\ HasLogs(At(b, n)) => At(b, n) \in ls2
  BY <1>1, <1>2
<1> QED
  BY <1>3, HeldIs

LEMMA HeldNone ==
    ASSUME NEW ls, NEW b \in Block, NEW from \in Int, NEW to \in Int, to < from
    PROVE  Held(ls, b, from, to)
<1>1. \A n \in 1..Len(b) : ~(from <= n /\ n <= to)
  BY BlockIsSeq
<1>2. \A n \in 1..Len(b) : from <= n /\ n <= to /\ HasLogs(At(b, n)) => At(b, n) \in ls
  BY <1>1
<1> QED
  BY <1>2, HeldIs

LEMMA HeldCut ==
    ASSUME NEW ls, NEW b \in Block, NEW from \in Int, NEW to \in Int, NEW c \in Int, to < c,
           Held(ls, b, from, to)
    PROVE  Held({l \in ls : Len(l) < c}, b, from, to)
<1>1. Len(b) \in Nat
  BY BlockIsSeq
<1>2. \A n \in 1..Len(b) : Len(At(b, n)) = n
  BY AtIsBlock
<1>3. \A n \in 1..Len(b) : n <= to => Len(At(b, n)) < c
  BY <1>1, <1>2
<1> QED
  BY <1>3, HeldIs

LEMMA HeldTop ==
    ASSUME NEW ls, NEW b \in Block, NEW from \in Int, NEW got,
           Held(ls, b, from, Len(b) - 1), LogsOf(b) \subseteq got
    PROVE  Held(ls \cup got, b, from, Len(b))
<1>1. Len(b) \in Nat /\ At(b, Len(b)) = b
  BY BlockIsSeq, AtSelf
<1>2. HasLogs(b) => b \in got
  BY DEF LogsOf
<1>3. \A n \in 1..Len(b) : n <= Len(b) - 1 \/ n = Len(b)
  BY <1>1
<1>4. \A n \in 1..Len(b) : from <= n /\ n <= Len(b) - 1 /\ HasLogs(At(b, n)) => At(b, n) \in ls
  BY <1>1, HeldIs
<1>5. \A n \in 1..Len(b) : from <= n /\ n <= Len(b) /\ HasLogs(At(b, n)) => At(b, n) \in ls \cup got
  BY <1>1, <1>2, <1>3, <1>4
<1>6. Len(b) \in Int
  BY <1>1
<1> QED
  BY <1>5, <1>6, HeldIs

----------------------------------------------------------------------------
(* The invariant: what is held when, for any logs, rows, chain and first poll. *)

LastHeld(ls, rows, first) ==
    SavedIn(rows) # {} => Held(ls, rows[LastOf(rows)].hash, first, LastOf(rows))

NextHeld(ls, ch, first, next) == next # 0 => Held(ls, ch, first, next - 1)

BeyondRows(rows, n) == SavedIn(rows) = {} \/ n > LastOf(rows)

RunHeld(ls, rows, ch, first, label, j) ==
    /\ label \in Backfilling => Held(ls, ch, first, j.from - 1)
    /\ label \in {"blocks", "save"} => LogsIn(ch, j.from, To(j)) \subseteq j.logs
    /\ label \in {"latest", "current"} /\ ~j.looping /\ SavedIn(rows) = {} => j.current = first
    /\ label = "current" /\ j.looping /\ BeyondRows(rows, j.current - 1) => Held(ls, ch, first, j.current - 1)
    /\ label \in {"logs", "insert"} /\ BeyondRows(rows, j.current) => Held(ls, j.block, first, j.current - 1)
    /\ label = "insert" => LogsOf(j.block) \subseteq j.logs

LogsNow ==
    /\ LastHeld(logs, blocks, firstPolled)
    /\ NextHeld(logs, chain, firstPolled, backupPollerNextBlock)
    /\ RunHeld(logs, blocks, chain, firstPolled, pc["run"], Run)

LogsInv == Checked /\ used.incomplete = 0 /\ firstPolled > 0 => LogsNow

LEMMA WorldAlways == TypeInv => WorldOK(blocks, chain, LatestFinalized)
  BY WorldNow

LEMMA WorldThen == TypeInv' => WorldOK(blocks', chain', LatestFinalized')
<1>1. TypeInv' => (WorldOK(blocks, chain, LatestFinalized))'
  BY WorldAlways, PTL
<1> QED
  BY <1>1

LEMMA LogsGo ==
    ASSUME TypeInv, NEW label, NEW j, Goto("run", label, j),
           NEW ls, NEW rows, NEW ch, NEW next, NEW first,
           logs' = ls, blocks' = rows, chain' = ch, backupPollerNextBlock' = next, firstPolled' = first,
           LastHeld(ls, rows, first), NextHeld(ls, ch, first, next),
           RunHeld(ls, rows, ch, first, label, j)
    PROVE  LogsNow'
<1>1. pc'["run"] = label /\ job'["run"] = j
  BY DEF Goto, Threads, TypeInv, PollerOK
<1> QED
  BY <1>1 DEF LogsNow, Run

LEMMA LogsReturn ==
    ASSUME TypeInv, NEW outcome, Return("run", outcome),
           NEW ls, NEW rows, NEW ch, NEW first, logs' = ls, blocks' = rows, chain' = ch, firstPolled' = first,
           LastHeld(ls, rows, first), NextHeld(ls, ch, first, backupPollerNextBlock)
    PROVE  LogsNow'
<1>1. pc'["run"] = "idle" /\ backupPollerNextBlock' = backupPollerNextBlock
  BY DEF Return, Threads, TypeInv, PollerOK
<1>2. \A j : RunHeld(ls, rows, ch, first, "idle", j)
  BY DEF RunHeld, Backfilling
<1> QED
  BY <1>1, <1>2 DEF LogsNow

LEMMA LogsStay ==
    ASSUME LogsNow, UNCHANGED <<tables, chain, firstPolled, backupPollerNextBlock>>,
           pc'["run"] = pc["run"], job'["run"] = Run
    PROVE  LogsNow'
  BY DEF LogsNow, Run, tables

----------------------------------------------------------------------------
(* A poll. *)

(* What the last row and the chain have in common, the chain has its logs held. *)
LEMMA ChainHeld ==
    ASSUME NEW ls, NEW rows, NEW ch, NEW fin, WorldOK(rows, ch, fin), SavedIn(rows) # {},
           NEW first \in Nat, LastHeld(ls, rows, first),
           NEW e \in Nat, e <= Len(ch), Agrees(rows, ch, e),
           NEW to \in Int, to <= e, to <= LastOf(rows)
    PROVE  Held(ls, ch, first, to)
<1> DEFINE b == rows[LastOf(rows)].hash
           common == Smaller(LastOf(rows), e)
<1>1. b \in Block /\ Len(b) = LastOf(rows) /\ LastOf(rows) \in Nat /\ ch \in Block /\ Len(ch) \in Nat
  BY WorldIs
<1>2. common \in Nat /\ common <= Len(b) /\ common <= Len(ch) /\ to <= common /\ At(b, common) = At(ch, common)
  BY <1>1 DEF Smaller, Agrees, OnChain
<1> HIDE DEF b, common
<1>3. Held(ls, b, first, LastOf(rows))
  BY DEF LastHeld, b
<1>4. Held(ls, b, first, to)
  BY <1>1, <1>3, HeldLess
<1> QED
  BY <1>1, <1>2, <1>4, HeldSame

LEMMA StartPollLogs ==
    ASSUME TypeInv, GInv, firstPolled > 0 => LogsNow, firstPolled' > 0, StartPoll
    PROVE  LogsNow'
<1> DEFINE start == IF Saved = {} THEN LatestFinalized ELSE LatestNumber + 1
           k == [NoJob EXCEPT !.kind = "poll", !.current = start]
<1> SUFFICES ASSUME Resume("run", "latest", k),
                    firstPolled' = IF Saved = {} /\ registered THEN start ELSE firstPolled
             PROVE  LogsNow'
  <2>1. UNCHANGED <<tables, poller, firstPolled>> /\ chain' = chain => LogsNow'
    BY LogsStay DEF poller, Run
  <2> QED
    BY <2>1 DEF StartPoll
<1>1. Goto("run", "latest", k) /\ blocks' = blocks /\ logs' = logs /\ chain' = chain
      /\ backupPollerNextBlock' = backupPollerNextBlock
      /\ firstPolled' = IF Saved = {} /\ registered THEN start ELSE firstPolled
  BY DEF StartPoll, tables, Resume
<1>2. k.current = start
  BY DEF NoJob
<1>3. SavedIn(blocks) = Saved /\ (backupPollerNextBlock # 0 => Saved # {})
  BY WorldNow DEF GInv, GoroutinesRight, NextRight
<1>4. firstPolled > 0 => registered
  BY DEF TypeInv, OutsideOK
<1> HIDE DEF k, start
<1>5. CASE Saved = {}
  <2>1. registered /\ firstPolled' = start
    BY <1>1, <1>4, <1>5
  <2> DEFINE first == firstPolled'
  <2>2. LastHeld(logs, blocks, first) /\ NextHeld(logs, chain, first, backupPollerNextBlock)
    BY <1>3, <1>5 DEF LastHeld, NextHeld
  <2>3. RunHeld(logs, blocks, chain, first, "latest", k)
    BY <1>2, <2>1 DEF RunHeld, Backfilling
  <2> HIDE DEF first
  <2> QED
    BY <1>1, <2>2, <2>3, LogsGo DEF first
<1>6. CASE Saved # {}
  <2>1. firstPolled' = firstPolled /\ LogsNow
    BY <1>1, <1>6
  <2>2. RunHeld(logs, blocks, chain, firstPolled, "latest", k)
    BY <1>3, <1>6 DEF RunHeld, Backfilling
  <2> QED
    BY <1>1, <2>1, <2>2, LogsGo DEF LogsNow
<1> QED
  BY <1>5, <1>6

LEMMA LatestBlocksLogs ==
    ASSUME TypeInv, GInv, LogsNow, LatestBlocks
    PROVE  LogsNow'
<1>1. pc["run"] = "latest" /\ blocks' = blocks /\ logs' = logs /\ chain' = chain /\ firstPolled' = firstPolled
  BY DEF LatestBlocks, tables, outside, history
<1>2. CASE Return("run", "ok")
  BY <1>1, <1>2, LogsReturn DEF LogsNow
<1>3. ASSUME NEW latest, NEW final, NEW block,
             Resume("run", "current", [Run EXCEPT !.latest = latest, !.finalized = final, !.block = block])
      PROVE  LogsNow'
  <2> DEFINE k == [Run EXCEPT !.latest = latest, !.finalized = final, !.block = block]
  <2>1. k.current = Run.current /\ k.looping = Run.looping /\ Goto("run", "current", k)
        /\ backupPollerNextBlock' = backupPollerNextBlock
    BY <1>3, RunIs DEF Job, Resume
  <2> HIDE DEF k
  <2>2. ~Run.looping
    BY <1>1 DEF GInv, GoroutinesRight, RunRight
  <2>3. RunHeld(logs, blocks, chain, firstPolled, "current", k)
    BY <1>1, <2>1, <2>2 DEF LogsNow, RunHeld, Backfilling
  <2> QED
    BY <1>1, <2>1, <2>3, LogsGo DEF LogsNow
<1> QED
  BY <1>2, <1>3 DEF LatestBlocks

LEMMA ProceedLogs ==
    ASSUME TypeInv, TypeInv', GInv', firstPolled > 0, UNCHANGED <<blocks, chain, finalized, firstPolled>>,
           NEW ls, logs' = ls, LastHeld(ls, blocks, firstPolled),
           NextHeld(ls, chain, firstPolled, backupPollerNextBlock), backupPollerNextBlock' = backupPollerNextBlock,
           NEW j \in Job, Proceed(j), j.block \in Block, Len(j.block) = j.current,
           ~j.looping => IF SavedIn(blocks) = {} THEN j.current = firstPolled ELSE j.current <= LastOf(blocks) + 1,
           j.looping /\ BeyondRows(blocks, j.current - 1) => Held(ls, chain, firstPolled, j.current - 1)
    PROVE  LogsNow'
<1> DEFINE rows == blocks
           ch == chain
           fin == LatestFinalized
           first == firstPolled
           c == j.current
           f == j.finalized
           b == j.block
<1>1. /\ c \in Nat /\ f \in Nat /\ first \in Nat /\ LastOf(rows) \in Nat /\ fin \in Nat /\ fin <= Len(ch)
      /\ Len(ch) \in Nat /\ ch \in Block /\ WorldOK(rows, ch, fin)
  BY JobNumbers, WorldNow, WorldIs DEF TypeInv, OutsideOK
<1>2. LatestFinalized' = fin
  BY DEF LatestFinalized
<1>3. SavedIn(rows) # {} => LastOf(rows) \in SavedIn(rows) /\ rows[LastOf(rows)].hash \in Block
                            /\ Len(rows[LastOf(rows)].hash) = LastOf(rows)
  BY <1>1, WorldIs
<1>4. CASE ~j.looping /\ f - 1 >= c
  <2> DEFINE k == [j EXCEPT !.from = c, !.end = f - 1, !.size = BackfillBatchSize]
  <2>1. Goto("run", "backfill", k)
    BY <1>4 DEF Proceed, Backfill
  <2>2. k.from = c /\ k.end = f - 1
    BY DEF Job
  <2> HIDE DEF k
  <2>3. pc'["run"] = "backfill" /\ job'["run"] = k
    BY <2>1 DEF Goto, Threads, TypeInv, PollerOK
  <2>4. Held(ls, ch, first, c - 1)
    <3>1. CASE SavedIn(rows) = {}
      <4>1. c = first
        BY <1>4, <3>1
      <4> QED
        BY <1>1, <4>1, HeldNone
    <3>2. CASE SavedIn(rows) # {}
      <4>1. Agrees(rows, ch, f - 1) /\ f - 1 <= fin
        BY <1>2, <2>2, <2>3 DEF GInv, GoroutinesRight, BatchRight, Backfilling, Run
      <4>2. f - 1 \in Nat /\ f - 1 <= Len(ch) /\ c - 1 \in Int /\ c - 1 <= f - 1 /\ c - 1 <= LastOf(rows)
        BY <1>1, <1>4, <3>2, <4>1
      <4> HIDE DEF rows, ch, fin, first, c, f
      <4> QED
        BY <1>1, <3>2, <4>1, <4>2, ChainHeld DEF rows, first
    <3> QED
      BY <3>1, <3>2
  <2> HIDE DEF c, f
  <2>5. RunHeld(ls, rows, ch, first, "backfill", k)
    BY <2>2, <2>4 DEF RunHeld
  <2> QED
    BY <2>1, <2>5, LogsGo
<1>5. CASE ~(~j.looping /\ f - 1 >= c)
  <2> DEFINE k == [j EXCEPT !.looping = TRUE]
  <2>1. Goto("run", "logs", k)
    BY <1>5 DEF Proceed, Resume
  <2>2. k.current = c /\ k.block = b /\ k.finalized = f /\ k.looping
    BY DEF Job
  <2> HIDE DEF k
  <2>3. pc'["run"] = "logs" /\ job'["run"] = k
    BY <2>1 DEF Goto, Threads, TypeInv, PollerOK
  <2>4. RunRight(rows, ch, fin, backupPollerNextBlock, "logs", k)
    BY <1>2, <2>3 DEF GInv, GoroutinesRight, Run
  <2>5. RowsUnder(rows, k) /\ PollAt(rows, ch, k) /\ PollSees(rows, ch, fin, backupPollerNextBlock, k)
    BY <2>4 DEF RunRight, Fetching, Polling
  <2>6. b \in Block /\ Len(b) = c /\ b # NoBlock
    BY BlockIsSeq
  <2>7. f <= fin /\ OnChain(ch, b, f)
    BY <2>2, <2>5, <2>6 DEF PollSees
  <2>8. /\ SavedIn(rows) = {} => c = f
        /\ SavedIn(rows) # {} => c <= LastOf(rows) + 1 \/ c = f
    BY <2>2, <2>5 DEF PollAt
  <2>9. \A m \in SavedIn(rows) : m < c => rows[m].hash = At(b, m)
    BY <2>2, <2>5 DEF RowsUnder
  <2>10. ~j.looping => IF SavedIn(rows) = {} THEN c = first ELSE c <= LastOf(rows) + 1
    OBVIOUS
  <2>11. j.looping /\ BeyondRows(rows, c - 1) => Held(ls, ch, first, c - 1)
    OBVIOUS
  <2>12. LastHeld(ls, rows, first)
    OBVIOUS
  <2> HIDE DEF rows, ch, fin, first, c, f, b
  <2>13. ASSUME c = f, Held(ls, ch, first, c - 1)
         PROVE  Held(ls, b, first, c - 1)
    <3>1. Smaller(Len(b), f) = f /\ f <= Len(b) /\ f <= Len(ch) /\ c - 1 <= f
      BY <1>1, <2>6, <2>7, <2>13 DEF Smaller
    <3>2. At(ch, f) = At(b, f)
      BY <2>7, <3>1 DEF OnChain
    <3>3. c - 1 \in Int
      BY <1>1
    <3> QED
      BY <1>1, <2>6, <2>13, <3>1, <3>2, <3>3, HeldSame
  <2>14. ASSUME BeyondRows(rows, c) PROVE Held(ls, b, first, c - 1)
    <3>1. CASE SavedIn(rows) = {}
      <4>1. CASE j.looping
        BY <2>8, <2>11, <2>13, <3>1, <4>1 DEF BeyondRows
      <4>2. CASE ~j.looping
        <5>1. c - 1 < first /\ c - 1 \in Int /\ first \in Int
          BY <1>1, <2>10, <3>1, <4>2
        <5> QED
          BY <2>6, <5>1, HeldNone
      <4> QED
        BY <4>1, <4>2
    <3>2. CASE SavedIn(rows) # {}
      <4>1. c > LastOf(rows)
        BY <2>14, <3>2 DEF BeyondRows
      <4>2. CASE c <= LastOf(rows) + 1
        <5> DEFINE last == LastOf(rows)
                   top == rows[last].hash
        <5>1. c - 1 = last /\ last < c /\ last <= Len(b)
          BY <1>1, <2>6, <4>1, <4>2
        <5>2. top = At(b, last) /\ Held(ls, top, first, last) /\ top \in Block /\ Len(top) = last
          BY <1>3, <2>9, <2>12, <3>2, <5>1 DEF LastHeld
        <5>3. last \in Nat
          BY <1>1
        <5> HIDE DEF last, top
        <5>4. At(top, last) = At(b, last)
          BY <5>2, AtSelf
        <5>5. last <= Len(top) /\ last <= last /\ first \in Int
          BY <1>1, <5>2, <5>3
        <5>6. Held(ls, b, first, last)
          BY <2>6, <5>1, <5>2, <5>3, <5>4, <5>5, HeldSame
        <5> QED
          BY <5>1, <5>6
      <4>3. CASE ~(c <= LastOf(rows) + 1)
        <5>1. c = f /\ c - 1 > LastOf(rows) /\ j.looping
          BY <1>1, <2>8, <2>10, <3>2, <4>3
        <5> QED
          BY <2>11, <2>13, <5>1 DEF BeyondRows
      <4> QED
        BY <4>2, <4>3
    <3> QED
      BY <3>1, <3>2
  <2>15. RunHeld(ls, rows, ch, first, "logs", k)
    BY <2>2, <2>14 DEF RunHeld, Backfilling
  <2> QED
    BY <2>1, <2>15, LogsGo DEF rows, ch, first
<1> QED
  BY <1>4, <1>5

LEMMA GetCurrentBlockLogs ==
    ASSUME TypeInv, GInv, TypeInv', GInv', LogsNow, firstPolled > 0, GetCurrentBlock
    PROVE  LogsNow'
<1> DEFINE known == Run.block # NoBlock /\ Len(Run.block) = Run.current
           block == IF known THEN Run.block ELSE At(chain, Run.current)
           bound == blocks[Run.current - 1].finalized
           common == CommonAncestors(block, bound)
           missing == MissingAncestors(block, bound)
           broken == missing # {} /\ (common = {} \/ Max(missing) > Max(common))
           j == [Run EXCEPT !.block = block]
           k == [Run EXCEPT !.block = At(block, Max(common) + 1), !.current = Max(common) + 1]
<1>1. pc["run"] = "current" /\ UNCHANGED <<tables, outside, firstPolled>>
      /\ blocks' = blocks /\ chain' = chain /\ finalized' = finalized /\ logs' = logs /\ firstPolled' = firstPolled
  BY DEF GetCurrentBlock, outside, tables
<1>2. Run \in Job /\ Run.current \in 1..Run.latest /\ Run.latest \in Nat /\ Run.current \in Nat
  BY <1>1, RunIs, JobNumbers DEF RunOK, Fetching
<1>3. LastHeld(logs, blocks, firstPolled) /\ NextHeld(logs, chain, firstPolled, backupPollerNextBlock)
  BY DEF LogsNow
<1>4. ASSUME NEW outcome, Return("run", outcome)
      PROVE  LogsNow'
  BY <1>1, <1>3, <1>4, LogsReturn
<1>5. CASE known \/ Run.current <= Len(chain)
  <2>1. block \in Block /\ Len(block) = Run.current
    <3>1. CASE known
      BY <3>1, RunIs DEF Job
    <3>2. CASE ~known
      <4>1. Run.current \in 1..Len(chain) /\ chain \in Block
        BY <1>2, <1>5, <3>2, WorldNow, WorldIs
      <4> QED
        BY <3>2, <4>1, AtIsBlock
    <3> QED
      BY <3>1, <3>2
  <2> HIDE DEF block
  <2>2. CASE Proceed(j)
    <3>1. j \in Job /\ j.current = Run.current /\ j.block = block /\ j.looping = Run.looping
      BY <1>2, <2>1 DEF Job
    <3> HIDE DEF j
    <3>2. PollAt(blocks, chain, Run)
      BY <1>1 DEF GInv, GoroutinesRight, RunRight, Fetching
    <3>3. RunHeld(logs, blocks, chain, firstPolled, "current", Run)
      BY <1>1 DEF LogsNow
    <3>4. ~j.looping => IF SavedIn(blocks) = {} THEN j.current = firstPolled ELSE j.current <= LastOf(blocks) + 1
      BY <3>1, <3>2, <3>3 DEF PollAt, RunHeld
    <3>5. j.looping /\ BeyondRows(blocks, j.current - 1) => Held(logs, chain, firstPolled, j.current - 1)
      BY <3>1, <3>3 DEF RunHeld
    <3>6. backupPollerNextBlock' = backupPollerNextBlock
      BY <2>2 DEF Proceed, Resume
    <3> QED
      BY <1>1, <1>3, <2>1, <2>2, <3>1, <3>4, <3>5, <3>6, ProceedLogs
  <2>3. CASE Resume("run", "deleteBlocks", k)
    <3>1. Goto("run", "deleteBlocks", k) /\ backupPollerNextBlock' = backupPollerNextBlock
      BY <2>3 DEF Resume
    <3> HIDE DEF k
    <3>2. RunHeld(logs, blocks, chain, firstPolled, "deleteBlocks", k)
      BY DEF RunHeld, Backfilling
    <3> QED
      BY <1>1, <1>3, <3>1, <3>2, LogsGo
  <2>4. Proceed(j) \/ Return("run", "error") \/ Return("run", "violated") \/ Resume("run", "deleteBlocks", k)
    <3> HIDE DEF j, k, broken, common, missing, bound
    <3> QED
      BY <1>5, Zenon DEF GetCurrentBlock, j, k, broken, common, missing, bound, block
  <2> QED
    BY <1>4, <2>2, <2>3, <2>4
<1>6. CASE ~(known \/ Run.current <= Len(chain))
  <2>1. Return("run", "error")
    BY <1>6 DEF GetCurrentBlock
  <2> QED
    BY <1>4, <2>1
<1> QED
  BY <1>5, <1>6

LEMMA DeleteBlocksLogs ==
    ASSUME TypeInv, GInv, LogsNow, firstPolled > 0, DeleteBlocks
    PROVE  LogsNow'
<1> DEFINE rows == blocks
           rows2 == blocks'
           fin == LatestFinalized
           c == Run.current
           last == rows[LastOf(rows)].hash
<1>1. pc["run"] = "deleteBlocks" /\ chain' = chain /\ logs' = logs /\ firstPolled' = firstPolled
      /\ firstPolled \in Nat
  BY DEF DeleteBlocks, outside, history, TypeInv, OutsideOK
<1>2. LastHeld(logs, blocks, firstPolled) /\ NextHeld(logs, chain, firstPolled, backupPollerNextBlock)
  BY DEF LogsNow
<1>3. CASE Return("run", "error") /\ UNCHANGED blocks
  BY <1>1, <1>2, <1>3, LogsReturn
<1>4. CASE /\ rows2 = [n \in Heights |-> IF n >= c THEN NoRow ELSE rows[n]]
           /\ Resume("run", "deleteLogs", Run)
  <2>1. /\ WorldOK(rows, chain, fin) /\ RowsRight(rows, chain, fin) /\ c - 1 \in SavedIn(rows) /\ c \in Int
    BY <1>1, WorldNow, RunIs, JobNumbers DEF GInv, GoroutinesRight, RunRight
  <2>2. Goto("run", "deleteLogs", Run) /\ backupPollerNextBlock' = backupPollerNextBlock
    BY <1>4 DEF Resume
  <2> HIDE DEF rows, rows2, fin, c
  <2>3. /\ LastOf(rows2) = c - 1 /\ rows2[c - 1].hash = At(last, c - 1)
    BY <1>4, <2>1, CutRows
  <2>4. last \in Block /\ Len(last) = LastOf(rows) /\ LastOf(rows) \in Nat /\ c - 1 \in 1..LastOf(rows)
        /\ SavedIn(rows) # {}
    BY <2>1, WorldIs
  <2> HIDE DEF last
  <2>5. At(last, c - 1) \in Block /\ Len(At(last, c - 1)) = c - 1
    BY <2>4, AtIsBlock
  <2>6. At(At(last, c - 1), c - 1) = At(last, c - 1)
    BY <2>5, AtSelf
  <2>7. Held(logs, last, firstPolled, LastOf(rows))
    BY <1>2, <2>4 DEF LastHeld, last, rows
  <2>8. Held(logs, last, firstPolled, c - 1)
    BY <1>1, <2>4, <2>7, HeldLess
  <2>9. c - 1 \in Nat /\ c - 1 <= Len(last) /\ c - 1 <= Len(At(last, c - 1)) /\ c - 1 <= c - 1
    BY <2>4, <2>5
  <2>10. Held(logs, At(last, c - 1), firstPolled, c - 1)
    BY <1>1, <2>4, <2>5, <2>6, <2>8, <2>9, HeldSame
  <2>11. LastHeld(logs, rows2, firstPolled)
    BY <2>3, <2>10 DEF LastHeld
  <2>12. RunHeld(logs, rows2, chain, firstPolled, "deleteLogs", Run)
    BY DEF RunHeld, Backfilling
  <2>13. blocks' = rows2
    BY DEF rows2
  <2> QED
    BY <1>1, <1>2, <2>2, <2>11, <2>12, <2>13, LogsGo
<1> QED
  BY <1>3, <1>4 DEF DeleteBlocks

LEMMA DeleteLogsLogs ==
    ASSUME TypeInv, GInv, TypeInv', GInv', LogsNow, firstPolled > 0, DeleteLogs
    PROVE  LogsNow'
<1> DEFINE c == Run.current
           ls == LogsBefore(c)
           next == backupPollerNextBlock
<1>1. /\ pc["run"] = "deleteLogs" /\ blocks' = blocks /\ chain' = chain /\ finalized' = finalized
      /\ firstPolled' = firstPolled /\ firstPolled \in Nat /\ next \in Nat
  BY DEF DeleteLogs, outside, TypeInv, OutsideOK, PollerOK
<1>2. LastHeld(logs, blocks, firstPolled) /\ NextHeld(logs, chain, firstPolled, next)
  BY DEF LogsNow
<1>3. CASE Return("run", "error") /\ UNCHANGED <<logs, unchecked>>
  BY <1>1, <1>2, <1>3, LogsReturn
<1>4. CASE logs' = ls /\ Proceed(Run)
  <2>1. Run \in Job /\ Run.block \in Block /\ Len(Run.block) = c /\ c \in Nat
    BY <1>1, RunIs, JobNumbers DEF RunOK, Fetching, Job
  <2>2. LastOf(blocks) = c - 1 /\ next <= c /\ c - 1 \in SavedIn(blocks)
    BY <1>1 DEF GInv, GoroutinesRight, RunRight
  <2>3. WorldOK(blocks, chain, LatestFinalized) /\ chain \in Block
    BY WorldNow, WorldIs
  <2>4. ls = {l \in logs : Len(l) < c}
    BY DEF LogsBefore
  <2> HIDE DEF ls
  <2>5. LastHeld(ls, blocks, firstPolled)
    <3> DEFINE b == blocks[c - 1].hash
    <3>1. b \in Block /\ Held(logs, b, firstPolled, c - 1)
      BY <1>2, <2>2, <2>3, WorldIs DEF LastHeld
    <3>2. c - 1 \in Int /\ c - 1 < c
      BY <2>1
    <3> HIDE DEF b, c
    <3>3. Held(ls, b, firstPolled, c - 1)
      BY <1>1, <2>1, <2>4, <3>1, <3>2, HeldCut
    <3> QED
      BY <2>2, <3>3 DEF LastHeld, b
  <2>6. NextHeld(ls, chain, firstPolled, next)
    <3> SUFFICES ASSUME next # 0 PROVE Held(ls, chain, firstPolled, next - 1)
      BY DEF NextHeld
    <3>1. Held(logs, chain, firstPolled, next - 1)
      BY <1>2 DEF NextHeld
    <3>2. next - 1 \in Int /\ next - 1 < c
      BY <1>1, <2>1, <2>2
    <3> HIDE DEF c, next
    <3> QED
      BY <1>1, <2>1, <2>3, <2>4, <3>1, <3>2, HeldCut
  <2>7. ~Run.looping => IF SavedIn(blocks) = {} THEN Run.current = firstPolled ELSE Run.current <= LastOf(blocks) + 1
    BY <2>1, <2>2
  <2>8. ~BeyondRows(blocks, Run.current - 1)
    BY <2>1, <2>2 DEF BeyondRows
  <2>9. backupPollerNextBlock' = backupPollerNextBlock
    BY <1>4 DEF Proceed, Resume
  <2>10. logs' = ls /\ Proceed(Run)
    BY <1>4
  <2> QED
    BY <1>1, <2>1, <2>5, <2>6, <2>7, <2>8, <2>9, <2>10, ProceedLogs
<1> QED
  BY <1>3, <1>4 DEF DeleteLogs

(* The last row, once a row is added. *)
LEMMA LastWith ==
    ASSUME NEW rows, NEW ch, NEW fin, WorldOK(rows, ch, fin),
           NEW b \in Block, NEW fz \in Heights, NEW rows2, rows2 = WithRow(rows, b, fz)
    PROVE  /\ SavedIn(rows2) # {}
           /\ Len(b) > LastOf(rows) => LastOf(rows2) = Len(b) /\ rows2[Len(b)].hash = b
           /\ Len(b) <= LastOf(rows) => /\ SavedIn(rows) # {} /\ LastOf(rows2) = LastOf(rows)
                                        /\ rows2[LastOf(rows)] = rows[LastOf(rows)]
<1> DEFINE row == [hash |-> b, finalized |-> fz]
           c == Len(b)
<1>1. c \in Heights /\ c \in Nat /\ 1 <= c /\ b # NoBlock /\ rows \in [Heights -> Row \cup {NoRow}]
  BY BlockIsSeq, HeightsAreNats DEF WorldOK
<1>2. row.hash = b
  OBVIOUS
<1>3. rows2 = IF rows[c] = NoRow THEN [rows EXCEPT ![c] = row] ELSE rows
  BY DEF WithRow
<1>4. /\ c \in SavedIn(rows2) /\ \A n \in SavedIn(rows2) : n \in SavedIn(rows) \/ n = c
      /\ \A n \in SavedIn(rows) : rows2[n] = rows[n]
  BY PlainRow
<1>5. /\ LastOf(rows) \in Nat /\ (SavedIn(rows) # {} => LastOf(rows) \in SavedIn(rows))
      /\ (SavedIn(rows) = {} => LastOf(rows) = 0) /\ \A n \in SavedIn(rows) : n \in Nat /\ n <= LastOf(rows)
  BY WorldIs
<1> HIDE DEF row, c
<1>6. \A n \in SavedIn(rows) : n \in SavedIn(rows2)
  BY <1>4 DEF SavedIn
<1>7. CASE c > LastOf(rows)
  <2>1. c \notin SavedIn(rows) /\ \A n \in SavedIn(rows2) : n <= c
    BY <1>1, <1>4, <1>5, <1>7
  <2>2. LastOf(rows2) = c
    BY <1>4, <2>1, LastIs
  <2>3. rows2 = [rows EXCEPT ![c] = row]
    BY <1>1, <1>3, <2>1 DEF SavedIn
  <2>4. rows2[c].hash = b
    BY <1>1, <1>2, <2>3
  <2> QED
    BY <1>1, <1>4, <1>5, <1>7, <2>2, <2>4 DEF c
<1>8. CASE c <= LastOf(rows)
  <2>1. SavedIn(rows) # {} /\ LastOf(rows) \in SavedIn(rows)
    BY <1>1, <1>5, <1>8
  <2>2. LastOf(rows) \in SavedIn(rows2) /\ \A n \in SavedIn(rows2) : n <= LastOf(rows)
    BY <1>4, <1>5, <1>6, <1>8, <2>1
  <2>3. LastOf(rows2) = LastOf(rows)
    BY <2>2, LastIs
  <2> QED
    BY <1>1, <1>4, <1>5, <1>8, <2>1, <2>3 DEF c
<1> QED
  BY <1>1, <1>5, <1>7, <1>8

(* More logs, and the same last row. *)
SameLast(rows, rows2) ==
    /\ SavedIn(rows2) = {} <=> SavedIn(rows) = {}
    /\ LastOf(rows2) = LastOf(rows)
    /\ SavedIn(rows) # {} => rows2[LastOf(rows)] = rows[LastOf(rows)]

LEMMA HeldMore ==
    ASSUME TypeInv, LogsNow, NEW ls, logs \subseteq ls, NEW rows, SameLast(blocks, rows)
    PROVE  /\ LastHeld(ls, rows, firstPolled) /\ NextHeld(ls, chain, firstPolled, backupPollerNextBlock)
           /\ RunHeld(ls, rows, chain, firstPolled, pc["run"], Run)
<1>1. /\ WorldOK(blocks, chain, LatestFinalized) /\ chain \in Block /\ firstPolled \in Int
      /\ backupPollerNextBlock - 1 \in Int /\ LastOf(blocks) \in Int
      /\ SavedIn(blocks) # {} => blocks[LastOf(blocks)].hash \in Block
  BY WorldNow, WorldIs, Bounds DEF TypeInv, OutsideOK, PollerOK
<1>2. \A b \in Block, from, to \in Int : Held(logs, b, from, to) => Held(ls, b, from, to)
  BY DEF Held
<1>3. LastHeld(ls, rows, firstPolled)
  BY <1>1, <1>2 DEF LogsNow, LastHeld, SameLast
<1>4. NextHeld(ls, chain, firstPolled, backupPollerNextBlock)
  BY <1>1, <1>2 DEF LogsNow, NextHeld
<1>5. Run.from - 1 \in Int /\ Run.current - 1 \in Int /\ (pc["run"] \in {"logs", "insert"} => Run.block \in Block)
  BY RunIs, JobNumbers DEF RunOK, Fetching, Job
<1>6. \A n : BeyondRows(rows, n) => BeyondRows(blocks, n)
  BY DEF BeyondRows, SameLast
<1>7. RunHeld(logs, blocks, chain, firstPolled, pc["run"], Run) /\ (SavedIn(rows) = {} => SavedIn(blocks) = {})
  BY DEF LogsNow, SameLast
<1> DEFINE j == Run
           label == pc["run"]
<1>8. (label \in Backfilling => Held(ls, chain, firstPolled, j.from - 1))
      /\ (label = "current" /\ j.looping /\ BeyondRows(rows, j.current - 1) => Held(ls, chain, firstPolled, j.current - 1))
      /\ (label \in {"logs", "insert"} /\ BeyondRows(rows, j.current) => Held(ls, j.block, firstPolled, j.current - 1))
  BY <1>1, <1>2, <1>5, <1>6, <1>7 DEF RunHeld
<1>9. RunHeld(ls, rows, chain, firstPolled, label, j)
  BY <1>7, <1>8 DEF RunHeld
<1> QED
  BY <1>3, <1>4, <1>9

LEMMA FilterLogsOfBlockLogs ==
    ASSUME TypeInv, FiltersOK, LogsNow, firstPolled > 0, FilterLogsOfBlock, used'.incomplete = used.incomplete
    PROVE  LogsNow'
<1> DEFINE found == Matching(LogsOf(Run.block))
<1>1. pc["run"] = "logs" /\ blocks' = blocks /\ logs' = logs /\ chain' = chain /\ firstPolled' = firstPolled
  BY DEF FilterLogsOfBlock, tables, outside, history
<1>2. LastHeld(logs, blocks, firstPolled) /\ NextHeld(logs, chain, firstPolled, backupPollerNextBlock)
      /\ RunHeld(logs, blocks, chain, firstPolled, "logs", Run)
  BY <1>1 DEF LogsNow
<1>3. CASE Return("run", "ok")
  BY <1>1, <1>2, <1>3, LogsReturn
<1>4. ASSUME NEW got \in SUBSET found,
             IF got = found THEN UNCHANGED used ELSE Spend("incomplete", MaxIncomplete),
             Resume("run", "insert", [Run EXCEPT !.logs = got])
      PROVE  LogsNow'
  <2> DEFINE k == [Run EXCEPT !.logs = got]
  <2>1. got = found
    <3>1. used.incomplete \in Nat
      BY DEF TypeInv, OutsideOK, Budget
    <3>2. Spend("incomplete", MaxIncomplete) => used'.incomplete = used.incomplete + 1
      BY SpendIs
    <3> QED
      BY <1>4, <3>1, <3>2
  <2>2. found = LogsOf(Run.block)
    BY <1>1 DEF Matching, FiltersOK, TypeInv, OutsideOK
  <2>3. k.current = Run.current /\ k.block = Run.block /\ k.logs = got
    BY RunIs DEF Job
  <2>4. Goto("run", "insert", k) /\ backupPollerNextBlock' = backupPollerNextBlock
    BY <1>4 DEF Resume
  <2> HIDE DEF k, found
  <2>5. RunHeld(logs, blocks, chain, firstPolled, "insert", k)
    BY <1>2, <2>1, <2>2, <2>3 DEF RunHeld, Backfilling
  <2> QED
    BY <1>1, <1>2, <2>4, <2>5, LogsGo
<1> QED
  BY <1>3, <1>4 DEF FilterLogsOfBlock

LEMMA InsertLogsWithBlockLogs ==
    ASSUME TypeInv, LogsNow, firstPolled > 0, InsertLogsWithBlock
    PROVE  LogsNow'
<1> DEFINE k == [Run EXCEPT !.current = @ + 1, !.logs = {}]
           rows == blocks'
           ls == logs \cup Run.logs
           b == Run.block
           c == Run.current
           f == Run.finalized
<1>1. pc["run"] = "insert" /\ chain' = chain /\ firstPolled' = firstPolled
  BY DEF InsertLogsWithBlock, outside, history
<1>2. LastHeld(logs, blocks, firstPolled) /\ NextHeld(logs, chain, firstPolled, backupPollerNextBlock)
      /\ RunHeld(logs, blocks, chain, firstPolled, "insert", Run)
  BY <1>1 DEF LogsNow
<1>3. CASE Return("run", "ok") /\ UNCHANGED tables
  BY <1>1, <1>2, <1>3, LogsReturn DEF tables
<1>4. CASE /\ rows = WithBlock(b, f) /\ logs' = ls
           /\ IF k.current > Run.latest THEN Return("run", "ok") ELSE Resume("run", "current", k)
  <2>1. b \in Block /\ Len(b) = c /\ c \in Nat /\ f \in Heights
    <3>1. b # NoBlock /\ Len(b) = c /\ f \in 1..Run.latest /\ Run \in Job
      BY <1>1, RunIs DEF RunOK, Fetching
    <3>2. c \in Nat /\ f \in Nat /\ 1 <= f /\ f <= MaxHeight
      BY <3>1, JobNumbers
    <3> HIDE DEF f
    <3> QED
      BY <3>1, <3>2, HeightsAreNats DEF Job
  <2>2. WorldOK(blocks, chain, LatestFinalized) /\ LastOf(blocks) \in Nat /\ firstPolled \in Nat
    BY WorldNow, WorldIs DEF TypeInv, OutsideOK
  <2>3. rows = WithRow(blocks, b, f)
    BY <1>4 DEF WithBlock, WithRow
  <2> HIDE DEF rows, b, f
  <2>4. /\ SavedIn(rows) # {}
        /\ Len(b) > LastOf(blocks) => LastOf(rows) = Len(b) /\ rows[Len(b)].hash = b
        /\ Len(b) <= LastOf(blocks) => /\ SavedIn(blocks) # {} /\ LastOf(rows) = LastOf(blocks)
                                       /\ rows[LastOf(blocks)] = blocks[LastOf(blocks)]
    BY <2>1, <2>2, <2>3, LastWith
  <2>5. LastHeld(ls, rows, firstPolled)
    <3>1. CASE Len(b) > LastOf(blocks)
      <4>1. Held(logs, b, firstPolled, Len(b) - 1) /\ LogsOf(b) \subseteq Run.logs
        BY <1>2, <2>1, <3>1 DEF RunHeld, BeyondRows, b
      <4>2. firstPolled \in Int
        BY <2>2
      <4> HIDE DEF c
      <4>3. Held(ls, b, firstPolled, Len(b))
        BY <2>1, <4>1, <4>2, HeldTop
      <4> QED
        BY <2>4, <3>1, <4>3 DEF LastHeld
    <3>2. CASE Len(b) <= LastOf(blocks)
      BY <1>2, <2>4, <3>2 DEF LastHeld, Held
    <3> QED
      BY <2>1, <2>2, <3>1, <3>2
  <2>6. NextHeld(ls, chain, firstPolled, backupPollerNextBlock)
    BY <1>2 DEF NextHeld, Held
  <2>7. CASE Return("run", "ok")
    BY <1>1, <1>4, <2>5, <2>6, <2>7, LogsReturn DEF rows
  <2>8. CASE Resume("run", "current", k)
    <3>1. k.current = c + 1
      BY <2>1, RunIs DEF Job
    <3>2. Goto("run", "current", k) /\ backupPollerNextBlock' = backupPollerNextBlock
      BY <2>8 DEF Resume
    <3> HIDE DEF k, c
    <3>3. ~BeyondRows(rows, k.current - 1)
      BY <2>1, <2>2, <2>4, <3>1 DEF BeyondRows
    <3>4. RunHeld(ls, rows, chain, firstPolled, "current", k)
      BY <2>4, <3>3 DEF RunHeld, Backfilling
    <3> QED
      BY <1>1, <1>4, <2>5, <2>6, <3>2, <3>4, LogsGo DEF rows
  <2> QED
    BY <1>4, <2>7, <2>8
<1> QED
  BY <1>3, <1>4 DEF InsertLogsWithBlock

----------------------------------------------------------------------------
(* A backfill of the poller. *)

LEMMA NextBatchLogs ==
    ASSUME TypeInv, pc["run"] \in Backfilling, NextBatch("run", Run),
           NEW ls, NEW rows, logs' = ls, blocks' = rows, chain' = chain, firstPolled' = firstPolled,
           LastHeld(ls, rows, firstPolled), NextHeld(ls, chain, firstPolled, backupPollerNextBlock),
           Held(ls, chain, firstPolled, To(Run))
    PROVE  LogsNow'
<1> DEFINE j == Run
           ch == chain
           first == firstPolled
<1>1. j \in Job /\ j.size >= 1 /\ j.from <= j.end /\ RunOK(pc["run"], j) /\ j.end \in Nat
  BY RunIs, JobNumbers DEF JobOK, BatchOK
<1>2. /\ NextFrom(j) \in Nat /\ To(j) \in Nat
      /\ (NextFrom(j) <= j.end => To(j) = NextFrom(j) - 1) /\ (NextFrom(j) > j.end => To(j) = j.end)
  BY <1>1, ToIs
<1>3. CASE NextFrom(j) > j.end
  <2> DEFINE k == [j EXCEPT !.logs = {}, !.size = 0, !.from = 0]
  <2>1. k.kind = j.kind /\ k.end = j.end
    BY <1>1 DEF Job
  <2>2. AfterBackfill("run", k)
    BY <1>3 DEF NextBatch, Run
  <2>3. To(j) = j.end /\ Held(ls, ch, first, j.end)
    BY <1>2, <1>3
  <2>4. CASE k.kind = "backup"
    <3>1. Goto("run", "idle", NoJob) /\ backupPollerNextBlock' = j.end + 1
      BY <2>1, <2>2, <2>4 DEF AfterBackfill, AfterEnd
    <3>2. NextHeld(ls, ch, first, j.end + 1)
      BY <1>1, <2>3 DEF NextHeld
    <3> HIDE DEF j
    <3>3. RunHeld(ls, rows, ch, first, "idle", NoJob)
      BY DEF RunHeld, Backfilling
    <3> QED
      BY <3>1, <3>2, <3>3, LogsGo
  <2>5. CASE k.kind # "backup"
    <3> DEFINE m == [k EXCEPT !.current = AfterEnd(k), !.looping = TRUE]
    <3>1. k.kind \in Polls
      BY <1>1, <2>1, <2>5 DEF RunOK, Backfilling
    <3>2. Resume("run", "current", m)
      BY <2>2, <3>1 DEF AfterBackfill, Polls
    <3>3. m.current = j.end + 1 /\ m.looping
      BY <1>1, <2>1 DEF AfterEnd, Job
    <3> HIDE DEF m, k, j
    <3>4. m.current - 1 = j.end
      BY <1>1, <3>3
    <3>5. RunHeld(ls, rows, ch, first, "current", m)
      BY <2>3, <3>3, <3>4 DEF RunHeld, Backfilling
    <3> QED
      BY <3>2, <3>5, LogsGo DEF Resume
  <2> QED
    BY <2>4, <2>5
<1>4. CASE ~(NextFrom(j) > j.end)
  <2> DEFINE k == [j EXCEPT !.logs = {}, !.from = NextFrom(j)]
  <2>1. k.from = NextFrom(j)
    BY <1>1 DEF Job
  <2>2. Resume("run", "backfill", k)
    BY <1>4 DEF NextBatch, Run
  <2>3. k.from - 1 = To(j)
    BY <1>1, <1>2, <1>4, <2>1
  <2> HIDE DEF k
  <2>4. RunHeld(ls, rows, ch, first, "backfill", k)
    BY <2>3 DEF RunHeld
  <2> QED
    BY <2>2, <2>4, LogsGo DEF Resume
<1> QED
  BY <1>3, <1>4

LEMMA FilterLogsInRangeLogs ==
    ASSUME TypeInv, FiltersOK, LogsNow, firstPolled > 0, FilterLogsInRange("run"), used'.incomplete = used.incomplete
    PROVE  LogsNow'
<1> DEFINE j == Run
           found == Matching(LogsIn(chain, j.from, To(j)))
<1>1. pc["run"] = "backfill" /\ blocks' = blocks /\ logs' = logs /\ chain' = chain /\ firstPolled' = firstPolled
      /\ pc["run"] \in Backfilling /\ firstPolled \in Int
  BY DEF FilterLogsInRange, tables, outside, history, Backfilling, TypeInv, OutsideOK
<1>2. LastHeld(logs, blocks, firstPolled) /\ NextHeld(logs, chain, firstPolled, backupPollerNextBlock)
      /\ Held(logs, chain, firstPolled, j.from - 1)
  BY <1>1 DEF LogsNow, RunHeld
<1>3. j \in Job /\ j.size >= 1 /\ j.from <= j.end /\ j.end \in Nat /\ j.from \in Nat /\ To(j) \in Nat
      /\ chain \in Block
  BY <1>1, RunIs, JobNumbers, ToIs, WorldNow, WorldIs DEF JobOK, BatchOK
<1>4. CASE Return("run", "error")
  BY <1>1, <1>2, <1>4, LogsReturn
<1>5. CASE Resume("run", "backfill", [j EXCEPT !.size = @ \div 2])
  <2> DEFINE k == [j EXCEPT !.size = @ \div 2]
  <2>1. k.from = j.from
    BY <1>3 DEF Job
  <2>2. Goto("run", "backfill", k) /\ backupPollerNextBlock' = backupPollerNextBlock
    BY <1>5 DEF Resume
  <2> HIDE DEF k, j
  <2>3. RunHeld(logs, blocks, chain, firstPolled, "backfill", k)
    BY <1>2, <2>1 DEF RunHeld
  <2> QED
    BY <1>1, <1>2, <2>2, <2>3, LogsGo
<1>6. ASSUME NEW got \in SUBSET found,
             IF got = found THEN UNCHANGED used ELSE Spend("incomplete", MaxIncomplete),
             IF got = {} THEN NextBatch("run", j) ELSE Resume("run", "blocks", [j EXCEPT !.logs = got])
      PROVE  LogsNow'
  <2>1. got = found
    <3>1. used.incomplete \in Nat
      BY DEF TypeInv, OutsideOK, Budget
    <3>2. Spend("incomplete", MaxIncomplete) => used'.incomplete = used.incomplete + 1
      BY SpendIs
    <3> QED
      BY <1>6, <3>1, <3>2
  <2>2. got = LogsIn(chain, j.from, To(j))
    BY <1>1, <2>1 DEF Matching, FiltersOK, TypeInv, OutsideOK
  <2> HIDE DEF found, j
  <2>3. CASE got = {}
    <3>1. Held(logs \cup got, chain, firstPolled, To(j))
      <4> DEFINE mid == j.from
                 to == To(j)
      <4>1. mid \in Int /\ to \in Int /\ chain \in Block
        BY <1>3
      <4>2. Held(logs, chain, firstPolled, mid - 1) /\ LogsIn(chain, mid, to) \subseteq got
        BY <1>2, <2>2
      <4> HIDE DEF mid, to
      <4>3. Held(logs \cup got, chain, firstPolled, to)
        BY <1>1, <4>1, <4>2, HeldJoin
      <4> QED
        BY <4>3 DEF to
    <3>2. logs \cup got = logs
      BY <2>3
    <3>3. Held(logs, chain, firstPolled, To(Run))
      BY <3>1, <3>2 DEF j
    <3>4. NextBatch("run", Run)
      BY <1>6, <2>3 DEF j
    <3> QED
      BY <1>1, <1>2, <3>3, <3>4, NextBatchLogs
  <2>4. CASE got # {}
    <3> DEFINE k == [j EXCEPT !.logs = got]
    <3>1. k.from = j.from /\ k.size = j.size /\ k.end = j.end /\ k.logs = got
      BY <1>3 DEF Job
    <3>2. Goto("run", "blocks", k) /\ backupPollerNextBlock' = backupPollerNextBlock
      BY <1>6, <2>4 DEF Resume
    <3> HIDE DEF k
    <3>3. To(k) = To(j)
      BY <3>1 DEF To
    <3>4. RunHeld(logs, blocks, chain, firstPolled, "blocks", k)
      BY <1>2, <2>2, <3>1, <3>3 DEF RunHeld
    <3> QED
      BY <1>1, <1>2, <3>2, <3>4, LogsGo
  <2> QED
    BY <2>3, <2>4
<1> QED
  BY <1>4, <1>5, <1>6 DEF FilterLogsInRange, Run

LEMMA BlocksFromFinalizedLogsLogs ==
    ASSUME TypeInv, LogsNow, BlocksFromFinalizedLogs("run")
    PROVE  LogsNow'
<1> DEFINE j == Run
           numbers == {Len(l) : l \in j.logs} \cup {To(j)}
           Blocks(missing) == [n \in numbers |-> IF n \in missing THEN At(chain, n) ELSE blocks[n].hash]
           otherChain == /\ ChainReference > 0
                         /\ At(chain, ChainReference) # blocks[ChainReference].hash
           Compare(missing) == IF \E l \in j.logs : l # Blocks(missing)[Len(l)] THEN Return("run", "violated")
                               ELSE Resume("run", "save", [j EXCEPT !.block = Blocks(missing)[To(j)]])
           Ends == (\E outcome \in {"error", "violated"} : Return("run", outcome))
                   \/ (\E block : Resume("run", "save", [j EXCEPT !.block = block]))
<1>1. pc["run"] = "blocks" /\ blocks' = blocks /\ logs' = logs /\ chain' = chain /\ firstPolled' = firstPolled
  BY DEF BlocksFromFinalizedLogs, tables, outside, history
<1>2. LastHeld(logs, blocks, firstPolled) /\ NextHeld(logs, chain, firstPolled, backupPollerNextBlock)
      /\ RunHeld(logs, blocks, chain, firstPolled, "blocks", j)
  BY <1>1 DEF LogsNow
<1>3. ASSUME NEW missing,
             IF missing # {} /\ ChainReference > Len(chain) THEN Return("run", "error")
             ELSE IF missing # {} /\ otherChain THEN Return("run", "violated")
             ELSE IF \E n \in missing : n > finalized THEN Return("run", "error")
             ELSE Compare(missing)
      PROVE  Ends
  <2>1. Return("run", "error") \/ Return("run", "violated") \/ Compare(missing)
    <3> HIDE DEF otherChain, Compare
    <3> QED
      BY <1>3, Zenon
  <2>2. Compare(missing) => Ends
    <3> HIDE DEF Blocks
    <3> QED
      BY Zenon
  <2> QED
    BY <2>1, <2>2
<1>4. Ends
  <2>1. CASE Return("run", "error")
    BY <2>1
  <2>2. CASE \E missing \in {numbers, numbers \ Saved} :
               IF missing # {} /\ ChainReference > Len(chain) THEN Return("run", "error")
               ELSE IF missing # {} /\ otherChain THEN Return("run", "violated")
               ELSE IF \E n \in missing : n > finalized THEN Return("run", "error")
               ELSE Compare(missing)
    <3> HIDE DEF Ends, numbers, otherChain, Compare
    <3> QED
      BY <1>3, <2>2
  <2> QED
    BY <2>1, <2>2 DEF BlocksFromFinalizedLogs, Run
<1>5. CASE \E outcome \in {"error", "violated"} : Return("run", outcome)
  BY <1>1, <1>2, <1>5, LogsReturn
<1>6. ASSUME NEW block, Resume("run", "save", [j EXCEPT !.block = block])
      PROVE  LogsNow'
  <2> DEFINE k == [j EXCEPT !.block = block]
  <2>1. k.from = j.from /\ k.size = j.size /\ k.end = j.end /\ k.logs = j.logs
    BY RunIs DEF Job
  <2>2. Goto("run", "save", k) /\ backupPollerNextBlock' = backupPollerNextBlock
    BY <1>6 DEF Resume
  <2> HIDE DEF k, j
  <2>3. To(k) = To(j)
    BY <2>1 DEF To
  <2>4. RunHeld(logs, blocks, chain, firstPolled, "save", k)
    BY <1>2, <2>1, <2>3 DEF RunHeld, Backfilling
  <2> QED
    BY <1>1, <1>2, <2>2, <2>4, LogsGo
<1> QED
  BY <1>4, <1>5, <1>6

LEMMA SaveBatchLogs ==
    ASSUME TypeInv, GInv, LogsNow, firstPolled > 0, SaveBatch("run")
    PROVE  LogsNow'
<1> DEFINE j == Run
           b == j.block
           rows == blocks'
           ls == logs \cup j.logs
           c == To(j)
<1>1. pc["run"] = "save" /\ chain' = chain /\ firstPolled' = firstPolled /\ pc["run"] \in Backfilling
      /\ firstPolled \in Int
  BY DEF SaveBatch, outside, history, Backfilling, TypeInv, OutsideOK
<1>2. LastHeld(logs, blocks, firstPolled) /\ NextHeld(logs, chain, firstPolled, backupPollerNextBlock)
      /\ Held(logs, chain, firstPolled, j.from - 1) /\ LogsIn(chain, j.from, To(j)) \subseteq j.logs
  BY <1>1 DEF LogsNow, RunHeld
<1>3. CASE Return("run", "error") /\ UNCHANGED tables
  BY <1>1, <1>2, <1>3, LogsReturn DEF tables
<1>4. CASE rows = WithBlock(b, Len(b)) /\ logs' = ls /\ NextBatch("run", Run)
  <2>1. j \in Job /\ BatchOK("save", j) /\ j.from \in Nat /\ c \in Nat /\ j.end <= Len(chain) /\ c <= Len(chain)
        /\ chain \in Block /\ BatchRight(blocks, chain, LatestFinalized, "save", j) /\ Len(chain) \in Nat
    BY <1>1, BackfilledIs DEF Threads, Run
  <2>2. c >= 1 /\ b = At(chain, c) /\ Len(b) = c /\ b \in Block /\ c \in Heights
    <3>1. c >= 1 /\ b = At(chain, c) /\ c \in 1..Len(chain)
      BY <2>1 DEF BatchOK, BatchRight, Backfilling
    <3>2. b \in Block /\ Len(b) = c
      BY <2>1, <3>1, AtIsBlock
    <3>3. c \in Nat /\ 1 <= c /\ c <= MaxHeight
      <4> HIDE DEF b, c
      <4> QED
        BY <2>1, <3>1, <3>2, BlockIsSeq
    <3>4. c \in Heights
      <4> HIDE DEF c
      <4> QED
        BY <3>3, HeightsAreNats
    <3> QED
      BY <3>1, <3>2, <3>4
  <2>3. WorldOK(blocks, chain, LatestFinalized) /\ LastOf(blocks) \in Nat
    BY WorldNow, WorldIs
  <2>4. rows = WithRow(blocks, b, c)
    BY <1>4, <2>2 DEF WithBlock, WithRow
  <2> HIDE DEF j, b, rows, c
  <2>5. Held(ls, chain, firstPolled, c)
    <3> DEFINE mid == j.from
               got == j.logs
    <3>1. mid \in Int /\ c \in Int /\ chain \in Block
      BY <2>1
    <3>2. Held(logs, chain, firstPolled, mid - 1) /\ LogsIn(chain, mid, c) \subseteq got
      BY <1>2 DEF c
    <3> HIDE DEF mid, got
    <3>3. Held(logs \cup got, chain, firstPolled, c)
      BY <1>1, <3>1, <3>2, HeldJoin
    <3> QED
      BY <3>3 DEF got
  <2>6. /\ SavedIn(rows) # {}
        /\ Len(b) > LastOf(blocks) => LastOf(rows) = Len(b) /\ rows[Len(b)].hash = b
        /\ Len(b) <= LastOf(blocks) => /\ SavedIn(blocks) # {} /\ LastOf(rows) = LastOf(blocks)
                                       /\ rows[LastOf(blocks)] = blocks[LastOf(blocks)]
    BY <2>2, <2>3, <2>4, LastWith
  <2>7. LastHeld(ls, rows, firstPolled)
    <3>1. CASE Len(b) > LastOf(blocks)
      <4>1. At(b, c) = At(chain, c)
        BY <2>2, AtSelf
      <4>2. c <= Len(b) /\ c <= c /\ c \in Nat /\ c \in Int
        BY <2>1, <2>2
      <4>3. Held(ls, b, firstPolled, c)
        BY <1>1, <2>1, <2>2, <2>5, <4>1, <4>2, HeldSame
      <4> QED
        BY <2>2, <2>6, <3>1, <4>3 DEF LastHeld
    <3>2. CASE Len(b) <= LastOf(blocks)
      BY <1>2, <2>6, <3>2 DEF LastHeld, Held
    <3> QED
      BY <2>1, <2>2, <2>3, <3>1, <3>2
  <2>8. NextHeld(ls, chain, firstPolled, backupPollerNextBlock)
    BY <1>2 DEF NextHeld, Held
  <2>9. Held(ls, chain, firstPolled, To(Run)) /\ blocks' = rows /\ logs' = ls
    BY <1>4, <2>5 DEF c, j, rows
  <2> QED
    BY <1>1, <1>4, <2>7, <2>8, <2>9, NextBatchLogs
<1> QED
  BY <1>3, <1>4 DEF SaveBatch, Run

----------------------------------------------------------------------------
(* The client. *)

LEMMA MoreLogs ==
    ASSUME TypeInv, LogsNow, logs \subseteq logs', SameLast(blocks, blocks'),
           UNCHANGED <<chain, firstPolled, backupPollerNextBlock>>, pc'["run"] = pc["run"], job'["run"] = Run
    PROVE  LogsNow'
<1>1. \A ls, rows : ls = logs' /\ rows = blocks' =>
          /\ LastHeld(ls, rows, firstPolled) /\ NextHeld(ls, chain, firstPolled, backupPollerNextBlock)
          /\ RunHeld(ls, rows, chain, firstPolled, pc["run"], Run)
  BY HeldMore
<1> QED
  BY <1>1 DEF LogsNow, Run

LEMMA ClientGoesOn ==
    ASSUME TypeInv, (\E label, j : Goto("client", label, j)) \/ (\E outcome : Return("client", outcome))
    PROVE  pc'["run"] = pc["run"] /\ job'["run"] = Run
<1>1. ASSUME NEW label, NEW j, Goto("client", label, j)
      PROVE  pc'["run"] = pc["run"] /\ job'["run"] = Run
  BY <1>1 DEF Goto, Threads, TypeInv, PollerOK, Run
<1>2. ASSUME NEW outcome, Return("client", outcome)
      PROVE  pc'["run"] = pc["run"] /\ job'["run"] = Run
  <2>1. pc["run"] # "waiting"
    BY RunIs DEF RunOK, Fetching, Backfilling
  <2> QED
    BY <1>2, <2>1 DEF Return, Threads, TypeInv, PollerOK, Run
<1> QED
  BY <1>1, <1>2

LEMMA ClientBatch ==
    ASSUME TypeInv, pc["client"] \in Backfilling, NextBatch("client", job["client"])
    PROVE  pc'["run"] = pc["run"] /\ job'["run"] = Run /\ backupPollerNextBlock' = backupPollerNextBlock
<1> DEFINE j == job["client"]
<1>1. j.kind = "replay" /\ j \in Job
  BY RunIs DEF ClientOK, Backfilling, Client
<1>2. CASE NextFrom(j) > j.end
  <2> DEFINE k == [j EXCEPT !.logs = {}, !.size = 0, !.from = 0]
  <2>1. k.kind = "replay"
    BY <1>1 DEF Job
  <2>2. AfterBackfill("client", k)
    BY <1>2 DEF NextBatch
  <2> HIDE DEF k
  <2>3. Return("client", "ok") \/ Resume("client", "handoff", k)
    BY <2>1, <2>2 DEF AfterBackfill
  <2> QED
    BY <2>3, ClientGoesOn DEF Resume, Return
<1>3. CASE ~(NextFrom(j) > j.end)
  BY <1>3, ClientGoesOn DEF NextBatch, Resume
<1> QED
  BY <1>2, <1>3

LEMMA ClientBackfillLogs ==
    ASSUME TypeInv, GInv, LogsNow, BackfillStep("client")
    PROVE  LogsNow'
<1> DEFINE j == job["client"]
<1>1. CASE FilterLogsInRange("client")
  <2>1. UNCHANGED <<tables, chain, firstPolled>> /\ pc["client"] \in Backfilling
    BY <1>1 DEF FilterLogsInRange, outside, history, Backfilling
  <2>2. CASE Return("client", "error")
    BY <2>1, <2>2, ClientGoesOn, LogsStay DEF Return
  <2>3. CASE Resume("client", "backfill", [j EXCEPT !.size = @ \div 2])
    BY <2>1, <2>3, ClientGoesOn, LogsStay DEF Resume
  <2>4. ASSUME NEW got, IF got = {} THEN NextBatch("client", j) ELSE Resume("client", "blocks", [j EXCEPT !.logs = got])
        PROVE  LogsNow'
    <3>1. CASE NextBatch("client", j)
      BY <2>1, <3>1, ClientBatch, LogsStay
    <3>2. CASE Resume("client", "blocks", [j EXCEPT !.logs = got])
      BY <2>1, <3>2, ClientGoesOn, LogsStay DEF Resume
    <3> QED
      BY <2>4, <3>1, <3>2
  <2> QED
    BY <1>1, <2>2, <2>3, <2>4 DEF FilterLogsInRange
<1>2. CASE BlocksFromFinalizedLogs("client")
  <2>1. UNCHANGED <<tables, chain, firstPolled>>
    BY <1>2 DEF BlocksFromFinalizedLogs, outside, history
  <2>2. (\E outcome : Return("client", outcome)) \/ (\E label, k : Resume("client", label, k))
    <3> DEFINE numbers == {Len(l) : l \in j.logs} \cup {To(j)}
               Blocks(missing) == [n \in numbers |-> IF n \in missing THEN At(chain, n) ELSE blocks[n].hash]
               otherChain == /\ ChainReference > 0
                             /\ At(chain, ChainReference) # blocks[ChainReference].hash
               Bad(missing) == \E l \in j.logs : l # Blocks(missing)[Len(l)]
               After(missing) == [j EXCEPT !.block = Blocks(missing)[To(j)]]
               Fetch(missing) ==
                 IF missing # {} /\ ChainReference > Len(chain) THEN Return("client", "error")
                 ELSE IF missing # {} /\ otherChain THEN Return("client", "violated")
                 ELSE IF \E n \in missing : n > finalized THEN Return("client", "error")
                 ELSE IF Bad(missing) THEN Return("client", "violated")
                      ELSE Resume("client", "save", After(missing))
    <3>1. Return("client", "error") \/ Fetch(numbers) \/ Fetch(numbers \ Saved)
      BY <1>2 DEF BlocksFromFinalizedLogs
    <3> HIDE DEF numbers, otherChain, Bad, After
    <3>2. \A missing : Fetch(missing) => (\E outcome : Return("client", outcome))
                                         \/ (\E label, k : Resume("client", label, k))
      BY Zenon
    <3> HIDE DEF Fetch
    <3> QED
      BY <3>1, <3>2
  <2> QED
    BY <2>1, <2>2, ClientGoesOn, LogsStay DEF Return, Resume
<1>3. CASE SaveBatch("client")
  <2>1. pc["client"] = "save" /\ chain' = chain /\ firstPolled' = firstPolled /\ pc["client"] \in Backfilling
    BY <1>3 DEF SaveBatch, outside, history, Backfilling
  <2>2. CASE Return("client", "error") /\ UNCHANGED tables
    BY <2>1, <2>2, ClientGoesOn, LogsStay DEF Return
  <2>3. CASE blocks' = WithBlock(j.block, Len(j.block)) /\ logs' = logs \cup j.logs /\ NextBatch("client", j)
    <3> DEFINE rows == blocks'
               b == j.block
               c == To(j)
    <3>1. j \in Job /\ BatchOK("save", j) /\ c \in Nat /\ c <= j.end /\ c <= Len(chain)
          /\ j.end \in Nat /\ chain \in Block /\ BatchRight(blocks, chain, LatestFinalized, "save", j)
          /\ Len(chain) \in Nat
      BY <2>1, BackfilledIs DEF Threads
    <3>2. c >= 1 /\ b = At(chain, c) /\ c \in 1..Len(chain)
      BY <3>1 DEF BatchOK, BatchRight, Backfilling
    <3>3. WorldOK(blocks, chain, LatestFinalized) /\ LastOf(blocks) \in Nat
      BY WorldNow, WorldIs
    <3>4. j.end <= LastOf(blocks)
      BY <2>1 DEF GInv, GoroutinesRight, ClientRight, Client, Backfilling
    <3>5. logs \subseteq logs'
      BY <2>3
    <3> HIDE DEF rows, b, c, j
    <3>6. b \in Block /\ Len(b) = c
      BY <3>1, <3>2, AtIsBlock
    <3>7. c \in Heights
      BY <3>1, <3>2, <3>6, BlockIsSeq, HeightsAreNats
    <3>8. rows = WithRow(blocks, b, c) /\ Len(b) <= LastOf(blocks)
      BY <2>3, <3>1, <3>3, <3>4, <3>6 DEF WithBlock, WithRow, rows, b
    <3>9. /\ SavedIn(rows) # {} /\ SavedIn(blocks) # {} /\ LastOf(rows) = LastOf(blocks)
          /\ rows[LastOf(blocks)] = blocks[LastOf(blocks)]
      BY <3>3, <3>6, <3>7, <3>8, LastWith
    <3>10. SameLast(blocks, blocks')
      BY <3>9 DEF SameLast, rows
    <3> QED
      BY <2>1, <2>3, <3>5, <3>10, ClientBatch, MoreLogs DEF j
  <2> QED
    BY <1>3, <2>2, <2>3 DEF SaveBatch
<1> QED
  BY <1>1, <1>2, <1>3 DEF BackfillStep

LEMMA ReplayLogs ==
    ASSUME TypeInv, LogsNow, Replay
    PROVE  LogsNow'
<1>1. UNCHANGED <<tables, chain, firstPolled, backupPollerNextBlock>>
  BY DEF Replay, outside
<1>2. \E label, j : Goto("client", label, j)
  BY DEF Replay, Backfill
<1> QED
  BY <1>1, <1>2, ClientGoesOn, LogsStay

LEMMA ReplayCompleteLogs ==
    ASSUME TypeInv, LogsNow, ReplayComplete
    PROVE  LogsNow'
<1>1. UNCHANGED <<tables, chain, firstPolled, backupPollerNextBlock>> /\ Goto("client", "idle", NoJob)
  BY DEF ReplayComplete, outside, history, Resume
<1> QED
  BY <1>1, ClientGoesOn, LogsStay

LEMMA RegisterFilterLogs ==
    ASSUME LogsNow, RegisterFilter
    PROVE  LogsNow'
  BY LogsStay DEF RegisterFilter, tables, poller, history, Run

LEMMA HandleReplayRequestLogs ==
    ASSUME TypeInv, GInv, firstPolled > 0 => LogsNow, firstPolled' > 0, HandleReplayRequest
    PROVE  LogsNow'
<1> DEFINE from == ReplayFrom(Client.current)
           k == [NoJob EXCEPT !.kind = "replayed", !.current = from]
<1>1. /\ blocks' = blocks /\ logs' = logs /\ chain' = chain /\ backupPollerNextBlock' = backupPollerNextBlock
      /\ UNCHANGED tables
  BY DEF HandleReplayRequest, tables, outside
<1>2. SavedIn(blocks) = Saved /\ (backupPollerNextBlock # 0 => Saved # {})
  BY WorldNow DEF GInv, GoroutinesRight, NextRight
<1>3. CASE Goto("client", "idle", NoJob) /\ UNCHANGED history
  <2>1. firstPolled' = firstPolled /\ LogsNow
    BY <1>3 DEF history
  <2> QED
    BY <1>1, <1>3, <2>1, ClientGoesOn, LogsStay
<1>4. CASE /\ pc' = [pc EXCEPT !["run"] = "latest", !["client"] = "waiting"]
           /\ job' = [job EXCEPT !["run"] = k]
           /\ firstPolled' = IF Saved = {} THEN from ELSE firstPolled
  <2>1. pc'["run"] = "latest" /\ job'["run"] = k
    BY <1>4 DEF TypeInv, PollerOK, Threads
  <2>2. k.current = from
    BY DEF NoJob
  <2> HIDE DEF k
  <2>3. CASE Saved = {}
    <3>1. firstPolled' = from
      BY <1>4, <2>3
    <3>2. LastHeld(logs, blocks, from) /\ NextHeld(logs, chain, from, backupPollerNextBlock)
      BY <1>2, <2>3 DEF LastHeld, NextHeld
    <3> HIDE DEF from
    <3>3. RunHeld(logs, blocks, chain, from, "latest", k)
      BY <2>2 DEF RunHeld, Backfilling
    <3> QED
      BY <1>1, <2>1, <3>1, <3>2, <3>3 DEF LogsNow, Run
  <2>4. CASE Saved # {}
    <3>1. firstPolled' = firstPolled /\ LogsNow
      BY <1>4, <2>4
    <3> HIDE DEF from
    <3>2. RunHeld(logs, blocks, chain, firstPolled, "latest", k)
      BY <1>2, <2>4 DEF RunHeld, Backfilling
    <3> QED
      BY <1>1, <2>1, <3>1, <3>2 DEF LogsNow, Run
  <2> QED
    BY <2>3, <2>4
<1> HIDE DEF k, from
<1> QED
  BY <1>3, <1>4, Zenon DEF HandleReplayRequest, k, from, Client

----------------------------------------------------------------------------
(* The backup poller, pruning, a restart, the chain. *)

LEMMA BackupLogs ==
    ASSUME TypeInv, GInv, LogsNow, firstPolled > 0, BackupPollAndSaveLogs
    PROVE  LogsNow'
<1> DEFINE start == IF backupPollerNextBlock # 0 THEN backupPollerNextBlock ELSE BackupStart
           end == LatestFinalized - 1
           k == [[NoJob EXCEPT !.kind = "backup"] EXCEPT !.from = start, !.end = end, !.size = BackfillBatchSize]
           rows == blocks
           fin == LatestFinalized
           next == backupPollerNextBlock
           first == firstPolled
<1>1. /\ pc["run"] = "idle" /\ blocks' = blocks /\ chain' = chain /\ logs' = logs /\ firstPolled' = firstPolled
      /\ backupPollerNextBlock' = start /\ (next # 0 \/ Saved # {})
  BY DEF BackupPollAndSaveLogs, tables, outside
<1>2. LastHeld(logs, rows, first) /\ NextHeld(logs, chain, first, next)
  BY DEF LogsNow
<1>3. WorldOK(rows, chain, fin) /\ SavedIn(rows) = Saved /\ LastOf(rows) = LatestNumber /\ fin \in Nat
      /\ fin <= Len(chain) /\ Len(chain) \in Nat /\ first \in Nat /\ first > 0 /\ next \in Nat /\ chain \in Block
      /\ LastOf(rows) \in Nat
  BY WorldNow, WorldIs DEF TypeInv, OutsideOK, PollerOK
<1>4. start \in Nat /\ Held(logs, chain, first, start - 1)
  <2>1. CASE next # 0
    BY <1>2, <1>3, <2>1 DEF NextHeld
  <2>2. CASE next = 0
    <3>1. Saved # {}
      BY <1>1, <2>2
    <3>2. start \in Nat /\ start <= LatestRow.finalized
      BY <2>2, <3>1, BackupStartIs
    <3>3. /\ LatestRow.finalized \in Nat /\ LatestRow.finalized <= fin /\ LatestRow.finalized <= LatestNumber
          /\ \A e \in 0..LatestRow.finalized : Agrees(rows, chain, e)
      BY <3>1, LastAgrees
    <3> DEFINE e == start - 1
               fz == LatestRow.finalized
    <3> HIDE DEF start, rows, fin, next, first, fz
    <3>4. CASE start = 0
      <4>1. e < first /\ e \in Int /\ first \in Int
        BY <1>3, <3>4
      <4> HIDE DEF e
      <4> QED
        BY <1>3, <3>2, <4>1, HeldNone DEF e
    <3>5. CASE start # 0
      <4>1. e \in 0..fz /\ e \in Nat /\ e <= Len(chain) /\ e <= LastOf(rows) /\ e \in Int /\ e <= e
        BY <1>3, <3>2, <3>3, <3>5 DEF fz
      <4>2. Agrees(rows, chain, e) /\ SavedIn(rows) # {}
        BY <1>3, <3>1, <3>3, <4>1 DEF fz
      <4> HIDE DEF e
      <4>3. Held(logs, chain, first, e)
        BY <1>2, <1>3, <4>1, <4>2, ChainHeld
      <4> QED
        BY <3>2, <4>3 DEF e
    <3> QED
      BY <3>4, <3>5
  <2> QED
    BY <2>1, <2>2
<1>5. NextHeld(logs, chain, first, start)
  BY <1>4 DEF NextHeld
<1>6. CASE Backfill("run", [NoJob EXCEPT !.kind = "backup"], start, end)
  <2>1. Goto("run", "backfill", k)
    BY <1>6 DEF Backfill
  <2>2. k.from = start
    BY DEF NoJob
  <2> HIDE DEF k, end, start, rows, fin, next, first
  <2>3. RunHeld(logs, rows, chain, first, "backfill", k)
    BY <1>4, <2>2 DEF RunHeld
  <2> QED
    BY <1>1, <1>2, <1>5, <2>1, <2>3, LogsGo DEF rows, first
<1>7. CASE UNCHANGED <<pc, job>>
  <2>1. pc'["run"] = "idle"
    BY <1>1, <1>7
  <2>2. \A j : RunHeld(logs, rows, chain, first, "idle", j)
    BY DEF RunHeld, Backfilling
  <2> HIDE DEF start
  <2> QED
    BY <1>1, <1>2, <1>5, <2>1, <2>2 DEF LogsNow
<1> QED
  BY <1>6, <1>7 DEF BackupPollAndSaveLogs

LEMMA PruneLogs ==
    ASSUME TypeInv, GInv, LogsNow, PruneOldBlocks
    PROVE  LogsNow'
<1> DEFINE rows == blocks
           rows2 == blocks'
           fin == LatestFinalized
<1>1. PICK n \in Saved : n <= PruneLimit /\ rows2 = [k \in Heights |-> IF k <= n THEN NoRow ELSE rows[k]]
  BY DEF PruneOldBlocks
<1>2. UNCHANGED <<logs, poller, outside, used, history>> /\ Saved # {}
  BY DEF PruneOldBlocks
<1>3. /\ WorldOK(rows, chain, fin) /\ SavedIn(rows) = Saved /\ LastOf(rows) = LatestNumber
      /\ rows[LastOf(rows)] = LatestRow /\ RowsRight(rows, chain, fin)
  BY WorldNow DEF GInv
<1>4. n \in SavedIn(rows) /\ n < rows[LastOf(rows)].finalized
  BY <1>1, <1>2, <1>3, LatestRowIs, SavedRowIs, ParametersAssumption, Bounds DEF PruneLimit
<1>5. /\ LastOf(rows2) = LastOf(rows) /\ LastOf(rows) \in SavedIn(rows2)
      /\ \A k \in SavedIn(rows2) : rows2[k] = rows[k]
  <2> HIDE DEF rows, rows2, fin
  <2> QED
    BY <1>1, <1>3, <1>4, DropRows
<1>6. SameLast(blocks, blocks')
  BY <1>4, <1>5 DEF SameLast
<1> QED
  BY <1>2, <1>6, MoreLogs DEF poller, outside, history, Run

LEMMA RestartLogs ==
    ASSUME TypeInv, LogsNow, Restart
    PROVE  LogsNow'
<1>1. pc'["run"] = "idle" /\ backupPollerNextBlock' = 0 /\ blocks' = blocks /\ logs' = logs
      /\ firstPolled' = firstPolled
  BY DEF Restart, Threads, tables, history
<1>2. \A j : RunHeld(logs, blocks, chain', firstPolled, "idle", j)
  BY DEF RunHeld, Backfilling
<1> QED
  BY <1>1, <1>2 DEF LogsNow, NextHeld

LEMMA NodeLogs ==
    ASSUME TypeInv, GInv, LogsNow, Node, used'.deep = used.deep
    PROVE  LogsNow'
<1> DEFINE fin == LatestFinalized
           ch == chain
           ch2 == chain'
           j == Run
           label == pc["run"]
           first == firstPolled
           next == backupPollerNextBlock
<1>1. /\ UNCHANGED <<tables, poller, registered, history>> /\ ch2 \in Block
      /\ LatestFinalized' >= fin /\ \A n \in 0..fin : At(ch2, n) = At(ch, n)
      /\ finalized' \in 0..Len(ch2)
  BY NodeIs
<1>2. fin \in Nat /\ fin <= Len(ch) /\ ch \in Block /\ Len(ch) \in Nat /\ first \in Int /\ next \in Nat
      /\ LastOf(blocks) \in Nat /\ Len(ch2) \in Nat
  BY <1>1, WorldNow, WorldIs, BlockIsSeq DEF TypeInv, OutsideOK, PollerOK
<1>3. fin <= Len(ch2)
  <2>1. LatestFinalized' <= Len(ch2) /\ LatestFinalized' \in Nat
    <3>1. LatestFinalized' = Larger(finalized', 1) /\ 1 <= Len(ch2) /\ finalized' \in Nat
      BY <1>1, BlockIsSeq DEF LatestFinalized
    <3> QED
      BY <1>1, <1>2, <3>1 DEF Larger
  <2> QED
    BY <1>1, <1>2, <2>1
<1>4. ASSUME NEW ls, NEW from \in Int, NEW to \in Int, to <= fin, Held(ls, ch, from, to)
      PROVE  Held(ls, ch2, from, to)
  <2>1. At(ch, fin) = At(ch2, fin)
    BY <1>1, <1>2
  <2> HIDE DEF ch, ch2, fin
  <2> QED
    BY <1>1, <1>2, <1>3, <1>4, <2>1, HeldSame
<1>5. /\ RunRight(blocks, ch, fin, next, label, j) /\ NextRight(blocks, ch, fin, next)
      /\ RunHeld(logs, blocks, ch, first, label, j) /\ LastHeld(logs, blocks, first)
      /\ NextHeld(logs, ch, first, next)
  BY DEF GInv, GoroutinesRight, LogsNow
<1>6. j \in Job /\ RunOK(label, j) /\ BatchOK(label, j) /\ j.from \in Nat /\ j.end \in Nat /\ j.current \in Nat
      /\ j.finalized \in Nat
  BY RunIs, JobNumbers DEF JobOK
<1> HIDE DEF ch, ch2, fin, j, label, first, next
<1>7. NextHeld(logs, ch2, first, next)
  <2> SUFFICES ASSUME next # 0 PROVE Held(logs, ch2, first, next - 1)
    BY DEF NextHeld
  <2>1. next - 1 \in Int /\ next - 1 <= fin /\ Held(logs, ch, first, next - 1)
    BY <1>2, <1>5 DEF NextRight, NextHeld
  <2> QED
    BY <1>2, <1>4, <2>1
<1>8. ASSUME label \in Backfilling
      PROVE  /\ Held(logs, ch2, first, j.from - 1)
             /\ label \in {"blocks", "save"} => LogsIn(ch2, j.from, To(j)) \subseteq j.logs
  <2>1. j.size >= 1 /\ j.from <= j.end /\ j.end < fin
    BY <1>5, <1>6, <1>8 DEF BatchOK, RunRight
  <2>2. To(j) \in j.from..j.end
    BY <1>6, <2>1, ToIs
  <2>3. j.from - 1 \in Int /\ j.from - 1 <= fin /\ To(j) \in Int /\ To(j) <= fin /\ j.from \in Int
    BY <1>2, <1>6, <2>1, <2>2
  <2>4. Held(logs, ch2, first, j.from - 1)
    BY <1>2, <1>4, <1>5, <1>8, <2>3 DEF RunHeld
  <2>5. ASSUME label \in {"blocks", "save"} PROVE LogsIn(ch2, j.from, To(j)) \subseteq j.logs
    <3>1. Held(j.logs, ch, j.from, To(j))
      BY <1>5, <2>5 DEF RunHeld, Held
    <3>2. Held(j.logs, ch2, j.from, To(j))
      BY <1>4, <2>3, <3>1
    <3> QED
      BY <3>2 DEF Held
  <2> QED
    BY <2>4, <2>5
<1>9. ASSUME label = "current", j.looping, BeyondRows(blocks, j.current - 1)
      PROVE  Held(logs, ch2, first, j.current - 1)
  <2>1. PollAt(blocks, ch, j) /\ PollSees(blocks, ch, fin, next, j)
    BY <1>5, <1>9 DEF RunRight, Polling, Fetching
  <2>2. j.current = j.finalized /\ j.finalized <= fin
    BY <1>2, <1>6, <1>9, <2>1 DEF PollAt, PollSees, BeyondRows
  <2>3. j.current - 1 \in Int /\ j.current - 1 <= fin
    BY <1>2, <1>6, <2>2
  <2>4. Held(logs, ch, first, j.current - 1)
    BY <1>5, <1>9 DEF RunHeld
  <2> QED
    BY <1>2, <1>4, <2>3, <2>4
<1>10. RunHeld(logs, blocks, ch2, first, label, j)
  <2>1. label \in {"blocks", "save"} => label \in Backfilling
    BY DEF Backfilling
  <2> QED
    BY <1>5, <1>8, <1>9, <2>1 DEF RunHeld
<1>11. blocks' = blocks /\ logs' = logs /\ backupPollerNextBlock' = next /\ firstPolled' = first
       /\ pc'["run"] = label /\ job'["run"] = j /\ chain' = ch2
  BY <1>1 DEF tables, poller, history, next, first, label, j, ch2, Run
<1> QED
  BY <1>5, <1>7, <1>10, <1>11 DEF LogsNow, Run

----------------------------------------------------------------------------
(* The invariant, and what it implies. *)

Counted == used'.incomplete = used.incomplete \/ used'.incomplete = used.incomplete + 1

LEMMA IncompleteStays ==
    ASSUME TypeInv, Next
    PROVE  Counted
<1>1. ASSUME NEW what \in {"faults", "incomplete", "reorgs", "deep", "crashes", "replays"}, NEW bound,
             Spend(what, bound)
      PROVE  Counted
  BY <1>1, SpendIs DEF Counted
<1>2. UNCHANGED used => Counted
  BY DEF Counted
<1>3. ASSUME NEW th \in Threads, BackfillStep(th)
      PROVE  Counted
  BY <1>1, <1>2, <1>3 DEF BackfillStep, FilterLogsInRange, BlocksFromFinalizedLogs, SaveBatch, Fault
<1>4. CASE PollAndSaveLogs
  <2>1. CASE StartPoll
    BY <1>1, <1>2, <2>1 DEF StartPoll, Fault
  <2>2. CASE LatestBlocks
    BY <1>1, <1>2, <2>2 DEF LatestBlocks, Fault
  <2>3. CASE GetCurrentBlock
    BY <1>1, <1>2, <2>3 DEF GetCurrentBlock, Fault
  <2>4. CASE DeleteBlocks
    BY <1>1, <1>2, <2>4 DEF DeleteBlocks, Fault
  <2>5. CASE DeleteLogs
    BY <1>1, <1>2, <2>5 DEF DeleteLogs, Fault
  <2>6. CASE FilterLogsOfBlock
    BY <1>1, <1>2, <2>6 DEF FilterLogsOfBlock, Fault
  <2>7. CASE InsertLogsWithBlock
    BY <1>1, <1>2, <2>7 DEF InsertLogsWithBlock, Fault
  <2> QED
    BY <1>3, <1>4, <2>1, <2>2, <2>3, <2>4, <2>5, <2>6, <2>7 DEF PollAndSaveLogs, Threads
<1>5. CASE BackupPollAndSaveLogs \/ HandleReplayRequest
  <2>1. UNCHANGED used \/ Fault
    BY <1>5 DEF BackupPollAndSaveLogs, HandleReplayRequest
  <2> QED
    BY <1>1, <1>2, <2>1 DEF Fault
<1>6. CASE RegisterFilter \/ ReplayComplete \/ PruneOldBlocks
  BY <1>2, <1>6 DEF RegisterFilter, ReplayComplete, PruneOldBlocks
<1>7. CASE Replay
  BY <1>1, <1>7 DEF Replay
<1>8. CASE Restart
  BY <1>1, <1>8 DEF Restart
<1>9. CASE Node
  BY <1>1, <1>2, <1>9 DEF Node, Mine, Finalize, Reorg, DeepReorg
<1> QED
  BY <1>3, <1>4, <1>5, <1>6, <1>7, <1>8, <1>9 DEF Next, Threads

LEMMA InitLogs == Init => LogsInv
  BY DEF Init, LogsInv

LEMMA NextLogs ==
    ASSUME TypeInv, FiltersOK, ForkInv, LogsInv, [Next]_vars
    PROVE  LogsInv'
<1>1. TypeInv' /\ ForkInv'
  BY NextTypes, NextFork
<1> SUFFICES ASSUME Checked', used'.incomplete = 0, firstPolled' > 0
             PROVE  LogsNow'
  BY DEF LogsInv
<1>2. CASE UNCHANGED vars
  <2>1. LogsNow
    BY <1>2 DEF LogsInv, Checked, vars, history
  <2> QED
    BY <1>2, <2>1, LogsStay DEF vars, poller, outside, history, Run
<1>3. CASE Next
  <2>1. /\ ~unchecked /\ used.deep = 0 /\ used'.deep = used.deep
        /\ used.incomplete = 0 /\ used'.incomplete = used.incomplete
    <3>1. used'.deep = 0 /\ ~unchecked' /\ used.deep \in Nat /\ used.incomplete \in Nat
      BY DEF Checked, TypeInv, OutsideOK, Budget
    <3> QED
      BY <1>3, <3>1, CheckedStays, IncompleteStays DEF Counted
  <2>2. GInv /\ GInv' /\ (firstPolled > 0 => LogsNow)
    BY <1>1, <2>1 DEF ForkInv, LogsInv, Checked
  <2>3. CASE StartPoll
    BY <2>2, <2>3, StartPollLogs
  <2>4. CASE HandleReplayRequest
    BY <2>2, <2>4, HandleReplayRequestLogs
  <2>5. ASSUME firstPolled' = firstPolled
        PROVE  LogsNow'
    <3>1. firstPolled > 0 /\ LogsNow
      BY <2>2, <2>5
    <3>2. CASE PollAndSaveLogs
      <4>1. CASE BackfillStep("run")
        BY <2>1, <2>2, <3>1, <4>1, FilterLogsInRangeLogs, BlocksFromFinalizedLogsLogs, SaveBatchLogs DEF BackfillStep
      <4> QED
        BY <1>1, <2>1, <2>2, <2>3, <3>1, <3>2, <4>1, LatestBlocksLogs, GetCurrentBlockLogs, DeleteBlocksLogs,
           DeleteLogsLogs, FilterLogsOfBlockLogs, InsertLogsWithBlockLogs DEF PollAndSaveLogs
    <3> QED
      BY <1>3, <2>1, <2>2, <2>4, <3>1, <3>2, BackupLogs, RegisterFilterLogs, ReplayLogs, ClientBackfillLogs,
         ReplayCompleteLogs, PruneLogs, RestartLogs, NodeLogs DEF Next
  <2>6. StartPoll \/ HandleReplayRequest \/ firstPolled' = firstPolled
    <3>1. ASSUME NEW th \in Threads, BackfillStep(th)
          PROVE  firstPolled' = firstPolled
      BY <3>1 DEF BackfillStep, FilterLogsInRange, BlocksFromFinalizedLogs, SaveBatch, history
    <3>2. PollAndSaveLogs => StartPoll \/ firstPolled' = firstPolled
      BY <3>1 DEF PollAndSaveLogs, LatestBlocks, GetCurrentBlock, DeleteBlocks, DeleteLogs,
         FilterLogsOfBlock, InsertLogsWithBlock, history, Threads
    <3>3. BackupPollAndSaveLogs \/ RegisterFilter \/ Replay \/ ReplayComplete \/ PruneOldBlocks \/ Restart
            => firstPolled' = firstPolled
      BY DEF BackupPollAndSaveLogs, RegisterFilter, Replay, ReplayComplete, PruneOldBlocks, Restart, history
    <3>4. Node => firstPolled' = firstPolled
      BY NodeIs DEF history
    <3> QED
      BY <1>3, <3>1, <3>2, <3>3, <3>4 DEF Next, Threads
  <2> QED
    BY <2>3, <2>4, <2>5, <2>6
<1> QED
  BY <1>2, <1>3

(* No log is skipped: when the table has a block, the logs of all its ancestors since the
   first poll with the filter are saved, whatever batches and halved batches, rewinds,
   backup polls, replays, failing calls, restarts and reorgs interleave. *)
THEOREM NothingIsSkipped == Spec => []Complete
<1>1. TypeInv /\ LogsInv => Complete
  <2> SUFFICES ASSUME TypeInv, LogsInv, Checked, used.incomplete = 0, firstPolled > 0, Saved # {}
               PROVE  LogsIn(LatestRow.hash, firstPolled, LatestNumber) \subseteq logs
    BY DEF Complete
  <2>1. LastHeld(logs, blocks, firstPolled)
    BY DEF LogsInv, LogsNow
  <2> QED
    BY <2>1, WorldNow DEF LastHeld, Held
<1>2. Init => TypeInv /\ FiltersOK /\ ForkInv /\ LogsInv
  BY InitTypes, InitFilters, InitFork, InitLogs
<1>3. TypeInv /\ FiltersOK /\ ForkInv /\ LogsInv /\ [Next]_vars => (TypeInv /\ FiltersOK /\ ForkInv /\ LogsInv)'
  BY NextTypes, FiltersStep, NextFork, NextLogs
<1> QED
  BY <1>1, <1>2, <1>3, PTL DEF Spec

----------------------------------------------------------------------------
(* A replay, while no call fails, no answer is incomplete and the chain only grows: all
   that is saved or held by a goroutine is of the chain, and each place of a replay has
   brought the logs up to a number. *)

Quiet == used.faults + used.incomplete + used.reorgs + used.deep = 0

Of(ch, b)        == b \in Block /\ Len(b) <= Len(ch) /\ b = At(ch, Len(b))
RowsOf(rows, ch) == \A n \in SavedIn(rows) : Of(ch, rows[n].hash) /\ rows[n].finalized <= Len(ch)

LocalsOf(ch, label, j) ==
    /\ label \notin {"deleteBlocks", "deleteLogs"}
    /\ j.block # NoBlock => Of(ch, j.block)
    /\ label \in Backfilling => j.end <= Len(ch)
    /\ label \in {"blocks", "save"} => \A l \in j.logs : Of(ch, l)

PollOf(ch, fin, label, j) == Polling(label, j) => j.latest <= Len(ch) /\ j.finalized <= fin

Brought(ls, ch, requested, label, j) ==
    /\ label \in Backfilling => Held(ls, ch, requested, j.from - 1)
    /\ label \in {"blocks", "save"} => LogsIn(ch, j.from, To(j)) \subseteq j.logs
    /\ label \in {"handoff", "latest", "current", "logs", "insert"} => Held(ls, ch, requested, j.current - 1)
    /\ label = "insert" => LogsOf(j.block) \subseteq j.logs
    /\ label = "replayed" => Held(ls, ch, requested, j.latest)

ClientCovers(ls, ch, label, c) ==
    /\ label # "idle" => c.latest <= Len(ch)
    /\ label \in Backfilling => c.current = c.end + 1
    /\ Brought(ls, ch, c.requested, label, c)

(* The poll of a replay goes on where the client left off. *)
Waits(ls, ch, clientLabel, c, label, j) ==
    clientLabel = "waiting" =>
        /\ label # "idle" /\ j.kind = "replayed"
        /\ label = "latest" => j.current <= c.latest
        /\ label # "latest" => c.latest <= j.latest
        /\ Brought(ls, ch, c.requested, label, j)

(* What a replay brought is in the table of logs, unless its backfill began without the
   filter: then nothing is claimed of it. *)
Known == IF blind THEN Block ELSE logs

CoverNow ==
    /\ RowsOf(blocks, chain)
    /\ LocalsOf(chain, pc["client"], Client) /\ LocalsOf(chain, pc["run"], Run)
    /\ PollOf(chain, LatestFinalized, pc["run"], Run)
    /\ ClientCovers(Known, chain, pc["client"], Client)
    /\ Waits(Known, chain, pc["client"], Client, pc["run"], Run)

CoverInv == Quiet => CoverNow

LEMMA NoSum ==
    ASSUME NEW a \in Nat, NEW b \in Nat, NEW c \in Nat, NEW d \in Nat
    PROVE  a + b + c + d = 0 <=> a = 0 /\ b = 0 /\ c = 0 /\ d = 0
  OBVIOUS

LEMMA QuietIs ==
    ASSUME used \in Budget
    PROVE  Quiet <=> used.faults = 0 /\ used.incomplete = 0 /\ used.reorgs = 0 /\ used.deep = 0
<1> DEFINE a == used.faults
           b == used.incomplete
           c == used.reorgs
           d == used.deep
<1>1. a \in Nat /\ b \in Nat /\ c \in Nat /\ d \in Nat
  BY DEF Budget
<1>2. Quiet <=> a + b + c + d = 0
  BY DEF Quiet
<1> HIDE DEF a, b, c, d
<1>3. a + b + c + d = 0 <=> a = 0 /\ b = 0 /\ c = 0 /\ d = 0
  BY <1>1, NoSum
<1> QED
  BY <1>2, <1>3 DEF a, b, c, d

LEMMA QuietThen ==
    TypeInv' => (Quiet' <=> used'.faults = 0 /\ used'.incomplete = 0 /\ used'.reorgs = 0 /\ used'.deep = 0)
<1>1. TypeInv => (Quiet <=> used.faults = 0 /\ used.incomplete = 0 /\ used.reorgs = 0 /\ used.deep = 0)
  BY QuietIs DEF TypeInv, OutsideOK
<1>2. (TypeInv => (Quiet <=> used.faults = 0 /\ used.incomplete = 0 /\ used.reorgs = 0 /\ used.deep = 0))'
  BY <1>1, PTL
<1> QED
  BY <1>2

LEMMA NothingSpent ==
    ASSUME TypeInv, TypeInv', Quiet, Quiet'
    PROVE  ~Fault /\ \A bound : ~Spend("incomplete", bound) /\ ~Spend("reorgs", bound) /\ ~Spend("deep", bound)
<1>1. used.faults = 0 /\ used.incomplete = 0 /\ used.reorgs = 0 /\ used.deep = 0
  BY QuietIs DEF TypeInv, OutsideOK
<1>2. used'.faults = 0 /\ used'.incomplete = 0 /\ used'.reorgs = 0 /\ used'.deep = 0
  BY QuietThen
<1>3. ASSUME NEW what \in {"faults", "incomplete", "reorgs", "deep"}, NEW bound, Spend(what, bound)
      PROVE  FALSE
  <2>1. used'[what] = used[what] + 1
    BY <1>3, SpendIs
  <2> QED
    BY <1>1, <1>2, <2>1
<1> QED
  BY <1>3 DEF Fault

(* Nothing that went wrong is forgotten. *)
LEMMA UsedIs ==
    ASSUME TypeInv, Next
    PROVE  used' = used \/ \E what \in {"faults", "incomplete", "reorgs", "deep", "crashes", "replays"} :
                             \E bound : Spend(what, bound)
<1> DEFINE Spent == used' = used \/ \E what \in {"faults", "incomplete", "reorgs", "deep", "crashes", "replays"} :
                                      \E bound : Spend(what, bound)
<1>1. ASSUME NEW what \in {"faults", "incomplete", "reorgs", "deep", "crashes", "replays"}, NEW bound,
             Spend(what, bound)
      PROVE  Spent
  BY <1>1
<1>2. UNCHANGED used => Spent
  OBVIOUS
<1> HIDE DEF Spent
<1>3. ASSUME NEW th \in Threads, BackfillStep(th)
      PROVE  Spent
  BY <1>1, <1>2, <1>3 DEF BackfillStep, FilterLogsInRange, BlocksFromFinalizedLogs, SaveBatch, Fault
<1>4. PollAndSaveLogs => Spent
  <2>1. StartPoll \/ LatestBlocks \/ GetCurrentBlock => Spent
    BY <1>1, <1>2 DEF StartPoll, LatestBlocks, GetCurrentBlock, Fault
  <2>2. DeleteBlocks \/ DeleteLogs \/ FilterLogsOfBlock \/ InsertLogsWithBlock => Spent
    BY <1>1, <1>2 DEF DeleteBlocks, DeleteLogs, FilterLogsOfBlock, InsertLogsWithBlock, Fault
  <2> QED
    BY <1>3, <2>1, <2>2 DEF PollAndSaveLogs, Threads
<1>5. BackupPollAndSaveLogs \/ HandleReplayRequest => Spent
  <2>1. BackupPollAndSaveLogs \/ HandleReplayRequest => UNCHANGED used \/ Fault
    BY DEF BackupPollAndSaveLogs, HandleReplayRequest
  <2> QED
    BY <1>1, <1>2, <2>1 DEF Fault
<1>6. RegisterFilter \/ ReplayComplete \/ PruneOldBlocks \/ Replay \/ Restart => Spent
  BY <1>1, <1>2 DEF RegisterFilter, ReplayComplete, PruneOldBlocks, Replay, Restart
<1>7. Node => Spent
  BY <1>1, <1>2 DEF Node, Mine, Finalize, Reorg, DeepReorg
<1>8. Spent
  BY <1>3, <1>4, <1>5, <1>6, <1>7 DEF Next, Threads
<1> QED
  BY <1>8 DEF Spent

LEMMA QuietBefore ==
    ASSUME TypeInv, TypeInv', Next, Quiet'
    PROVE  Quiet
<1>1. used'.faults = 0 /\ used'.incomplete = 0 /\ used'.reorgs = 0 /\ used'.deep = 0
  BY QuietThen
<1>2. used \in Budget /\ used.faults \in Nat /\ used.incomplete \in Nat /\ used.reorgs \in Nat /\ used.deep \in Nat
  BY DEF TypeInv, OutsideOK, Budget
<1>3. ASSUME NEW what \in {"faults", "incomplete", "reorgs", "deep", "crashes", "replays"}, NEW bound,
             Spend(what, bound)
      PROVE  used.faults = 0 /\ used.incomplete = 0 /\ used.reorgs = 0 /\ used.deep = 0
  <2>1. /\ used'[what] = used[what] + 1
        /\ \A other \in {"faults", "incomplete", "reorgs", "deep", "crashes", "replays"} :
              other # what => used'[other] = used[other]
    BY <1>3, SpendIs
  <2>2. what \notin {"faults", "incomplete", "reorgs", "deep"}
    BY <1>1, <1>2, <2>1
  <2> QED
    BY <1>1, <2>1, <2>2
<1>4. used.faults = 0 /\ used.incomplete = 0 /\ used.reorgs = 0 /\ used.deep = 0
  BY <1>1, <1>3, UsedIs
<1> QED
  BY <1>2, <1>4, QuietIs

LEMMA MoreIsHeld ==
    ASSUME NEW ls, NEW ls2, ls \subseteq ls2, NEW ch
    PROVE  /\ \A requested, label, j : Brought(ls, ch, requested, label, j) => Brought(ls2, ch, requested, label, j)
           /\ \A label, c : ClientCovers(ls, ch, label, c) => ClientCovers(ls2, ch, label, c)
           /\ \A clientLabel, c, label, j :
                 Waits(ls, ch, clientLabel, c, label, j) => Waits(ls2, ch, clientLabel, c, label, j)
<1>1. \A requested, label, j : Brought(ls, ch, requested, label, j) => Brought(ls2, ch, requested, label, j)
  BY DEF Brought, Held
<1> QED
  BY <1>1 DEF ClientCovers, Waits

LEMMA RestCovers ==
    /\ \A ch : LocalsOf(ch, "idle", NoJob)
    /\ \A ch, fin : PollOf(ch, fin, "idle", NoJob)
    /\ \A ls, ch : ClientCovers(ls, ch, "idle", NoJob)
    /\ \A ls, ch, clientLabel, c, label, j : clientLabel # "waiting" => Waits(ls, ch, clientLabel, c, label, j)
  BY DEF LocalsOf, PollOf, ClientCovers, Brought, Waits, NoJob, Backfilling, Polling, Fetching

LEMMA KnownSame ==
    ASSUME logs' = logs, blind' = blind
    PROVE  Known' = Known
  BY DEF Known

LEMMA KnownGrows ==
    ASSUME NEW got, got \subseteq Block, logs' = logs \cup got, blind' = blind
    PROVE  Known' = Known \cup got
  BY DEF Known

LEMMA KnownBlind ==
    ASSUME blind, NEW b \in Block, NEW from \in Int, NEW to \in Int
    PROVE  Held(Known, b, from, to)
<1>1. \A n \in 1..Len(b) : At(b, n) \in Known
  BY AtIsBlock DEF Known
<1> QED
  BY <1>1, HeldIs

LEMMA CoverGoes ==
    ASSUME TypeInv, CoverNow, NEW label, NEW j, Goto("run", label, j),
           NEW ls, NEW rows, Known' = ls, blocks' = rows, Known \subseteq ls, RowsOf(rows, chain),
           UNCHANGED <<chain, finalized>>,
           LocalsOf(chain, label, j), PollOf(chain, LatestFinalized, label, j),
           pc["client"] = "waiting" => Waits(ls, chain, "waiting", Client, label, j)
    PROVE  CoverNow'
<1>1. pc'["run"] = label /\ job'["run"] = j /\ pc'["client"] = pc["client"] /\ job'["client"] = Client
      /\ LatestFinalized' = LatestFinalized
  BY DEF Goto, Threads, TypeInv, PollerOK, Client, LatestFinalized
<1>2. ClientCovers(ls, chain, pc["client"], Client)
  BY MoreIsHeld DEF CoverNow
<1>3. Waits(ls, chain, pc["client"], Client, label, j)
  BY DEF Waits
<1> QED
  BY <1>1, <1>2, <1>3 DEF CoverNow, Run, Client

LEMMA CoverReturns ==
    ASSUME TypeInv, CoverNow, NEW outcome, Return("run", outcome),
           NEW ls, NEW rows, Known' = ls, blocks' = rows, Known \subseteq ls, RowsOf(rows, chain),
           UNCHANGED <<chain, finalized>>,
           pc["client"] = "waiting" => Held(ls, chain, Client.requested, Client.latest)
    PROVE  CoverNow'
<1>1. pc'["run"] = "idle" /\ job'["run"] = NoJob /\ job'["client"] = Client
      /\ LatestFinalized' = LatestFinalized
      /\ pc'["client"] = IF Run.kind = "replayed" /\ pc["client"] = "waiting" THEN "replayed" ELSE pc["client"]
  BY DEF Return, Threads, TypeInv, PollerOK, Client, LatestFinalized, Run
<1>2. ClientCovers(ls, chain, pc["client"], Client) /\ LocalsOf(chain, pc["client"], Client)
  BY MoreIsHeld DEF CoverNow
<1>3. pc["client"] = "waiting" => Run.kind = "replayed"
  BY DEF CoverNow, Waits
<1>4. CASE pc["client"] = "waiting"
  <2>1. pc'["client"] = "replayed"
    BY <1>1, <1>3, <1>4
  <2>2. ClientCovers(ls, chain, "replayed", Client) /\ LocalsOf(chain, "replayed", Client)
    BY <1>2, <1>4 DEF ClientCovers, Brought, LocalsOf, Backfilling
  <2> QED
    BY <1>1, <2>1, <2>2, RestCovers DEF CoverNow, Run, Client
<1>5. CASE pc["client"] # "waiting"
  <2>1. pc'["client"] = pc["client"]
    BY <1>1, <1>5
  <2> QED
    BY <1>1, <1>2, <1>5, <2>1, RestCovers DEF CoverNow, Run, Client
<1> QED
  BY <1>4, <1>5

LEMMA CoverClientGoes ==
    ASSUME TypeInv, CoverNow, NEW label, NEW k, Goto("client", label, k), label # "waiting",
           NEW ls, NEW rows, Known' = ls, blocks' = rows, RowsOf(rows, chain),
           UNCHANGED <<chain, finalized>>,
           LocalsOf(chain, label, k), ClientCovers(ls, chain, label, k)
    PROVE  CoverNow'
<1>1. pc'["client"] = label /\ job'["client"] = k /\ pc'["run"] = pc["run"] /\ job'["run"] = Run
      /\ LatestFinalized' = LatestFinalized
  BY DEF Goto, Threads, TypeInv, PollerOK, Run, LatestFinalized
<1> QED
  BY <1>1, RestCovers DEF CoverNow, Run, Client

LEMMA CoverClientReturns ==
    ASSUME TypeInv, CoverNow, NEW outcome, Return("client", outcome), pc["client"] # "waiting",
           NEW rows, blocks' = rows, RowsOf(rows, chain), UNCHANGED <<chain, finalized>>
    PROVE  CoverNow'
<1>1. pc["run"] # "waiting" /\ job["client"] = Client
  BY RunIs DEF RunOK, Fetching, Backfilling, Client
<1>2. pc'["client"] = "idle" /\ job'["client"] = NoJob /\ pc'["run"] = pc["run"] /\ job'["run"] = Run
      /\ LatestFinalized' = LatestFinalized
  BY <1>1 DEF Return, Threads, TypeInv, PollerOK, Run, LatestFinalized
<1> QED
  BY <1>2, RestCovers DEF CoverNow, Run, Client

LEMMA CoverStays ==
    ASSUME CoverNow, UNCHANGED <<tables, chain, finalized, pc, job, blind>>
    PROVE  CoverNow'
<1>1. LatestFinalized' = LatestFinalized
  BY DEF LatestFinalized
<1>2. Known' = Known
  BY KnownSame DEF tables
<1> QED
  BY <1>1, <1>2 DEF CoverNow, Run, Client, tables

(* Rows of the chain. *)
LEMMA RowsOfWith ==
    ASSUME NEW rows, NEW ch, NEW fin, WorldOK(rows, ch, fin), RowsOf(rows, ch),
           NEW b, Of(ch, b), NEW n \in Heights, n <= Len(ch)
    PROVE  RowsOf(WithRow(rows, b, n), ch)
<1>1. \A k \in SavedIn(WithRow(rows, b, n)) :
          \/ k \in SavedIn(rows) /\ WithRow(rows, b, n)[k] = rows[k]
          \/ WithRow(rows, b, n)[k].hash = b /\ WithRow(rows, b, n)[k].finalized = n
  BY DEF WithRow, SavedIn, WorldOK
<1> QED
  BY <1>1 DEF RowsOf

LEMMA OfChain ==
    ASSUME NEW ch \in Block
    PROVE  /\ Of(ch, ch)
           /\ \A n \in 1..Len(ch) : Of(ch, At(ch, n)) /\ At(ch, n) \in Block /\ Len(At(ch, n)) = n
           /\ \A b, c : Of(ch, b) /\ Of(ch, c) /\ Len(b) = Len(c) => b = c
           /\ \A b, n : Of(ch, b) /\ n \in 0..Len(b) => At(b, n) = At(ch, n)
<1>1. Len(ch) \in Nat /\ At(ch, Len(ch)) = ch
  BY BlockIsSeq, AtSelf
<1>2. ASSUME NEW n \in 1..Len(ch)
      PROVE  Of(ch, At(ch, n)) /\ At(ch, n) \in Block /\ Len(At(ch, n)) = n
  BY <1>1, AtIsBlock DEF Of
<1>3. ASSUME NEW b, Of(ch, b), NEW n \in 0..Len(b)
      PROVE  At(b, n) = At(ch, n)
  <2>1. b = At(ch, Len(b)) /\ Len(b) \in 1..Len(ch)
    BY <1>1, <1>3, BlockIsSeq DEF Of
  <2>2. At(At(ch, Len(b)), n) = At(ch, n)
    BY <2>1, AtOfAt
  <2> QED
    BY <2>1, <2>2
<1> QED
  BY <1>1, <1>2, <1>3 DEF Of

----------------------------------------------------------------------------
(* A replay: the poll. *)

LEMMA CoverWorld ==
    ASSUME TypeInv, CoverNow
    PROVE  /\ WorldOK(blocks, chain, LatestFinalized) /\ chain \in Block /\ Len(chain) \in Nat
           /\ LatestFinalized \in Nat /\ LatestFinalized <= Len(chain) /\ RowsOf(blocks, chain)
           /\ Run \in Job /\ RunOK(pc["run"], Run) /\ BatchOK(pc["run"], Run)
           /\ Client \in Job /\ ClientOK(pc["client"], Client) /\ BatchOK(pc["client"], Client)
           /\ (pc["client"] # "idle" => registered)
           /\ (pc["client"] = "waiting" => Waits(Known, chain, "waiting", Client, pc["run"], Run))
           /\ (pc["client"] # "idle" => Client.latest <= Len(chain))
  BY WorldNow, WorldIs, RunIs DEF JobOK, CoverNow, TypeInv, PollerOK, ClientCovers

LEMMA StartPollCovers ==
    ASSUME TypeInv, CoverNow, StartPoll, ~Fault
    PROVE  CoverNow'
<1> DEFINE k == [NoJob EXCEPT !.kind = "poll",
                              !.current = IF Saved = {} THEN LatestFinalized ELSE LatestNumber + 1]
<1>1. pc["run"] = "idle" /\ Goto("run", "latest", k) /\ UNCHANGED <<tables, chain, finalized>>
      /\ blocks' = blocks /\ Known' = Known
  BY KnownSame DEF StartPoll, Resume, tables
<1>2. k.block = NoBlock
  BY DEF NoJob
<1> HIDE DEF k
<1>3. pc["client"] # "waiting" /\ RowsOf(blocks, chain)
  BY <1>1 DEF CoverNow, Waits
<1>4. LocalsOf(chain, "latest", k) /\ PollOf(chain, LatestFinalized, "latest", k)
  BY <1>2 DEF LocalsOf, PollOf, Backfilling, Polling, Fetching
<1> QED
  BY <1>1, <1>3, <1>4, CoverGoes

LEMMA LatestBlocksCovers ==
    ASSUME TypeInv, CoverNow, LatestBlocks, ~Fault
    PROVE  CoverNow'
<1> DEFINE j == Run
           block == IF j.current = Len(chain) THEN chain ELSE NoBlock
           k == [j EXCEPT !.latest = Len(chain), !.finalized = LatestFinalized, !.block = block]
<1>1. pc["run"] = "latest" /\ blocks' = blocks /\ Known' = Known /\ UNCHANGED <<chain, finalized>>
  BY KnownSame DEF LatestBlocks, tables, outside, history
<1>2. /\ chain \in Block /\ Len(chain) \in Nat /\ RowsOf(blocks, chain) /\ Run \in Job
      /\ (pc["client"] = "waiting" => Waits(Known, chain, "waiting", Client, "latest", j))
      /\ (pc["client"] = "waiting" => Client.latest <= Len(chain)) /\ Client \in Job
      /\ LatestFinalized \in Nat
  BY <1>1, CoverWorld
<1>3. CASE j.current > Len(chain) /\ Return("run", "ok")
  <2>1. pc["client"] # "waiting"
    BY <1>2, <1>3, JobNumbers DEF Waits
  <2> QED
    BY <1>1, <1>2, <1>3, <2>1, CoverReturns
<1>4. CASE Resume("run", "current", k)
  <2>1. /\ k.latest = Len(chain) /\ k.finalized = LatestFinalized /\ k.block = block
        /\ k.kind = j.kind /\ k.current = j.current
    BY <1>2 DEF Job
  <2>2. Goto("run", "current", k)
    BY <1>4 DEF Resume
  <2> HIDE DEF k
  <2>3. LocalsOf(chain, "current", k) /\ PollOf(chain, LatestFinalized, "current", k)
    BY <1>2, <2>1, OfChain DEF LocalsOf, PollOf, Backfilling
  <2>4. pc["client"] = "waiting" => Waits(Known, chain, "waiting", Client, "current", k)
    BY <1>2, <2>1 DEF Waits, Brought, Backfilling
  <2> QED
    BY <1>1, <1>2, <2>2, <2>3, <2>4, CoverGoes
<1> QED
  BY <1>3, <1>4 DEF LatestBlocks

LEMMA ProceedCovers ==
    ASSUME TypeInv, CoverNow, blocks' = blocks, Known' = Known, UNCHANGED <<chain, finalized>>,
           NEW j \in Job, Proceed(j), Of(chain, j.block), j.latest <= Len(chain), j.finalized <= LatestFinalized,
           pc["client"] = "waiting" =>
             j.kind = "replayed" /\ Client.latest <= j.latest /\ Held(Known, chain, Client.requested, j.current - 1)
    PROVE  CoverNow'
<1>1. RowsOf(blocks, chain) /\ Len(chain) \in Nat /\ LatestFinalized <= Len(chain) /\ LatestFinalized \in Nat
      /\ j.finalized \in Nat
  BY CoverWorld, JobNumbers
<1>2. CASE Backfill("run", j, j.current, j.finalized - 1)
  <2> DEFINE k == [j EXCEPT !.from = j.current, !.end = j.finalized - 1, !.size = BackfillBatchSize]
  <2>1. /\ k.from = j.current /\ k.end = j.finalized - 1 /\ k.block = j.block /\ k.latest = j.latest
        /\ k.finalized = j.finalized /\ k.kind = j.kind
    BY DEF Job
  <2>2. Goto("run", "backfill", k)
    BY <1>2 DEF Backfill
  <2> HIDE DEF k
  <2>3. k.end <= Len(chain)
    BY <1>1, <2>1
  <2>4. LocalsOf(chain, "backfill", k) /\ PollOf(chain, LatestFinalized, "backfill", k)
    BY <2>1, <2>3 DEF LocalsOf, PollOf
  <2>5. pc["client"] = "waiting" => Waits(Known, chain, "waiting", Client, "backfill", k)
    BY <2>1 DEF Waits, Brought
  <2> QED
    BY <1>1, <2>2, <2>4, <2>5, CoverGoes
<1>3. CASE Resume("run", "logs", [j EXCEPT !.looping = TRUE])
  <2> DEFINE k == [j EXCEPT !.looping = TRUE]
  <2>1. /\ k.current = j.current /\ k.block = j.block /\ k.latest = j.latest
        /\ k.finalized = j.finalized /\ k.kind = j.kind
    BY DEF Job
  <2>2. Goto("run", "logs", k)
    BY <1>3 DEF Resume
  <2> HIDE DEF k
  <2>3. LocalsOf(chain, "logs", k) /\ PollOf(chain, LatestFinalized, "logs", k)
    BY <2>1 DEF LocalsOf, PollOf, Backfilling
  <2>4. pc["client"] = "waiting" => Waits(Known, chain, "waiting", Client, "logs", k)
    BY <2>1 DEF Waits, Brought, Backfilling
  <2> QED
    BY <1>1, <2>2, <2>3, <2>4, CoverGoes
<1> QED
  BY <1>2, <1>3 DEF Proceed

LEMMA GetCurrentBlockCovers ==
    ASSUME TypeInv, CoverNow, GetCurrentBlock, ~Fault
    PROVE  CoverNow'
<1> DEFINE known == Run.block # NoBlock /\ Len(Run.block) = Run.current
           block == IF known THEN Run.block ELSE At(chain, Run.current)
           j == [Run EXCEPT !.block = block]
<1>1. pc["run"] = "current" /\ blocks' = blocks /\ Known' = Known
      /\ UNCHANGED <<chain, finalized>>
  BY KnownSame DEF GetCurrentBlock, tables, outside
<1>2. /\ chain \in Block /\ Len(chain) \in Nat /\ RowsOf(blocks, chain) /\ Run \in Job
      /\ RunOK("current", Run) /\ WorldOK(blocks, chain, LatestFinalized)
      /\ (pc["client"] = "waiting" => Waits(Known, chain, "waiting", Client, "current", Run))
      /\ (Run.block # NoBlock => Of(chain, Run.block)) /\ Run.latest <= Len(chain)
      /\ Run.finalized <= LatestFinalized
  BY <1>1, CoverWorld DEF CoverNow, LocalsOf, PollOf, Polling, Fetching
<1>3. Run.current \in 1..Len(chain) /\ Run.current \in Nat
  BY <1>2, JobNumbers DEF RunOK, Fetching
<1>4. Of(chain, block) /\ Len(block) = Run.current /\ block \in Block
  <2>1. CASE known
    BY <1>2, <2>1 DEF Of
  <2>2. CASE ~known
    BY <1>2, <1>3, <2>2, OfChain
  <2> QED
    BY <2>1, <2>2
<1>5. j.block = block /\ j.current = Run.current /\ j.latest = Run.latest /\ j.finalized = Run.finalized
      /\ j.kind = Run.kind
  BY <1>2 DEF Job
<1>6. j \in Job
  BY <1>2, <1>4 DEF Job
<1>7. ~(~known /\ Run.current > Len(chain))
  BY <1>2, <1>3
<1>8. ParentMatches(block)
  <2> DEFINE c == Run.current
  <2> HIDE DEF block, c
  <2>1. CASE c = 1 \/ blocks[c - 1] = NoRow
    BY <1>4, <2>1 DEF ParentMatches, c
  <2>2. CASE ~(c = 1 \/ blocks[c - 1] = NoRow)
    <3>1. c \in Nat /\ c # 1 /\ c >= 1 /\ c <= Len(chain) /\ Len(chain) <= MaxHeight /\ MaxHeight \in Nat
      BY <1>2, <1>3, <2>2, WorldIs DEF c
    <3>2. c - 1 \in Heights /\ c - 1 \in 0..c /\ c = Len(block)
      BY <1>4, <3>1, HeightsAreNats DEF c
    <3>3. c - 1 \in SavedIn(blocks)
      BY <2>2, <3>2 DEF SavedIn
    <3>4. blocks[c - 1].hash = At(chain, c - 1)
      BY <1>2, <3>3, WorldIs DEF RowsOf, Of
    <3>5. At(block, c - 1) = At(chain, c - 1)
      BY <1>2, <1>4, <3>2, OfChain
    <3> QED
      BY <3>2, <3>4, <3>5 DEF ParentMatches
  <2> QED
    BY <2>1, <2>2
<1>9. Proceed(j)
  <2> HIDE DEF known
  <2>1. Proceed([Run EXCEPT !.block = IF known THEN Run.block ELSE At(chain, Run.current)])
    BY <1>7, <1>8, Zenon DEF GetCurrentBlock, known, block
  <2> QED
    BY <2>1
<1> HIDE DEF j, known, block
<1>10. pc["client"] = "waiting" =>
         j.kind = "replayed" /\ Client.latest <= j.latest /\ Held(Known, chain, Client.requested, j.current - 1)
  BY <1>2, <1>5 DEF Waits, Brought
<1> QED
  BY <1>1, <1>2, <1>4, <1>5, <1>6, <1>9, <1>10, ProceedCovers

LEMMA FilterLogsOfBlockCovers ==
    ASSUME TypeInv, FiltersOK, CoverNow, FilterLogsOfBlock, ~Fault, \A bound : ~Spend("incomplete", bound)
    PROVE  CoverNow'
<1> DEFINE found == Matching(LogsOf(Run.block))
           k == [Run EXCEPT !.logs = found]
<1>1. pc["run"] = "logs" /\ blocks' = blocks /\ Known' = Known /\ UNCHANGED <<chain, finalized>>
  BY KnownSame DEF FilterLogsOfBlock, tables, outside, history
<1>2. /\ RowsOf(blocks, chain) /\ Run \in Job
      /\ (pc["client"] = "waiting" => Waits(Known, chain, "waiting", Client, "logs", Run) /\ registered)
      /\ LocalsOf(chain, "logs", Run) /\ PollOf(chain, LatestFinalized, "logs", Run)
  BY <1>1, CoverWorld DEF CoverNow
<1>3. Goto("run", "insert", k)
  BY DEF FilterLogsOfBlock, Resume
<1>4. /\ k.current = Run.current /\ k.block = Run.block /\ k.latest = Run.latest
      /\ k.finalized = Run.finalized /\ k.kind = Run.kind /\ k.logs = found
  BY <1>2 DEF Job
<1>5. registered => found = LogsOf(Run.block)
  BY <1>1 DEF Matching, FiltersOK
<1> HIDE DEF k, found
<1>6. LocalsOf(chain, "insert", k) /\ PollOf(chain, LatestFinalized, "insert", k)
  BY <1>2, <1>4 DEF LocalsOf, PollOf, Backfilling, Polling, Fetching
<1>7. pc["client"] = "waiting" => Waits(Known, chain, "waiting", Client, "insert", k)
  BY <1>2, <1>4, <1>5 DEF Waits, Brought, Backfilling
<1> QED
  BY <1>1, <1>2, <1>3, <1>6, <1>7, CoverGoes

LEMMA InsertLogsWithBlockCovers ==
    ASSUME TypeInv, CoverNow, InsertLogsWithBlock, ~Fault
    PROVE  CoverNow'
<1> DEFINE k == [Run EXCEPT !.current = @ + 1, !.logs = {}]
           rows == blocks'
           ls == Known \cup Run.logs
           b == Run.block
           c == Run.current
           f == Run.finalized
<1>1. pc["run"] = "insert" /\ UNCHANGED <<chain, finalized>>
  BY DEF InsertLogsWithBlock, outside
<1>2. rows = WithBlock(b, f) /\ logs' = logs \cup Run.logs /\ blind' = blind
      /\ IF k.current > Run.latest THEN Return("run", "ok") ELSE Resume("run", "current", k)
  BY DEF InsertLogsWithBlock, history
<1>3. /\ RowsOf(blocks, chain) /\ Run \in Job /\ RunOK("insert", Run) /\ WorldOK(blocks, chain, LatestFinalized)
      /\ (pc["client"] = "waiting" => Waits(Known, chain, "waiting", Client, "insert", Run))
      /\ LocalsOf(chain, "insert", Run) /\ PollOf(chain, LatestFinalized, "insert", Run)
      /\ chain \in Block /\ Client \in Job
  BY <1>1, CoverWorld DEF CoverNow
<1>4. Of(chain, b) /\ b \in Block /\ Len(b) = c /\ c \in Nat /\ c >= 1 /\ c <= Run.latest /\ Run.latest \in Nat
      /\ Client.requested \in Int /\ Client.latest \in Int /\ c \in 1..Len(chain)
  BY <1>3, JobNumbers, BlockIsSeq DEF LocalsOf, RunOK, Fetching, Of
<1>5. f \in Heights /\ f <= Len(chain)
  <2>1. f \in Nat /\ 1 <= f /\ f <= MaxHeight
    BY <1>3, JobNumbers DEF RunOK, Fetching
  <2>2. f <= LatestFinalized /\ LatestFinalized \in Nat /\ LatestFinalized <= Len(chain) /\ Len(chain) \in Nat
    BY <1>3, CoverWorld DEF PollOf, Polling, Fetching
  <2> HIDE DEF f
  <2> QED
    BY <2>1, <2>2, HeightsAreNats
<1>6. k.current = c + 1 /\ k.block = b /\ k.latest = Run.latest /\ k.finalized = f /\ k.kind = Run.kind
      /\ Known' = ls
  BY <1>2, <1>3, KnownGrows DEF Job
<1> HIDE DEF k
<1>7. RowsOf(rows, chain)
  <2>1. rows = WithRow(blocks, b, f)
    BY <1>2 DEF WithBlock, WithRow
  <2> HIDE DEF rows, b, f
  <2> QED
    BY <1>3, <1>4, <1>5, <2>1, RowsOfWith
<1>8. pc["client"] = "waiting" => Held(ls, chain, Client.requested, c)
  <2> SUFFICES ASSUME pc["client"] = "waiting" PROVE Held(ls, chain, Client.requested, c)
    OBVIOUS
  <2>1. Held(Known, chain, Client.requested, c - 1) /\ LogsOf(b) \subseteq Run.logs
    BY <1>3 DEF Waits, Brought
  <2>2. Held(Known, b, Client.requested, c - 1)
    <3> HIDE DEF b, c
    <3>1. c \in Nat /\ c <= Len(b) /\ c <= Len(chain) /\ c - 1 <= c /\ c - 1 \in Int
      BY <1>4
    <3>2. At(b, c) = At(chain, c)
      BY <1>3, <1>4, AtSelf DEF Of
    <3> QED
      BY <1>3, <1>4, <2>1, <3>1, <3>2, HeldSame
  <2>3. Held(ls, b, Client.requested, c)
    <3> HIDE DEF b, c
    <3> QED
      BY <1>4, <2>1, <2>2, HeldTop
  <2> HIDE DEF b, c, ls
  <2>4. c \in Nat /\ c <= Len(b) /\ c <= Len(chain) /\ c <= c /\ c \in Int
    BY <1>4
  <2>5. At(b, c) = At(chain, c)
    BY <1>3, <1>4, AtSelf DEF Of
  <2> QED
    BY <1>3, <1>4, <2>3, <2>4, <2>5, HeldSame
<1> HIDE DEF rows, b, c, f
<1>9. CASE k.current > Run.latest
  <2>1. Return("run", "ok")
    BY <1>2, <1>9
  <2>2. c = Run.latest
    BY <1>4, <1>6, <1>9
  <2>3. pc["client"] = "waiting" => Held(ls, chain, Client.requested, Client.latest)
    <3> SUFFICES ASSUME pc["client"] = "waiting" PROVE Held(ls, chain, Client.requested, Client.latest)
      OBVIOUS
    <3>1. Client.latest <= c /\ c \in Int
      BY <1>3, <1>4, <2>2 DEF Waits
    <3> QED
      BY <1>3, <1>4, <1>8, <3>1, HeldLess
  <2>4. Known \subseteq ls /\ Known' = ls /\ blocks' = rows
    BY <1>6 DEF rows
  <2> HIDE DEF ls
  <2> QED
    BY <1>1, <1>7, <2>1, <2>3, <2>4, CoverReturns
<1>10. CASE ~(k.current > Run.latest)
  <2>1. Goto("run", "current", k)
    BY <1>2, <1>10 DEF Resume
  <2>2. LocalsOf(chain, "current", k) /\ PollOf(chain, LatestFinalized, "current", k)
    BY <1>3, <1>6 DEF LocalsOf, PollOf, Backfilling, Polling, Fetching, b, f
  <2>3. k.current - 1 = c
    BY <1>4, <1>6
  <2>4. pc["client"] = "waiting" => Waits(ls, chain, "waiting", Client, "current", k)
    BY <1>3, <1>6, <1>8, <2>3 DEF Waits, Brought, Backfilling
  <2>5. Known \subseteq ls /\ Known' = ls /\ blocks' = rows
    BY <1>6 DEF rows
  <2> HIDE DEF ls
  <2> QED
    BY <1>1, <1>7, <2>1, <2>2, <2>4, <2>5, CoverGoes
<1> QED
  BY <1>9, <1>10

----------------------------------------------------------------------------
(* A replay: the batches of either goroutine. *)

Asked(th) == th = "client" \/ pc["client"] = "waiting"

LEMMA BatchNow ==
    ASSUME TypeInv, CoverNow, NEW th \in Threads, pc[th] \in Backfilling
    PROVE  /\ job[th] \in Job /\ BatchOK(pc[th], job[th]) /\ LocalsOf(chain, pc[th], job[th])
           /\ (Asked(th) => Brought(Known, chain, Client.requested, pc[th], job[th]) /\ registered)
           /\ (th = "run" => RunOK(pc[th], job[th]) /\ PollOf(chain, LatestFinalized, pc[th], job[th])
                             /\ (Asked(th) => job[th].kind = "replayed" /\ Client.latest <= job[th].latest))
           /\ (th = "client" => job[th].kind = "replay" /\ job[th].current = job[th].end + 1
                                /\ job[th].latest <= Len(chain))
           /\ WorldOK(blocks, chain, LatestFinalized) /\ RowsOf(blocks, chain) /\ Client \in Job
<1>1. CASE th = "run"
  <2>1. pc["client"] = "waiting" =>
          /\ Brought(Known, chain, Client.requested, pc[th], Run) /\ registered /\ Run.kind = "replayed"
          /\ Client.latest <= Run.latest
    BY <1>1, CoverWorld DEF Waits, Backfilling
  <2>2. /\ job[th] = Run /\ pc[th] = pc["run"] /\ (Asked(th) <=> pc["client"] = "waiting")
        /\ th # "client"
    BY <1>1 DEF Asked, Run
  <2>3. LocalsOf(chain, pc["run"], Run) /\ PollOf(chain, LatestFinalized, pc["run"], Run)
    BY DEF CoverNow
  <2> HIDE DEF Run
  <2> QED
    BY <2>1, <2>2, <2>3, CoverWorld
<1>2. CASE th = "client"
  <2>1. /\ Brought(Known, chain, Client.requested, pc[th], Client) /\ registered /\ Client.kind = "replay"
        /\ Client.current = Client.end + 1 /\ Client.latest <= Len(chain) /\ LocalsOf(chain, pc[th], Client)
    BY <1>2, CoverWorld DEF CoverNow, ClientCovers, ClientOK, Backfilling
  <2> QED
    BY <1>2, <2>1, CoverWorld DEF Client
<1> QED
  BY <1>1, <1>2 DEF Threads

LEMMA BatchGoesOn ==
    ASSUME TypeInv, CoverNow, NEW th \in Threads, pc[th] \in Backfilling,
           NEW label \in Backfilling, NEW k, Goto(th, label, k),
           k.kind = job[th].kind, k.latest = job[th].latest, k.finalized = job[th].finalized,
           k.current = job[th].current, k.end = job[th].end, k.requested = job[th].requested,
           NEW ls, NEW rows, Known' = ls, blocks' = rows, Known \subseteq ls, RowsOf(rows, chain),
           UNCHANGED <<chain, finalized>>,
           k.block # NoBlock => Of(chain, k.block),
           label \in {"blocks", "save"} => \A l \in k.logs : Of(chain, l),
           Asked(th) => Brought(ls, chain, Client.requested, label, k)
    PROVE  CoverNow'
<1>1. LocalsOf(chain, label, k)
  BY BatchNow DEF LocalsOf, Backfilling
<1>2. CASE th = "run"
  <2>1. PollOf(chain, LatestFinalized, label, k)
    BY <1>2, BatchNow DEF PollOf, Polling, Backfilling, Fetching
  <2>2. pc["client"] = "waiting" => Waits(ls, chain, "waiting", Client, label, k)
    BY <1>2, BatchNow DEF Waits, Asked, Backfilling
  <2> QED
    BY <1>1, <1>2, <2>1, <2>2, CoverGoes
<1>3. CASE th = "client"
  <2>1. k.latest <= Len(chain) /\ k.current = k.end + 1
    BY <1>3, BatchNow
  <2>2. k.requested = Client.requested /\ label # "waiting"
    BY <1>3 DEF Client, Backfilling
  <2>3. ClientCovers(ls, chain, label, k)
    BY <1>3, <2>1, <2>2 DEF ClientCovers, Asked
  <2> QED
    BY <1>1, <1>3, <2>2, <2>3, CoverClientGoes
<1> QED
  BY <1>2, <1>3 DEF Threads

LEMMA NextBatchCovers ==
    ASSUME TypeInv, CoverNow, NEW th \in Threads, pc[th] \in Backfilling, NextBatch(th, job[th]),
           NEW ls, NEW rows, Known' = ls, blocks' = rows, Known \subseteq ls, RowsOf(rows, chain),
           UNCHANGED <<chain, finalized>>,
           Asked(th) => Held(ls, chain, Client.requested, To(job[th]))
    PROVE  CoverNow'
<1> DEFINE j == job[th]
<1>1. /\ j \in Job /\ j.size >= 1 /\ j.from <= j.end /\ j.end \in Nat /\ LocalsOf(chain, pc[th], j)
      /\ WorldOK(blocks, chain, LatestFinalized)
  BY BatchNow, JobNumbers DEF BatchOK
<1>2. /\ NextFrom(j) \in Nat /\ To(j) \in Nat
      /\ (NextFrom(j) <= j.end => To(j) = NextFrom(j) - 1) /\ (NextFrom(j) > j.end => To(j) = j.end)
  BY <1>1, ToIs
<1>3. CASE NextFrom(j) > j.end
  <2> DEFINE k == [j EXCEPT !.logs = {}, !.size = 0, !.from = 0]
  <2>1. /\ k.kind = j.kind /\ k.end = j.end /\ k.current = j.current /\ k.latest = j.latest
        /\ k.finalized = j.finalized /\ k.block = j.block /\ k.requested = j.requested
    BY <1>1 DEF Job
  <2>2. AfterBackfill(th, k)
    BY <1>3 DEF NextBatch
  <2>3. Asked(th) => Held(ls, chain, Client.requested, j.end)
    BY <1>2, <1>3
  <2> HIDE DEF k
  <2>4. CASE th = "client"
    <3>1. j.kind = "replay" /\ j.current = j.end + 1 /\ j.latest <= Len(chain) /\ j = Client /\ pc["client"] # "waiting"
      BY <2>4, BatchNow DEF Client, Backfilling
    <3>2. CASE Return("client", "ok")
      BY <3>1, <3>2, CoverClientReturns
    <3>3. CASE Resume("client", "handoff", k)
      <4>1. k.current - 1 = j.end
        BY <1>1, <2>1, <3>1
      <4>2. ClientCovers(ls, chain, "handoff", k)
        BY <2>1, <2>3, <2>4, <3>1, <4>1 DEF ClientCovers, Brought, Backfilling, Asked
      <4>3. LocalsOf(chain, "handoff", k)
        BY <1>1, <2>1 DEF LocalsOf, Backfilling
      <4> QED
        BY <3>3, <4>2, <4>3, CoverClientGoes DEF Resume
    <3> QED
      BY <2>1, <2>2, <2>4, <3>1, <3>2, <3>3 DEF AfterBackfill
  <2>5. CASE th = "run" /\ k.kind = "backup"
    <3>1. Goto("run", "idle", NoJob) /\ pc["client"] # "waiting"
      BY <2>1, <2>2, <2>5, BatchNow DEF AfterBackfill, Asked
    <3> QED
      BY <3>1, RestCovers, CoverGoes
  <2>6. CASE th = "run" /\ k.kind # "backup"
    <3> DEFINE m == [k EXCEPT !.current = AfterEnd(k), !.looping = TRUE]
    <3>1. k.kind \in Polls /\ PollOf(chain, LatestFinalized, pc[th], j)
      BY <2>1, <2>6, BatchNow DEF RunOK, Backfilling
    <3>2. Goto("run", "current", m)
      BY <2>2, <2>6, <3>1 DEF AfterBackfill, Polls, Resume
    <3>3. m.current = j.end + 1 /\ m.kind = j.kind /\ m.latest = j.latest /\ m.finalized = j.finalized
          /\ m.block = j.block
      BY <2>1 DEF AfterEnd, Job
    <3> HIDE DEF m
    <3>4. m.current - 1 = j.end
      BY <1>1, <3>3
    <3>5. j.latest <= Len(chain) /\ j.finalized <= LatestFinalized
      BY <2>1, <3>1 DEF PollOf, Polling
    <3>6. LocalsOf(chain, "current", m) /\ PollOf(chain, LatestFinalized, "current", m)
      BY <1>1, <3>3, <3>5 DEF LocalsOf, PollOf, Backfilling
    <3>7. pc["client"] = "waiting" => Waits(ls, chain, "waiting", Client, "current", m)
      BY <2>3, <2>6, <3>3, <3>4, BatchNow DEF Waits, Brought, Backfilling, Asked
    <3> QED
      BY <3>2, <3>6, <3>7, CoverGoes
  <2> QED
    BY <2>4, <2>5, <2>6 DEF Threads
<1>4. CASE ~(NextFrom(j) > j.end)
  <2> DEFINE k == [j EXCEPT !.logs = {}, !.from = NextFrom(j)]
  <2>1. /\ k.from = NextFrom(j) /\ k.kind = j.kind /\ k.end = j.end /\ k.current = j.current
        /\ k.latest = j.latest /\ k.finalized = j.finalized /\ k.block = j.block /\ k.requested = j.requested
    BY <1>1 DEF Job
  <2>2. Goto(th, "backfill", k)
    BY <1>4 DEF NextBatch, Resume
  <2>3. k.from - 1 = To(j)
    BY <1>1, <1>2, <1>4, <2>1
  <2> HIDE DEF k
  <2>4. Asked(th) => Brought(ls, chain, Client.requested, "backfill", k)
    BY <2>3 DEF Brought
  <2>5. k.block # NoBlock => Of(chain, k.block)
    BY <1>1, <2>1 DEF LocalsOf
  <2>6. "backfill" \in Backfilling
    BY DEF Backfilling
  <2> QED
    BY <2>1, <2>2, <2>4, <2>5, <2>6, BatchGoesOn
<1> QED
  BY <1>3, <1>4

LEMMA FilterLogsInRangeCovers ==
    ASSUME TypeInv, FiltersOK, CoverNow, NEW th \in Threads, FilterLogsInRange(th), ~Fault,
           \A bound : ~Spend("incomplete", bound)
    PROVE  CoverNow'
<1> DEFINE j == job[th]
           found == Matching(LogsIn(chain, j.from, To(j)))
<1>1. pc[th] = "backfill" /\ pc[th] \in Backfilling /\ blocks' = blocks /\ Known' = Known
      /\ UNCHANGED <<chain, finalized>>
  BY KnownSame DEF FilterLogsInRange, tables, outside, history, Backfilling
<1>2. /\ j \in Job /\ RowsOf(blocks, chain) /\ LocalsOf(chain, "backfill", j) /\ chain \in Block
      /\ (Asked(th) => Held(Known, chain, Client.requested, j.from - 1) /\ (blind \/ filters))
      /\ j.from \in Int /\ To(j) \in Int /\ Client.requested \in Int /\ Len(chain) \in Nat
  <2>1. /\ j \in Job /\ BatchOK(pc[th], j) /\ WorldOK(blocks, chain, LatestFinalized) /\ Client \in Job
        /\ RowsOf(blocks, chain) /\ LocalsOf(chain, pc[th], j)
        /\ (Asked(th) => Brought(Known, chain, Client.requested, pc[th], j) /\ registered)
    BY <1>1, BatchNow
  <2>2. j.from \in Nat /\ j.size >= 1 /\ j.from <= j.end /\ j.end \in Nat /\ Client.requested \in Nat
    BY <1>1, <2>1, JobNumbers DEF BatchOK
  <2>3. To(j) \in Nat
    BY <2>1, <2>2, ToIs
  <2>4. Asked(th) => blind \/ filters
    BY <1>1, <2>1 DEF FiltersOK, Threads
  <2> QED
    BY <1>1, <2>1, <2>2, <2>3, <2>4, WorldIs DEF Brought
<1>3. PICK got \in SUBSET found :
         /\ got = found
         /\ IF got = {} THEN NextBatch(th, j) ELSE Resume(th, "blocks", [j EXCEPT !.logs = got])
  <2> HIDE DEF found, j
  <2>1. \E got \in SUBSET found :
            /\ IF got = found THEN UNCHANGED used ELSE Spend("incomplete", MaxIncomplete)
            /\ IF got = {} THEN NextBatch(th, j) ELSE Resume(th, "blocks", [j EXCEPT !.logs = got])
    BY DEF FilterLogsInRange, found, j
  <2> QED
    BY <2>1
<1>4. /\ \A l \in found : Of(chain, l)
      /\ IF filters THEN found = LogsIn(chain, j.from, To(j)) ELSE found = {}
  <2>1. \A l \in LogsIn(chain, j.from, To(j)) : Of(chain, l)
    <3> DEFINE a == j.from
               b == To(j)
    <3>1. a \in Int /\ b \in Int
      BY <1>2
    <3> HIDE DEF a, b, j
    <3>2. \A l \in LogsIn(chain, a, b) : \E n \in 1..Len(chain) : l = At(chain, n)
      BY <1>2, <3>1, LogsInAre
    <3> QED
      BY <1>2, <3>2, OfChain DEF a, b
  <2> HIDE DEF j
  <2> QED
    BY <1>2, <2>1 DEF Matching
<1>5. CASE got = {}
  <2>1. Asked(th) => Held(Known, chain, Client.requested, To(j))
    <3> SUFFICES ASSUME Asked(th), ~blind PROVE Held(Known, chain, Client.requested, To(j))
      BY <1>2, KnownBlind
    <3> DEFINE mid == j.from
               to == To(j)
               q == Client.requested
    <3>1. Held(Known, chain, q, mid - 1) /\ LogsIn(chain, mid, to) \subseteq {}
      BY <1>2, <1>3, <1>4, <1>5
    <3>2. mid \in Int /\ to \in Int /\ q \in Int
      BY <1>2
    <3> HIDE DEF mid, to, q, j
    <3>3. Held(Known \cup {}, chain, q, to)
      BY <1>2, <3>1, <3>2, HeldJoin
    <3>4. Known \cup {} = Known
      OBVIOUS
    <3> QED
      BY <3>3, <3>4 DEF q, to
  <2>2. NextBatch(th, job[th])
    BY <1>3, <1>5
  <2> HIDE DEF j
  <2>3. Asked(th) => Held(Known, chain, Client.requested, To(job[th]))
    BY <2>1 DEF j
  <2> QED
    BY <1>1, <1>2, <2>2, <2>3, NextBatchCovers
<1>6. CASE got # {}
  <2> DEFINE k == [j EXCEPT !.logs = got]
  <2>1. /\ k.logs = got /\ k.from = j.from /\ k.size = j.size /\ k.kind = j.kind /\ k.end = j.end
        /\ k.current = j.current /\ k.latest = j.latest /\ k.finalized = j.finalized /\ k.block = j.block
        /\ k.requested = j.requested
    BY <1>2 DEF Job
  <2>2. Goto(th, "blocks", k)
    BY <1>3, <1>6 DEF Resume
  <2> HIDE DEF k, found
  <2>3. To(k) = To(j) /\ k.logs = LogsIn(chain, j.from, To(j))
    BY <1>3, <1>4, <1>6, <2>1 DEF To
  <2>4. (k.block # NoBlock => Of(chain, k.block)) /\ \A l \in k.logs : Of(chain, l)
    BY <1>2, <1>3, <1>4, <2>1 DEF LocalsOf
  <2> HIDE DEF j
  <2>5. Asked(th) => Brought(Known, chain, Client.requested, "blocks", k)
    BY <1>2, <2>1, <2>3 DEF Brought, Backfilling
  <2>6. "blocks" \in Backfilling
    BY DEF Backfilling
  <2> QED
    BY <1>1, <1>2, <2>1, <2>2, <2>4, <2>5, <2>6, BatchGoesOn DEF j
<1> QED
  BY <1>5, <1>6

(* The reference block of the finality check is a block of the chain, and no later than it. *)
LEMMA ReferenceCovers ==
    ASSUME TypeInv, CoverNow
    PROVE  ~(ChainReference > Len(chain))
           /\ ~(ChainReference > 0 /\ At(chain, ChainReference) # blocks[ChainReference].hash)
<1> DEFINE final == {n \in Saved : n <= LatestRow.finalized}
<1>1. WorldOK(blocks, chain, LatestFinalized) /\ RowsOf(blocks, chain) /\ SavedIn(blocks) = Saved
  BY CoverWorld, WorldNow
<1>2. Len(chain) \in Nat
  BY <1>1, WorldIs
<1>3. CASE final = {}
  BY <1>2, <1>3 DEF ChainReference
<1>4. CASE final # {}
  <2>1. final \subseteq 0..MaxHeight /\ MaxHeight \in Nat
    BY <1>1, WorldIs
  <2>2. ChainReference \in final
    <3> HIDE DEF final
    <3>1. ChainReference = Max(final)
      BY <1>4 DEF ChainReference, final
    <3> QED
      BY <1>4, <2>1, <3>1, MaxIs
  <2>3. ChainReference \in SavedIn(blocks)
    BY <1>1, <2>2
  <2> DEFINE n == ChainReference
  <2> HIDE DEF n, final
  <2>4. n \in Nat /\ Len(blocks[n].hash) = n /\ Of(chain, blocks[n].hash)
    BY <1>1, <2>3, WorldIs DEF RowsOf, n
  <2> QED
    BY <1>2, <2>4 DEF Of, n
<1> QED
  BY <1>3, <1>4

LEMMA BlocksFromFinalizedLogsCovers ==
    ASSUME TypeInv, CoverNow, NEW th \in Threads, BlocksFromFinalizedLogs(th), ~Fault
    PROVE  CoverNow'
<1> DEFINE j == job[th]
           numbers == {Len(l) : l \in j.logs} \cup {To(j)}
           missing == numbers \ Saved
           found == [n \in numbers |-> IF n \in missing THEN At(chain, n) ELSE blocks[n].hash]
           otherChain == /\ ChainReference > 0
                         /\ At(chain, ChainReference) # blocks[ChainReference].hash
           late == \E n \in missing : n > finalized
           wrong == \E l \in j.logs : l # found[Len(l)]
           k == [j EXCEPT !.block = found[To(j)]]
<1>1. pc[th] = "blocks" /\ pc[th] \in Backfilling /\ blocks' = blocks /\ Known' = Known
      /\ UNCHANGED <<chain, finalized>>
  BY KnownSame DEF BlocksFromFinalizedLogs, tables, outside, history, Backfilling
<1>2. /\ j \in Job /\ WorldOK(blocks, chain, LatestFinalized) /\ RowsOf(blocks, chain)
      /\ BatchOK("blocks", j) /\ LocalsOf(chain, "blocks", j)
      /\ (Asked(th) => Brought(Known, chain, Client.requested, "blocks", j))
  BY <1>1, BatchNow
<1>3. /\ chain \in Block /\ Len(chain) \in Nat /\ j.end <= Len(chain) /\ j.end \in Nat /\ To(j) \in Nat
      /\ To(j) \in 1..Len(chain) /\ To(j) <= j.end
  <2>1. j.size >= 1 /\ j.from <= j.end /\ j.from \in Nat /\ j.end \in Nat /\ To(j) >= 1 /\ j.end <= Len(chain)
    BY <1>2, JobNumbers DEF BatchOK, LocalsOf, Backfilling
  <2>2. To(j) \in j.from..j.end /\ To(j) \in Nat
    BY <1>2, <2>1, ToIs
  <2>3. chain \in Block /\ Len(chain) \in Nat
    BY <1>2, WorldIs
  <2> QED
    BY <2>1, <2>2, <2>3
<1>4. \A l \in j.logs : Of(chain, l) /\ Len(l) \in 1..Len(chain) /\ Len(l) <= To(j) /\ l = At(chain, Len(l))
  <2>1. \A l \in j.logs : Of(chain, l) /\ Len(l) \in j.from..To(j)
    BY <1>2 DEF LocalsOf, BatchOK, Backfilling
  <2>2. \A l \in j.logs : Len(l) \in Nat /\ Len(l) >= 1
    BY <2>1, BlockIsSeq DEF Of
  <2>3. j.from \in Nat
    BY <1>2, JobNumbers
  <2> HIDE DEF j
  <2> QED
    BY <1>3, <2>1, <2>2, <2>3 DEF Of
<1>5. \A n \in numbers : n \in 1..Len(chain) /\ n <= To(j) /\ found[n] = At(chain, n) /\ Of(chain, found[n])
  <2> SUFFICES ASSUME NEW n \in numbers
               PROVE  n \in 1..Len(chain) /\ n <= To(j) /\ found[n] = At(chain, n) /\ Of(chain, found[n])
    OBVIOUS
  <2>1. n \in 1..Len(chain) /\ n <= To(j)
    BY <1>3, <1>4
  <2>2. Of(chain, At(chain, n))
    BY <1>3, <2>1, OfChain
  <2>3. CASE n \in missing
    BY <2>1, <2>2, <2>3
  <2>4. CASE n \notin missing
    <3>1. found[n] = blocks[n].hash /\ n \in Saved
      BY <2>4
    <3>2. n \in SavedIn(blocks)
      BY <3>1, WorldNow
    <3>3. Of(chain, blocks[n].hash) /\ Len(blocks[n].hash) = n
      BY <1>2, <3>2, WorldIs DEF RowsOf
    <3> QED
      BY <2>1, <3>1, <3>3 DEF Of
  <2> QED
    BY <2>3, <2>4
<1>6. ~wrong
  <2> SUFFICES ASSUME NEW l \in j.logs PROVE l = found[Len(l)]
    OBVIOUS
  <2>1. Len(l) \in numbers
    OBVIOUS
  <2> HIDE DEF numbers, found, j
  <2> QED
    BY <1>4, <1>5, <2>1
<1>7. ~otherChain /\ ~(ChainReference > Len(chain))
  BY ReferenceCovers
<1>8. \/ Return(th, "error") /\ late
      \/ Goto(th, "save", k)
  <2>1. IF missing # {} /\ ChainReference > Len(chain) THEN Return(th, "error")
        ELSE IF missing # {} /\ otherChain THEN Return(th, "violated")
        ELSE IF late THEN Return(th, "error")
        ELSE IF wrong THEN Return(th, "violated")
        ELSE Resume(th, "save", k)
    BY DEF BlocksFromFinalizedLogs
  <2> HIDE DEF missing, otherChain, late, wrong, k
  <2> QED
    BY <1>6, <1>7, <2>1 DEF Resume
<1>9. CASE Return(th, "error") /\ late
  <2>1. CASE th = "client"
    <3>1. pc["client"] # "waiting"
      BY <1>1, <2>1
    <3> QED
      BY <1>1, <1>2, <1>9, <2>1, <3>1, CoverClientReturns
  <2>2. CASE th = "run"
    <3>1. pc["client"] # "waiting"
      <4> SUFFICES ASSUME pc["client"] = "waiting" PROVE FALSE
        OBVIOUS
      <4>1. j.kind = "replayed" /\ RunOK("blocks", j) /\ PollOf(chain, LatestFinalized, "blocks", j)
        BY <1>1, <2>2, BatchNow DEF Asked
      <4>2. j.end + 1 = j.finalized /\ j.finalized <= LatestFinalized /\ j.finalized \in Nat
        BY <1>2, <4>1, JobNumbers DEF RunOK, Backfilling, Polling, PollOf, Polls
      <4>3. finalized \in Nat /\ LatestFinalized \in Nat
            /\ (LatestFinalized = finalized \/ LatestFinalized = 1)
        BY BlockIsSeq DEF LatestFinalized, Larger, TypeInv, OutsideOK
      <4>4. To(j) <= finalized
        <5> DEFINE t == To(j)
        <5>1. t \in Nat /\ t >= 1 /\ t <= j.end
          BY <1>3
        <5> HIDE DEF t, j
        <5>2. t <= finalized
          BY <1>3, <4>2, <4>3, <5>1
        <5> QED
          BY <5>2 DEF t
      <4>5. PICK n \in missing : n > finalized
        BY <1>9
      <4>6. n <= To(j) /\ n \in Nat
        <5>1. n \in numbers
          BY <4>5
        <5> HIDE DEF numbers, j
        <5>2. n <= To(j) /\ n \in 1..Len(chain)
          BY <1>5, <5>1
        <5> QED
          BY <1>3, <5>2
      <4> QED
        BY <1>3, <4>3, <4>4, <4>5, <4>6
    <3> HIDE DEF late
    <3> QED
      BY <1>1, <1>2, <1>9, <2>2, <3>1, CoverReturns
  <2> QED
    BY <2>1, <2>2 DEF Threads
<1>10. CASE Goto(th, "save", k)
  <2>1. Of(chain, found[To(j)])
    <3>1. To(j) \in numbers
      OBVIOUS
    <3> HIDE DEF numbers, found, j
    <3> QED
      BY <1>5, <3>1
  <2>2. /\ k.block = found[To(j)] /\ k.from = j.from /\ k.size = j.size /\ k.kind = j.kind /\ k.end = j.end
        /\ k.current = j.current /\ k.latest = j.latest /\ k.finalized = j.finalized
        /\ k.requested = j.requested /\ k.logs = j.logs
    BY <1>2 DEF Job
  <2> HIDE DEF k, found, numbers, missing
  <2>3. To(k) = To(j)
    BY <2>2 DEF To
  <2>4. Asked(th) => Brought(Known, chain, Client.requested, "save", k)
    BY <1>2, <2>2, <2>3 DEF Brought, Backfilling
  <2>5. Of(chain, k.block) /\ \A l \in k.logs : Of(chain, l)
    BY <1>4, <2>1, <2>2
  <2>6. "save" \in Backfilling
    BY DEF Backfilling
  <2> QED
    BY <1>1, <1>2, <1>10, <2>2, <2>4, <2>5, <2>6, BatchGoesOn
<1> QED
  BY <1>8, <1>9, <1>10

LEMMA SaveBatchCovers ==
    ASSUME TypeInv, CoverNow, NEW th \in Threads, SaveBatch(th), ~Fault
    PROVE  CoverNow'
<1> DEFINE j == job[th]
           b == j.block
           c == Len(b)
           rows == blocks'
           ls == Known \cup j.logs
<1>1. pc[th] = "save" /\ pc[th] \in Backfilling /\ UNCHANGED <<chain, finalized>>
  BY DEF SaveBatch, outside, Backfilling
<1>2. rows = WithBlock(b, c) /\ logs' = logs \cup j.logs /\ blind' = blind /\ NextBatch(th, j)
  BY DEF SaveBatch, history
<1>3. /\ j \in Job /\ WorldOK(blocks, chain, LatestFinalized) /\ RowsOf(blocks, chain) /\ chain \in Block
      /\ Of(chain, b) /\ Client.requested \in Int /\ j.from \in Int /\ To(j) \in Int
      /\ (Asked(th) => /\ Held(Known, chain, Client.requested, j.from - 1)
                       /\ LogsIn(chain, j.from, To(j)) \subseteq j.logs)
  <2>1. /\ j \in Job /\ BatchOK(pc[th], j) /\ WorldOK(blocks, chain, LatestFinalized) /\ Client \in Job
        /\ RowsOf(blocks, chain) /\ LocalsOf(chain, pc[th], j)
        /\ (Asked(th) => Brought(Known, chain, Client.requested, pc[th], j))
    BY <1>1, BatchNow
  <2>2. /\ j.from \in Nat /\ j.size >= 1 /\ j.from <= j.end /\ j.end \in Nat /\ Client.requested \in Nat
        /\ b # NoBlock
    BY <1>1, <2>1, JobNumbers DEF BatchOK
  <2>3. To(j) \in Nat
    BY <2>1, <2>2, ToIs
  <2> QED
    BY <1>1, <2>1, <2>2, <2>3, WorldIs DEF Brought, LocalsOf
<1>4. RowsOf(rows, chain)
  <2>1. c \in Nat /\ c <= Len(chain) /\ 1 <= c /\ c <= MaxHeight
    <3> HIDE DEF b
    <3> QED
      BY <1>3, BlockIsSeq DEF Of
  <2>2. rows = WithRow(blocks, b, c) /\ c \in Heights
    BY <1>2, <2>1, HeightsAreNats DEF WithBlock, WithRow
  <2> HIDE DEF rows, b
  <2> QED
    BY <1>3, <2>1, <2>2, RowsOfWith
<1>5. Asked(th) => Held(ls, chain, Client.requested, To(j))
  <2> SUFFICES ASSUME Asked(th) PROVE Held(ls, chain, Client.requested, To(j))
    OBVIOUS
  <2> DEFINE mid == j.from
             to == To(j)
             q == Client.requested
             got == j.logs
  <2>1. Held(Known, chain, q, mid - 1) /\ LogsIn(chain, mid, to) \subseteq got
    BY <1>3
  <2>2. mid \in Int /\ to \in Int /\ q \in Int
    BY <1>3
  <2> HIDE DEF mid, to, q, got, j
  <2>3. Held(Known \cup got, chain, q, to)
    BY <1>3, <2>1, <2>2, HeldJoin
  <2> QED
    BY <2>3 DEF q, to, got
<1>6. Known \subseteq ls /\ Known' = ls /\ blocks' = rows /\ NextBatch(th, job[th])
  BY <1>2, <1>3, KnownGrows DEF Job
<1> HIDE DEF ls, rows, b
<1>7. Asked(th) => Held(ls, chain, Client.requested, To(job[th]))
  BY <1>5
<1> HIDE DEF j
<1> QED
  BY <1>1, <1>4, <1>6, <1>7, NextBatchCovers

----------------------------------------------------------------------------
(* A replay: the backup poller and the client. *)

LEMMA BackupCovers ==
    ASSUME TypeInv, CoverNow, BackupPollAndSaveLogs
    PROVE  CoverNow'
<1> DEFINE start == IF backupPollerNextBlock # 0 THEN backupPollerNextBlock ELSE BackupStart
           k == [[NoJob EXCEPT !.kind = "backup"] EXCEPT
                    !.from = start, !.end = LatestFinalized - 1, !.size = BackfillBatchSize]
<1>1. pc["run"] = "idle" /\ blocks' = blocks /\ Known' = Known /\ UNCHANGED <<tables, chain, finalized, blind>>
  BY KnownSame DEF BackupPollAndSaveLogs, tables, outside
<1>2. pc["client"] # "waiting" /\ RowsOf(blocks, chain) /\ LatestFinalized \in Nat /\ Len(chain) \in Nat
      /\ LatestFinalized <= Len(chain)
  BY <1>1, CoverWorld DEF Waits
<1>3. CASE Backfill("run", [NoJob EXCEPT !.kind = "backup"], start, LatestFinalized - 1)
  <2>1. Goto("run", "backfill", k)
    BY <1>3 DEF Backfill
  <2>2. k.block = NoBlock /\ k.end = LatestFinalized - 1 /\ k.kind = "backup"
    BY DEF NoJob
  <2> HIDE DEF k
  <2>3. LocalsOf(chain, "backfill", k) /\ PollOf(chain, LatestFinalized, "backfill", k)
    BY <1>2, <2>2 DEF LocalsOf, PollOf, Polling, Polls, Fetching
  <2> QED
    BY <1>1, <1>2, <2>1, <2>3, CoverGoes
<1>4. CASE UNCHANGED <<pc, job>>
  BY <1>1, <1>4, CoverStays
<1> QED
  BY <1>3, <1>4 DEF BackupPollAndSaveLogs

LEMMA ReplayStartsCovers ==
    ASSUME TypeInv, CoverNow, Replay
    PROVE  CoverNow'
<1> DEFINE ls == Known'
           saved == IF Saved = {} THEN 0 ELSE LatestRow.finalized
           k(q) == [NoJob EXCEPT !.kind = "replay", !.requested = q, !.latest = Len(chain),
                                 !.current = Larger(q, saved + 1)]
<1>1. pc["client"] = "idle" /\ blocks' = blocks /\ UNCHANGED <<chain, finalized>>
  BY DEF Replay, tables, outside
<1>2. chain \in Block /\ RowsOf(blocks, chain) /\ Len(chain) \in Nat /\ saved \in Nat /\ saved <= Len(chain)
  <2>1. WorldOK(blocks, chain, LatestFinalized) /\ SavedIn(blocks) = Saved /\ RowsOf(blocks, chain)
        /\ LastOf(blocks) = LatestNumber /\ blocks[LastOf(blocks)] = LatestRow
    BY CoverWorld, WorldNow
  <2>2. chain \in Block /\ Len(chain) \in Nat /\ (Saved # {} => LatestNumber \in SavedIn(blocks))
    BY <2>1, WorldIs
  <2>3. CASE Saved # {}
    <3>1. LatestRow.finalized <= Len(chain) /\ LatestRow.finalized \in Nat
      BY <2>1, <2>2, <2>3, SavedRowIs, LatestRowIs DEF RowsOf
    <3> QED
      BY <2>1, <2>2, <2>3, <3>1
  <2> QED
    BY <2>1, <2>2, <2>3
<1>3. PICK q \in 1..Len(chain) :
         IF q <= saved THEN Backfill("client", k(q), q, saved) ELSE Goto("client", "handoff", k(q))
  <2> HIDE DEF saved, k
  <2>1. \E q \in 1..Len(chain) :
         IF q <= saved THEN Backfill("client", k(q), q, saved) ELSE Goto("client", "handoff", k(q))
    BY Zenon DEF Replay, saved, k
  <2> QED
    BY <2>1
<1>4. /\ k(q).latest = Len(chain) /\ k(q).current = Larger(q, saved + 1) /\ k(q).requested = q
      /\ k(q).block = NoBlock
  BY DEF NoJob
<1> DEFINE kq == k(q)
<1> HIDE DEF saved, ls
<1>5. q \in Int /\ q - 1 \in Int /\ q - 1 < q
  BY <1>2
<1>6. \A to \in Int : to < q => Held(ls, chain, q, to)
  BY <1>2, <1>5, HeldNone
<1>7. CASE q <= saved
  <2> DEFINE m == [kq EXCEPT !.from = q, !.end = saved, !.size = BackfillBatchSize]
  <2>1. Goto("client", "backfill", m)
    BY <1>3, <1>7 DEF Backfill
  <2>2. /\ m.from = q /\ m.end = saved /\ m.latest = Len(chain) /\ m.current = saved + 1 /\ m.requested = q
        /\ m.block = NoBlock
    BY <1>2, <1>4, <1>5, <1>7 DEF NoJob, Larger
  <2> HIDE DEF m
  <2>3. Held(ls, chain, q, m.from - 1)
    BY <1>5, <1>6, <2>2
  <2>4. ClientCovers(ls, chain, "backfill", m) /\ LocalsOf(chain, "backfill", m)
    BY <1>2, <2>2, <2>3 DEF ClientCovers, Brought, LocalsOf
  <2> QED
    BY <1>1, <1>2, <2>1, <2>4, CoverClientGoes DEF ls
<1>8. CASE ~(q <= saved)
  <2>1. Goto("client", "handoff", kq)
    BY <1>3, <1>8
  <2>2. kq.latest = Len(chain) /\ kq.current = q /\ kq.requested = q /\ kq.block = NoBlock
    BY <1>2, <1>4, <1>5, <1>8 DEF Larger
  <2> HIDE DEF kq
  <2>3. Held(ls, chain, q, kq.current - 1)
    BY <1>5, <1>6, <2>2
  <2>4. ClientCovers(ls, chain, "handoff", kq) /\ LocalsOf(chain, "handoff", kq)
    BY <1>2, <2>2, <2>3 DEF ClientCovers, Brought, LocalsOf, Backfilling
  <2> QED
    BY <1>1, <1>2, <2>1, <2>4, CoverClientGoes DEF ls
<1> QED
  BY <1>7, <1>8

LEMMA HandleReplayRequestCovers ==
    ASSUME TypeInv, CoverNow, HandleReplayRequest, ~Fault
    PROVE  CoverNow'
<1> DEFINE from == ReplayFrom(Client.current)
           k == [NoJob EXCEPT !.kind = "replayed", !.current = from]
           c == Client
<1>1. pc["run"] = "idle" /\ pc["client"] = "handoff" /\ blocks' = blocks /\ Known' = Known
      /\ UNCHANGED <<chain, finalized>>
  BY KnownSame DEF HandleReplayRequest, tables
<1>2. pc' = [pc EXCEPT !["run"] = "latest", !["client"] = "waiting"] /\ job' = [job EXCEPT !["run"] = k]
  BY DEF HandleReplayRequest, Client
<1>3. pc'["run"] = "latest" /\ pc'["client"] = "waiting" /\ job'["run"] = k /\ job'["client"] = Client
  BY <1>2 DEF TypeInv, PollerOK, Threads, Client
<1>4. /\ ClientCovers(Known, chain, "handoff", c) /\ RowsOf(blocks, chain) /\ LocalsOf(chain, "handoff", c)
      /\ c.current \in Nat /\ c.current >= 1 /\ c.current <= c.latest /\ c.requested \in Nat
      /\ c.latest \in Nat /\ chain \in Block /\ c.latest <= Len(chain)
  BY <1>1, CoverWorld, JobNumbers DEF CoverNow, ClientOK, ClientCovers
<1>5. from \in Nat /\ from <= c.current
  BY <1>4, ReplayFromIs
<1>6. k.kind = "replayed" /\ k.current = from /\ k.block = NoBlock
  BY DEF NoJob
<1> HIDE DEF k, from
<1>7. Held(Known, chain, c.requested, from - 1)
  <2> DEFINE q == c.requested
             to == c.current - 1
  <2>1. Held(Known, chain, q, to)
    BY <1>4 DEF ClientCovers, Brought
  <2>2. q \in Int /\ to \in Int /\ from - 1 \in Int /\ from - 1 <= to
    BY <1>4, <1>5
  <2> HIDE DEF q, to, c
  <2>3. Held(Known, chain, q, from - 1)
    BY <1>4, <2>1, <2>2, HeldLess
  <2> QED
    BY <2>3 DEF q
<1>8. Waits(Known, chain, "waiting", c, "latest", k)
  <2>1. k.current <= c.latest
    BY <1>4, <1>5, <1>6
  <2> QED
    BY <1>6, <1>7, <2>1 DEF Waits, Brought, Backfilling
<1>9. ClientCovers(Known, chain, "waiting", c) /\ LocalsOf(chain, "waiting", c)
  BY <1>4 DEF ClientCovers, Brought, LocalsOf, Backfilling
<1>10. LocalsOf(chain, "latest", k) /\ \A fin : PollOf(chain, fin, "latest", k)
  BY <1>6 DEF LocalsOf, PollOf, Polling, Backfilling, Fetching
<1> HIDE DEF c
<1> QED
  BY <1>1, <1>3, <1>4, <1>8, <1>9, <1>10 DEF CoverNow, Run, Client, c

LEMMA ReplayCompleteCovers ==
    ASSUME TypeInv, CoverNow, ReplayComplete
    PROVE  CoverNow'
<1>1. blocks' = blocks /\ Known' = Known /\ UNCHANGED <<chain, finalized>> /\ Goto("client", "idle", NoJob)
      /\ RowsOf(blocks, chain)
  BY KnownSame DEF ReplayComplete, tables, outside, history, Resume, CoverNow
<1> QED
  BY <1>1, RestCovers, CoverClientGoes

LEMMA PruneCovers ==
    ASSUME TypeInv, CoverNow, PruneOldBlocks
    PROVE  CoverNow'
<1>1. Known' = Known /\ UNCHANGED <<pc, job, chain, finalized>>
  BY KnownSame DEF PruneOldBlocks, poller, outside, history
<1>2. PICK n \in Saved : blocks' = [k \in Heights |-> IF k <= n THEN NoRow ELSE blocks[k]]
  BY DEF PruneOldBlocks
<1>3. RowsOf(blocks', chain)
  BY <1>2 DEF RowsOf, SavedIn, CoverNow
<1>4. LatestFinalized' = LatestFinalized
  BY <1>1 DEF LatestFinalized
<1> QED
  BY <1>1, <1>3, <1>4 DEF CoverNow, Run, Client

LEMMA RestartCovers ==
    ASSUME CoverNow, Restart
    PROVE  CoverNow'
<1>1. /\ pc'["run"] = "idle" /\ pc'["client"] = "idle" /\ job'["run"] = NoJob /\ job'["client"] = NoJob
      /\ blocks' = blocks /\ Known' = Known /\ chain' = chain /\ RowsOf(blocks, chain)
  BY KnownSame DEF Restart, Threads, tables, history, CoverNow
<1> QED
  BY <1>1, RestCovers DEF CoverNow, Run, Client

(* The chain grows. *)
LEMMA GrowsCovers ==
    ASSUME NEW ch \in Block, NEW ch2 \in Block, Len(ch) <= Len(ch2), At(ch2, Len(ch)) = ch
    PROVE  /\ \A b : Of(ch, b) => Of(ch2, b)
           /\ \A rows, fin : WorldOK(rows, ch, fin) /\ RowsOf(rows, ch) => RowsOf(rows, ch2)
           /\ \A ls : \A q, to \in Int : to <= Len(ch) /\ Held(ls, ch, q, to) => Held(ls, ch2, q, to)
<1>1. Len(ch) \in Nat /\ Len(ch2) \in Nat /\ At(ch, Len(ch)) = ch
  BY BlockIsSeq, AtSelf
<1>2. ASSUME NEW b, Of(ch, b)
      PROVE  Of(ch2, b)
  <2>1. b \in Block /\ Len(b) \in 1..Len(ch) /\ b = At(ch, Len(b))
    BY <1>1, <1>2, BlockIsSeq DEF Of
  <2>2. At(ch, Len(b)) = At(ch2, Len(b))
    <3>1. Len(ch) \in 0..Len(ch) /\ Len(b) \in 0..Len(ch)
      BY <1>1, <2>1
    <3> QED
      BY <1>1, <3>1, AtMonotonic
  <2> QED
    BY <1>1, <2>1, <2>2 DEF Of
<1>3. ASSUME NEW rows, NEW fin, WorldOK(rows, ch, fin), RowsOf(rows, ch)
      PROVE  RowsOf(rows, ch2)
  <2> SUFFICES ASSUME NEW n \in SavedIn(rows)
               PROVE  Of(ch2, rows[n].hash) /\ rows[n].finalized <= Len(ch2)
    BY DEF RowsOf
  <2>1. Of(ch, rows[n].hash) /\ rows[n].finalized <= Len(ch)
    BY <1>3 DEF RowsOf
  <2>2. rows[n].finalized \in Nat
    BY <1>3, HeightsAreNats DEF WorldOK, SavedIn, Row
  <2> QED
    BY <1>1, <1>2, <2>1, <2>2
<1>4. ASSUME NEW ls, NEW q \in Int, NEW to \in Int, to <= Len(ch), Held(ls, ch, q, to)
      PROVE  Held(ls, ch2, q, to)
  <2>1. Len(ch) <= Len(ch) /\ At(ch, Len(ch)) = At(ch2, Len(ch))
    BY <1>1
  <2> QED
    BY <1>1, <1>4, <2>1, HeldSame
<1> QED
  BY <1>2, <1>3, <1>4

LEMMA GrowsBrought ==
    ASSUME NEW ch \in Block, NEW ch2 \in Block, Len(ch) <= Len(ch2), At(ch2, Len(ch)) = ch,
           NEW ls, NEW q \in Nat, NEW j \in Job, NEW label, Brought(ls, ch, q, label, j), BatchOK(label, j),
           label \in Backfilling => j.end <= Len(ch),
           label \in {"handoff", "latest", "current", "logs", "insert"} => j.current <= Len(ch),
           label = "replayed" => j.latest <= Len(ch)
    PROVE  Brought(ls, ch2, q, label, j)
<1>1. Len(ch) \in Nat /\ q \in Int
  BY BlockIsSeq
<1>2. j.from \in Nat /\ j.end \in Nat /\ j.current \in Nat /\ j.latest \in Nat
  BY JobNumbers
<1>3. \A ls2 : \A f, to \in Int : to <= Len(ch) /\ Held(ls2, ch, f, to) => Held(ls2, ch2, f, to)
  BY GrowsCovers
<1>4. label \in Backfilling => Held(ls, ch2, q, j.from - 1)
  <2> SUFFICES ASSUME label \in Backfilling PROVE Held(ls, ch2, q, j.from - 1)
    OBVIOUS
  <2> DEFINE t == j.from - 1
  <2>1. Held(ls, ch, q, t) /\ j.from <= j.end /\ j.end <= Len(ch)
    BY DEF Brought, BatchOK
  <2>2. t \in Int /\ t <= Len(ch)
    BY <1>1, <1>2, <2>1
  <2> HIDE DEF t
  <2>3. Held(ls, ch2, q, t)
    BY <1>1, <1>3, <2>1, <2>2
  <2> QED
    BY <2>3 DEF t
<1>5. label \in {"blocks", "save"} => LogsIn(ch2, j.from, To(j)) \subseteq j.logs
  <2> SUFFICES ASSUME label \in {"blocks", "save"} PROVE LogsIn(ch2, j.from, To(j)) \subseteq j.logs
    OBVIOUS
  <2> DEFINE t == To(j)
             f == j.from
             got == j.logs
  <2>1. label \in Backfilling /\ j.size >= 1 /\ j.from <= j.end /\ j.end <= Len(ch)
    BY DEF BatchOK, Backfilling
  <2>2. t \in j.from..j.end /\ t \in Nat
    BY <2>1, ToIs
  <2>3. Held(got, ch, f, t) /\ f \in Int /\ t \in Int /\ t <= Len(ch)
    BY <1>1, <1>2, <2>1, <2>2 DEF Brought, Held
  <2> HIDE DEF t, f, got
  <2>4. Held(got, ch2, f, t)
    BY <1>3, <2>3
  <2> QED
    BY <2>4 DEF Held, t, f, got
<1>6. label \in {"handoff", "latest", "current", "logs", "insert"} => Held(ls, ch2, q, j.current - 1)
  <2> SUFFICES ASSUME label \in {"handoff", "latest", "current", "logs", "insert"}
               PROVE  Held(ls, ch2, q, j.current - 1)
    OBVIOUS
  <2> DEFINE t == j.current - 1
  <2>1. Held(ls, ch, q, t)
    BY DEF Brought
  <2>2. t \in Int /\ t <= Len(ch)
    BY <1>1, <1>2
  <2> HIDE DEF t
  <2>3. Held(ls, ch2, q, t)
    BY <1>1, <1>3, <2>1, <2>2
  <2> QED
    BY <2>3 DEF t
<1>7. label = "replayed" => Held(ls, ch2, q, j.latest)
  <2> SUFFICES ASSUME label = "replayed" PROVE Held(ls, ch2, q, j.latest)
    OBVIOUS
  <2> DEFINE t == j.latest
  <2>1. Held(ls, ch, q, t) /\ t \in Int /\ t <= Len(ch)
    BY <1>2 DEF Brought
  <2> HIDE DEF t
  <2>2. Held(ls, ch2, q, t)
    BY <1>1, <1>3, <2>1
  <2> QED
    BY <2>2 DEF t
<1> QED
  BY <1>4, <1>5, <1>6, <1>7 DEF Brought

LEMMA NodeCovers ==
    ASSUME TypeInv, CoverNow, Node,
           \A bound : ~Spend("reorgs", bound) /\ ~Spend("deep", bound)
    PROVE  CoverNow'
<1> SUFFICES ASSUME NEW ch2, chain' = ch2 PROVE CoverNow'
  OBVIOUS
<1> DEFINE ch == chain
           c == Client
           j == Run
           label == pc["run"]
           clientLabel == pc["client"]
<1>1. UNCHANGED <<tables, poller, history>> /\ ch2 \in Block /\ (Mine \/ Finalize)
  BY NodeIs DEF Node, Reorg, DeepReorg
<1>2. /\ WorldOK(blocks, ch, LatestFinalized) /\ ch \in Block /\ Len(ch) \in Nat /\ LatestFinalized \in Nat
      /\ j \in Job /\ RunOK(label, j) /\ BatchOK(label, j) /\ c \in Job /\ BatchOK(clientLabel, c)
      /\ ClientOK(clientLabel, c) /\ finalized \in Nat
  BY CoverWorld, LatestFinalizedIs
<1>3. Len(ch) <= Len(ch2) /\ At(ch2, Len(ch)) = ch /\ LatestFinalized <= LatestFinalized' /\ Len(ch2) \in Nat
      /\ LatestFinalized' \in Nat
  <2>1. Len(ch2) \in Nat /\ Len(ch) \in 0..Len(ch) /\ At(ch, Len(ch)) = ch
    BY <1>1, <1>2, BlockIsSeq, AtSelf
  <2>2. CASE Mine
    <3>1. PICK v \in Versions : ch2 = Append(ch, v) /\ Len(ch) < MaxHeight
      BY <2>2 DEF Mine
    <3>2. LatestFinalized' = LatestFinalized
      BY <2>2 DEF Mine, LatestFinalized
    <3> HIDE DEF ch
    <3> QED
      BY <1>2, <2>1, <3>1, <3>2, AppendToBlock
  <2>3. CASE Finalize
    <3>1. ch2 = ch /\ finalized' = finalized + 1
      BY <2>3 DEF Finalize
    <3>2. LatestFinalized <= LatestFinalized' /\ LatestFinalized' \in Nat
      BY <1>2, <3>1 DEF LatestFinalized, Larger
    <3> QED
      BY <1>2, <2>1, <3>1, <3>2
  <2> QED
    BY <1>1, <2>2, <2>3
<1>4. /\ RowsOf(blocks, ch) /\ LocalsOf(ch, clientLabel, c) /\ LocalsOf(ch, label, j)
      /\ PollOf(ch, LatestFinalized, label, j) /\ ClientCovers(Known, ch, clientLabel, c)
      /\ Waits(Known, ch, clientLabel, c, label, j)
  BY DEF CoverNow
<1>5. pc'["client"] = clientLabel /\ pc'["run"] = label /\ job'["client"] = c /\ job'["run"] = j
      /\ blocks' = blocks /\ Known' = Known /\ chain' = ch2
  <2>1. pc' = pc /\ job' = job /\ blocks' = blocks /\ Known' = Known
    BY <1>1, KnownSame DEF poller, tables, history
  <2> QED
    BY <2>1 DEF Client, Run
<1> DEFINE fin2 == LatestFinalized'
<1> HIDE DEF ch, c, j, label, clientLabel, fin2
<1>6. (\A b : Of(ch, b) => Of(ch2, b)) /\ RowsOf(blocks, ch2)
  BY <1>1, <1>2, <1>3, <1>4, GrowsCovers
<1>7. \A lb, k : k \in Job /\ LocalsOf(ch, lb, k) => LocalsOf(ch2, lb, k)
  <2>1. \A k \in Job : k.end \in Nat
    BY JobNumbers
  <2>2. \A k \in Job : k.end <= Len(ch) => k.end <= Len(ch2)
    BY <1>2, <1>3, <2>1
  <2> QED
    BY <1>6, <2>2 DEF LocalsOf
<1>8. PollOf(ch2, fin2, label, j)
  <2>1. j.latest \in Nat /\ j.finalized \in Nat
    BY <1>2, JobNumbers
  <2>2. j.latest <= Len(ch) /\ j.finalized <= LatestFinalized => j.latest <= Len(ch2) /\ j.finalized <= fin2
    BY <1>2, <1>3, <2>1 DEF fin2
  <2> QED
    BY <1>4, <2>2 DEF PollOf
<1>9. ClientCovers(Known, ch2, clientLabel, c)
  <2>1. CASE clientLabel = "idle"
    BY <2>1, <1>4 DEF ClientCovers, Brought, Backfilling
  <2>2. CASE clientLabel # "idle"
    <3>1. c.latest <= Len(ch) /\ c.latest \in Nat /\ c.requested \in Nat /\ c.current \in Nat
          /\ (clientLabel = "handoff" => c.current <= c.latest)
          /\ (clientLabel \in Backfilling => c.end <= Len(ch) /\ c.current = c.end + 1)
          /\ Brought(Known, ch, c.requested, clientLabel, c)
          /\ clientLabel \notin {"latest", "current", "logs", "insert"}
      BY <1>2, <1>4, <2>2, JobNumbers DEF ClientOK, ClientCovers, LocalsOf, Backfilling
    <3>2. c.latest <= Len(ch2) /\ (clientLabel = "handoff" => c.current <= Len(ch))
      BY <1>2, <1>3, <3>1
    <3>3. Brought(Known, ch2, c.requested, clientLabel, c)
      BY <1>1, <1>2, <1>3, <3>1, <3>2, GrowsBrought
    <3> QED
      BY <3>1, <3>2, <3>3 DEF ClientCovers
  <2> QED
    BY <2>1, <2>2
<1>10. Waits(Known, ch2, clientLabel, c, label, j)
  <2> SUFFICES ASSUME clientLabel = "waiting" PROVE Waits(Known, ch2, clientLabel, c, label, j)
    BY DEF Waits
  <2>1. /\ c.latest <= Len(ch) /\ c.latest \in Nat /\ c.requested \in Nat /\ j.current \in Nat /\ j.latest \in Nat
        /\ j.kind = "replayed" /\ label # "idle" /\ (label = "latest" => j.current <= c.latest)
        /\ Brought(Known, ch, c.requested, label, j)
    BY <1>2, <1>4, JobNumbers DEF ClientCovers, Waits
  <2>2. label \in {"handoff", "latest", "current", "logs", "insert"} => j.current <= Len(ch)
    <3>1. CASE label = "latest"
      BY <1>2, <2>1, <3>1
    <3>2. CASE label \in {"current", "logs", "insert"}
      <4>1. j.current \in 1..j.latest /\ j.latest <= Len(ch)
        BY <1>2, <1>4, <3>2 DEF RunOK, PollOf, Polling, Fetching
      <4> QED
        BY <1>2, <2>1, <4>1
    <3> QED
      BY <1>2, <3>1, <3>2 DEF RunOK, Fetching, Backfilling
  <2>3. (label \in Backfilling => j.end <= Len(ch)) /\ label # "replayed"
    BY <1>2, <1>4 DEF LocalsOf, RunOK, Fetching, Backfilling
  <2>4. Brought(Known, ch2, c.requested, label, j)
    BY <1>1, <1>2, <1>3, <2>1, <2>2, <2>3, GrowsBrought
  <2> QED
    BY <1>4, <2>4 DEF Waits
<1>11. LocalsOf(ch2, clientLabel, c) /\ LocalsOf(ch2, label, j)
  BY <1>2, <1>4, <1>7
<1> QED
  BY <1>5, <1>6, <1>8, <1>9, <1>10, <1>11 DEF CoverNow, Run, Client, fin2

LEMMA InitCovers == Init => CoverInv
<1> SUFFICES ASSUME Init PROVE CoverNow
  BY DEF CoverInv
<1>1. /\ pc["run"] = "idle" /\ pc["client"] = "idle" /\ Run = NoJob /\ Client = NoJob
      /\ SavedIn(blocks) = {}
  BY DEF Init, Threads, Run, Client, SavedIn
<1> QED
  BY <1>1, RestCovers DEF CoverNow, RowsOf

LEMMA NextCovers ==
    ASSUME TypeInv, FiltersOK, CoverInv, [Next]_vars
    PROVE  CoverInv'
<1>1. TypeInv'
  BY NextTypes
<1> SUFFICES ASSUME Quiet' PROVE CoverNow'
  BY DEF CoverInv
<1>2. CASE UNCHANGED vars
  <2>1. Quiet
    BY <1>2 DEF Quiet, vars
  <2>2. CoverNow
    BY <2>1 DEF CoverInv
  <2> QED
    BY <1>2, <2>2, CoverStays DEF vars, poller, outside, history
<1>3. CASE Next
  <2>1. Quiet
    BY <1>1, <1>3, QuietBefore
  <2>2. CoverNow
    BY <2>1 DEF CoverInv
  <2>3. ~Fault /\ \A bound : ~Spend("incomplete", bound) /\ ~Spend("reorgs", bound) /\ ~Spend("deep", bound)
    BY <1>1, <2>1, NothingSpent
  <2>4. pc["run"] \notin {"deleteBlocks", "deleteLogs"}
    BY <2>2 DEF CoverNow, LocalsOf
  <2>5. ASSUME NEW th \in Threads, BackfillStep(th)
        PROVE  CoverNow'
    BY <2>2, <2>3, <2>5, FilterLogsInRangeCovers, BlocksFromFinalizedLogsCovers, SaveBatchCovers DEF BackfillStep
  <2>6. CASE PollAndSaveLogs
    <3>1. ~DeleteBlocks /\ ~DeleteLogs
      BY <2>4 DEF DeleteBlocks, DeleteLogs
    <3>2. CASE BackfillStep("run")
      BY <2>5, <3>2 DEF Threads
    <3> QED
      BY <2>2, <2>3, <2>6, <3>1, <3>2, StartPollCovers, LatestBlocksCovers, GetCurrentBlockCovers,
         FilterLogsOfBlockCovers, InsertLogsWithBlockCovers DEF PollAndSaveLogs
  <2>7. CASE BackfillStep("client")
    BY <2>5, <2>7 DEF Threads
  <2>8. CASE BackupPollAndSaveLogs \/ Replay \/ HandleReplayRequest \/ ReplayComplete
    BY <2>2, <2>3, <2>8, BackupCovers, ReplayStartsCovers, HandleReplayRequestCovers, ReplayCompleteCovers
  <2>9. CASE RegisterFilter
    BY <2>2, <2>9, CoverStays DEF RegisterFilter, poller, history
  <2>10. CASE PruneOldBlocks \/ Restart \/ Node
    BY <2>2, <2>3, <2>10, PruneCovers, RestartCovers, NodeCovers
  <2> QED
    BY <1>3, <2>6, <2>7, <2>8, <2>9, <2>10 DEF Next
<1> QED
  BY <1>2, <1>3

(* A client that is told that its replay is complete finds the logs of all blocks it asked
   for, up to the last saved one: between the part that it backfills itself and the poll
   that goes on for it, whatever polls, batches, backup polls, pruning and new blocks
   interleave with them and whatever restarts came before, as long as no call fails, no
   answer is incomplete and no reorg comes in between, and unless the backfill began
   between a restart and the loading of the filters (blind). *)
THEOREM ReplaysAreComplete == Spec => []ReplayCovers
<1>1. TypeInv /\ CoverInv => ReplayCovers
  <2> SUFFICES ASSUME TypeInv, CoverInv, pc["client"] = "replayed", Saved # {}, ~blind, Quiet
               PROVE  LogsIn(LatestRow.hash, Client.requested, Smaller(Client.latest, LatestNumber)) \subseteq logs
    BY DEF ReplayCovers, Covered, Quiet, Client
  <2> DEFINE n == LatestNumber
             b == LatestRow.hash
             to == Smaller(Client.latest, n)
             q == Client.requested
             all == Client.latest
  <2>1. CoverNow
    BY DEF CoverInv
  <2>2. Held(Known, chain, q, all) /\ Known = logs /\ q \in Int /\ all \in Int /\ chain \in Block
    BY <2>1, CoverWorld, JobNumbers DEF CoverNow, ClientCovers, Brought, Known
  <2>3. n \in SavedIn(blocks) /\ b \in Block /\ Len(b) = n /\ n \in Nat /\ blocks[n].hash = b
    BY LatestRowIs, WorldNow
  <2>4. Of(chain, b)
    BY <2>1, <2>3 DEF CoverNow, RowsOf
  <2>5. to \in Int /\ to <= all /\ to <= n
    BY <2>2, <2>3 DEF Smaller
  <2> HIDE DEF n, b, to, q, all
  <2>6. Held(logs, chain, q, to)
    BY <2>2, <2>5, HeldLess
  <2>7. At(b, n) = At(chain, n) /\ n <= Len(chain)
    BY <2>3, <2>4, AtSelf DEF Of
  <2>8. n <= Len(b)
    BY <2>3
  <2>9. Held(logs, b, q, to)
    BY <2>2, <2>3, <2>5, <2>6, <2>7, <2>8, HeldSame
  <2> QED
    BY <2>9 DEF Held, n, b, to, q
<1>2. Init => TypeInv /\ FiltersOK /\ CoverInv
  BY InitTypes, InitFilters, InitCovers
<1>3. TypeInv /\ FiltersOK /\ CoverInv /\ [Next]_vars => (TypeInv /\ FiltersOK /\ CoverInv)'
  BY NextTypes, FiltersStep, NextCovers
<1> QED
  BY <1>1, <1>2, <1>3, PTL DEF Spec

----------------------------------------------------------------------------
(* The log poller implements LogView, while eth_getLogs misses nothing, no replay is
   asked for and the filter is there from the start, if the two deletes of a rewind are
   not separated by a failure or a restart: DeleteLogsAndBlocksAfter meant them to be one
   transaction. *)

Calm     == Checked /\ used.incomplete = 0 /\ used.replays = 0 /\ registered
Together == pc["run"] = "deleteLogs" => pc'["run"] # "idle"

(* No log is saved above the last block or below the first poll, and none is about to. *)
ViewRight(ls, rows, first, label, j) ==
    /\ label # "deleteLogs" => \A l \in ls : Len(l) <= LastOf(rows)
    /\ \A n \in SavedIn(rows) : first <= n
    /\ SavedIn(rows) # {} \/ label # "idle" => first > 0
    /\ j.kind # "backup"
    /\ label \in {"latest"} \cup Fetching => first <= j.current
    /\ label \in Backfilling => first <= j.from /\ LastOf(rows) < j.from
    /\ label \in {"blocks", "save"} => \A l \in j.logs : HasLogs(l)
    /\ label = "insert" => j.logs \subseteq LogsOf(j.block)

ViewNow == ViewRight(logs, blocks, firstPolled, pc["run"], Run)

LEMMA ViewGoes ==
    ASSUME TypeInv, NEW label, NEW j, Goto("run", label, j),
           NEW ls, NEW rows, NEW first, logs' = ls, blocks' = rows, firstPolled' = first,
           ViewRight(ls, rows, first, label, j)
    PROVE  ViewNow'
<1>1. pc'["run"] = label /\ job'["run"] = j
  BY DEF Goto, Threads, TypeInv, PollerOK
<1> QED
  BY <1>1 DEF ViewNow, Run

LEMMA ViewRests ==
    ASSUME NEW ls, NEW rows, NEW first,
           \A l \in ls : Len(l) <= LastOf(rows), \A n \in SavedIn(rows) : first <= n,
           SavedIn(rows) # {} => first > 0
    PROVE  ViewRight(ls, rows, first, "idle", NoJob)
  BY DEF ViewRight, NoJob, Backfilling, Fetching

LEMMA ViewReturns ==
    ASSUME TypeInv, NEW outcome, Return("run", outcome),
           NEW ls, NEW rows, NEW first, logs' = ls, blocks' = rows, firstPolled' = first,
           \A l \in ls : Len(l) <= LastOf(rows), \A n \in SavedIn(rows) : first <= n,
           SavedIn(rows) # {} => first > 0
    PROVE  ViewNow'
<1>1. pc'["run"] = "idle" /\ job'["run"] = NoJob
  BY DEF Return, Threads, TypeInv, PollerOK
<1> QED
  BY <1>1, ViewRests DEF ViewNow, Run

(* A step that leaves tables and first poll alone, and ends or goes elsewhere. *)
LEMMA ViewEnds ==
    ASSUME TypeInv, ViewNow, pc["run"] # "deleteLogs", NEW outcome, Return("run", outcome),
           UNCHANGED <<logs, blocks, firstPolled>>
    PROVE  ViewNow'
  BY ViewReturns DEF ViewNow, ViewRight

LEMMA ViewSame ==
    ASSUME TypeInv, ViewNow, pc["run"] # "deleteLogs", UNCHANGED <<logs, blocks, firstPolled>>,
           NEW label, NEW j, Goto("run", label, j), label # "deleteLogs",
           firstPolled > 0, j.kind # "backup",
           label \in {"latest"} \cup Fetching => firstPolled <= j.current,
           label \in Backfilling => firstPolled <= j.from /\ LastOf(blocks) < j.from,
           label \in {"blocks", "save"} => \A l \in j.logs : HasLogs(l),
           label = "insert" => j.logs \subseteq LogsOf(j.block)
    PROVE  ViewNow'
<1>1. ViewRight(logs, blocks, firstPolled, label, j)
  BY DEF ViewNow, ViewRight
<1> QED
  BY <1>1, ViewGoes

LEMMA StartPollView ==
    ASSUME TypeInv, ViewNow, registered, StartPoll
    PROVE  ViewNow'
<1> DEFINE start == IF Saved = {} THEN LatestFinalized ELSE LatestNumber + 1
           k == [NoJob EXCEPT !.kind = "poll", !.current = start]
           first == firstPolled'
<1> SUFFICES ASSUME Resume("run", "latest", k),
                    firstPolled' = IF Saved = {} /\ registered THEN start ELSE firstPolled
             PROVE  ViewNow'
  <2>1. UNCHANGED <<tables, poller, firstPolled>> => ViewNow'
    BY DEF ViewNow, Run, tables, poller
  <2> QED
    BY <2>1 DEF StartPoll
<1>1. Goto("run", "latest", k) /\ logs' = logs /\ blocks' = blocks /\ pc["run"] = "idle"
      /\ first = IF Saved = {} THEN start ELSE firstPolled
  BY DEF StartPoll, Resume, tables
<1>2. k.current = start /\ k.kind = "poll"
  BY DEF NoJob
<1>3. /\ SavedIn(blocks) = Saved /\ LastOf(blocks) = LatestNumber /\ LatestNumber \in Nat
      /\ LatestFinalized \in Nat /\ 1 <= LatestFinalized /\ firstPolled \in Nat
      /\ Saved # {} => LatestNumber \in Saved
  BY WorldNow, WorldIs DEF TypeInv, OutsideOK
<1>4. ViewRight(logs, blocks, firstPolled, "idle", Run)
  BY <1>1 DEF ViewNow
<1>5. first > 0 /\ first <= start /\ \A n \in SavedIn(blocks) : first <= n
  BY <1>1, <1>3, <1>4 DEF ViewRight
<1> HIDE DEF k, start, first
<1>6. ViewRight(logs, blocks, first, "latest", k)
  BY <1>2, <1>4, <1>5 DEF ViewRight, Backfilling
<1> QED
  BY <1>1, <1>6, ViewGoes DEF first

LEMMA LatestBlocksView ==
    ASSUME TypeInv, ViewNow, LatestBlocks
    PROVE  ViewNow'
<1>1. pc["run"] = "latest" /\ UNCHANGED <<logs, blocks, firstPolled>>
  BY DEF LatestBlocks, tables, history
<1>2. CASE Return("run", "ok")
  BY <1>1, <1>2, ViewEnds
<1>3. ASSUME NEW block,
             Resume("run", "current", [Run EXCEPT !.latest = Len(chain), !.finalized = LatestFinalized,
                                                  !.block = block])
      PROVE  ViewNow'
  <2> DEFINE k == [Run EXCEPT !.latest = Len(chain), !.finalized = LatestFinalized, !.block = block]
  <2>1. k.current = Run.current /\ k.kind = Run.kind /\ Goto("run", "current", k)
    BY <1>3, RunIs DEF Job, Resume
  <2> HIDE DEF k
  <2>2. firstPolled > 0 /\ firstPolled <= k.current /\ k.kind # "backup"
    BY <1>1, <2>1 DEF ViewNow, ViewRight
  <2> QED
    BY <1>1, <2>1, <2>2, ViewSame DEF Backfilling
<1> QED
  BY <1>2, <1>3 DEF LatestBlocks

LEMMA ProceedView ==
    ASSUME TypeInv, NEW j \in Job, Proceed(j), UNCHANGED <<blocks, firstPolled>>,
           firstPolled > 0, j.kind # "backup", firstPolled <= j.current, j.current > LastOf(blocks),
           \A l \in logs' : Len(l) <= LastOf(blocks), \A n \in SavedIn(blocks) : firstPolled <= n
    PROVE  ViewNow'
<1> DEFINE ls == logs'
<1>0. logs' = ls /\ \A l \in ls : Len(l) <= LastOf(blocks)
  OBVIOUS
<1> HIDE DEF ls
<1>1. CASE ~j.looping /\ j.finalized - 1 >= j.current
  <2> DEFINE end == j.finalized - 1
             k == [j EXCEPT !.from = j.current, !.end = end, !.size = BackfillBatchSize]
  <2>1. Goto("run", "backfill", k)
    BY <1>1 DEF Proceed, Backfill
  <2>2. k.from = j.current /\ k.kind = j.kind
    BY DEF Job
  <2> HIDE DEF k
  <2>3. LastOf(blocks) < j.current
    BY JobNumbers, WorldNow, WorldIs
  <2>4. ViewRight(ls, blocks, firstPolled, "backfill", k)
    BY <1>0, <2>2, <2>3 DEF ViewRight, Fetching
  <2> QED
    BY <1>0, <2>1, <2>4, ViewGoes
<1>2. CASE ~(~j.looping /\ j.finalized - 1 >= j.current)
  <2> DEFINE k == [j EXCEPT !.looping = TRUE]
  <2>1. Goto("run", "logs", k) /\ k.current = j.current /\ k.kind = j.kind
    BY <1>2 DEF Proceed, Resume, Job
  <2> HIDE DEF k
  <2>2. ViewRight(ls, blocks, firstPolled, "logs", k)
    BY <1>0, <2>1 DEF ViewRight, Backfilling
  <2> QED
    BY <1>0, <2>1, <2>2, ViewGoes
<1> QED
  BY <1>1, <1>2

LEMMA GetCurrentBlockView ==
    ASSUME TypeInv, ViewNow, AheadNow, GetCurrentBlock, TypeInv', GInv'
    PROVE  ViewNow'
<1> DEFINE known == Run.block # NoBlock /\ Len(Run.block) = Run.current
           block == IF known THEN Run.block ELSE At(chain, Run.current)
<1>1. /\ pc["run"] = "current" /\ logs' = logs /\ blocks' = blocks /\ firstPolled' = firstPolled /\ Run \in Job
      /\ firstPolled > 0 /\ firstPolled <= Run.current /\ Run.kind # "backup" /\ firstPolled \in Nat
      /\ \A n \in SavedIn(blocks) : firstPolled <= n
      /\ \A l \in logs : Len(l) <= LastOf(blocks)
  BY RunIs DEF GetCurrentBlock, tables, ViewNow, ViewRight, Fetching, TypeInv, OutsideOK
<1>2. ASSUME NEW outcome, Return("run", outcome)
      PROVE  ViewNow'
  BY <1>1, <1>2, ViewEnds
<1>3. CASE (known \/ Run.current <= Len(chain)) /\ Proceed([Run EXCEPT !.block = block])
  <2> DEFINE k == [Run EXCEPT !.block = block]
  <2>1. block \in Block
    <3>1. Run.current \in Nat /\ Run.current >= 1 /\ chain \in Block /\ Len(chain) \in Nat
      BY <1>1, JobNumbers, WorldNow, WorldIs
    <3>2. Run.current <= Len(chain) => At(chain, Run.current) \in Block
      BY <3>1, AtIsBlock
    <3> QED
      BY <1>1, <1>3, <3>2 DEF Job
  <2> HIDE DEF block
  <2>2. k \in Job /\ k.current = Run.current /\ k.kind = Run.kind /\ Proceed(k)
    BY <1>1, <1>3, <2>1 DEF Job
  <2> HIDE DEF k
  <2>3. k.current > LastOf(blocks) /\ \A l \in logs' : Len(l) <= LastOf(blocks)
    BY <1>1, <2>2 DEF AheadNow, Ahead
  <2> QED
    BY <1>1, <2>2, <2>3, ProceedView
<1>4. ASSUME NEW at, NEW c, Resume("run", "deleteBlocks", [Run EXCEPT !.block = at, !.current = c])
      PROVE  ViewNow'
  <2> DEFINE k == [Run EXCEPT !.block = at, !.current = c]
  <2>1. Goto("run", "deleteBlocks", k) /\ k.kind = Run.kind
    BY <1>1, <1>4 DEF Resume, Job
  <2> HIDE DEF k
  <2>2. pc'["run"] = "deleteBlocks" /\ job'["run"] = k
    BY <2>1 DEF Goto, Threads, TypeInv, PollerOK
  <2>3. k.current \in Nat
    BY <2>2, JobNumbers DEF TypeInv, PollerOK, Threads
  <2>4. k.current - 1 \in SavedIn(blocks)
    BY <1>1, <2>2 DEF GInv, GoroutinesRight, RunRight, Run
  <2>5. firstPolled <= k.current
    BY <1>1, <2>3, <2>4
  <2> QED
    BY <1>1, <2>1, <2>5, ViewSame DEF Backfilling
<1> QED
  BY <1>1, <1>2, <1>3, <1>4, Zenon DEF GetCurrentBlock

LEMMA DeleteBlocksView ==
    ASSUME TypeInv, ViewNow, GInv, DeleteBlocks
    PROVE  ViewNow'
<1> DEFINE rows == blocks'
           c == Run.current
<1>1. pc["run"] = "deleteBlocks" /\ logs' = logs /\ firstPolled' = firstPolled
      /\ firstPolled > 0 /\ firstPolled <= c /\ Run.kind # "backup"
      /\ \A n \in SavedIn(blocks) : firstPolled <= n
  BY DEF DeleteBlocks, history, ViewNow, ViewRight, Fetching
<1>2. CASE Return("run", "error") /\ UNCHANGED blocks
  BY <1>1, <1>2, ViewEnds
<1>3. CASE /\ rows = [n \in Heights |-> IF n >= c THEN NoRow ELSE blocks[n]]
           /\ Resume("run", "deleteLogs", Run)
  <2>1. \A n \in SavedIn(rows) : n \in SavedIn(blocks)
    BY <1>3 DEF SavedIn
  <2> HIDE DEF rows
  <2>2. ViewRight(logs, rows, firstPolled, "deleteLogs", Run)
    BY <1>1, <2>1 DEF ViewRight, Backfilling
  <2>3. blocks' = rows
    BY DEF rows
  <2> QED
    BY <1>1, <1>3, <2>2, <2>3, ViewGoes DEF Resume
<1> QED
  BY <1>2, <1>3 DEF DeleteBlocks

LEMMA DeleteLogsView ==
    ASSUME TypeInv, ViewNow, GInv, DeleteLogs, Together
    PROVE  ViewNow'
<1> DEFINE c == Run.current
           ls == LogsBefore(c)
<1>1. pc["run"] = "deleteLogs" /\ blocks' = blocks /\ firstPolled' = firstPolled
      /\ firstPolled > 0 /\ firstPolled <= c /\ Run.kind # "backup" /\ Run \in Job /\ c \in Nat
      /\ \A n \in SavedIn(blocks) : firstPolled <= n
  BY RunIs, JobNumbers DEF DeleteLogs, ViewNow, ViewRight, Fetching
<1>2. ~Return("run", "error")
  BY <1>1 DEF Return, Together, Threads
<1>3. logs' = ls /\ Proceed(Run)
  BY <1>2 DEF DeleteLogs
<1>4. LastOf(blocks) = c - 1
  BY <1>1 DEF GInv, GoroutinesRight, RunRight
<1>5. \A l \in ls : Len(l) <= LastOf(blocks)
  <2>1. \A l \in logs : Len(l) \in Nat
    BY BlockIsSeq DEF TypeInv, TablesOK
  <2> QED
    BY <1>1, <1>4, <2>1 DEF LogsBefore
<1>6. c > LastOf(blocks) /\ \A l \in logs' : Len(l) <= LastOf(blocks)
  BY <1>1, <1>3, <1>4, <1>5
<1> QED
  BY <1>1, <1>3, <1>6, ProceedView

LEMMA FilterLogsOfBlockView ==
    ASSUME TypeInv, ViewNow, FilterLogsOfBlock
    PROVE  ViewNow'
<1>1. pc["run"] = "logs" /\ UNCHANGED <<logs, blocks, firstPolled>>
      /\ firstPolled > 0 /\ firstPolled <= Run.current /\ Run.kind # "backup"
  BY DEF FilterLogsOfBlock, tables, history, ViewNow, ViewRight, Fetching
<1>2. CASE Return("run", "ok")
  BY <1>1, <1>2, ViewEnds
<1>3. ASSUME NEW got \in SUBSET Matching(LogsOf(Run.block)),
             Resume("run", "insert", [Run EXCEPT !.logs = got])
      PROVE  ViewNow'
  <2> DEFINE k == [Run EXCEPT !.logs = got]
  <2>1. Goto("run", "insert", k) /\ k.kind = Run.kind /\ k.current = Run.current /\ k.block = Run.block /\ k.logs = got
    BY <1>3, RunIs DEF Resume, Job
  <2>2. got \subseteq LogsOf(Run.block)
    BY DEF Matching
  <2> HIDE DEF k
  <2> QED
    BY <1>1, <2>1, <2>2, ViewSame DEF Backfilling
<1> QED
  BY <1>2, <1>3 DEF FilterLogsOfBlock

(* A row is added at the end, with the logs up to it. *)
LEMMA ViewAfterRow ==
    ASSUME TypeInv, ViewNow, pc["run"] # "deleteLogs", NEW b \in Block, Len(b) > LastOf(blocks),
           NEW fz \in Heights, NEW rows, rows = WithRow(blocks, b, fz), firstPolled <= Len(b),
           NEW got, \A l \in got : Len(l) <= Len(b)
    PROVE  /\ LastOf(rows) = Len(b) /\ rows[Len(b)].hash = b /\ SavedIn(rows) # {}
           /\ \A l \in logs \cup got : Len(l) <= LastOf(rows)
           /\ \A n \in SavedIn(rows) : firstPolled <= n
<1>1. WorldOK(blocks, chain, LatestFinalized) /\ LastOf(blocks) \in Nat /\ Len(b) \in Nat
      /\ \A l \in logs : Len(l) \in Nat
  BY WorldNow, WorldIs, BlockIsSeq DEF TypeInv, TablesOK
<1>2. LastOf(rows) = Len(b) /\ rows[Len(b)].hash = b /\ SavedIn(rows) # {}
  BY <1>1, LastWith
<1>3. \A n \in SavedIn(rows) : n \in SavedIn(blocks) \/ n = Len(b)
  BY <1>1, PlainRow
<1>4. (\A l \in logs : Len(l) <= LastOf(blocks)) /\ \A n \in SavedIn(blocks) : firstPolled <= n
  BY DEF ViewNow, ViewRight
<1> QED
  BY <1>1, <1>2, <1>3, <1>4

(* What InsertLogsWithBlock saves, when it does. *)
LEMMA InsertIs ==
    ASSUME TypeInv, ViewNow, AheadNow, pc["run"] = "insert"
    PROVE  /\ Run.block \in Block /\ Len(Run.block) = Run.current /\ Run.current \in Nat
           /\ Run.finalized \in Heights /\ Len(Run.block) > LastOf(blocks)
           /\ firstPolled <= Len(Run.block) /\ Run.logs \subseteq LogsOf(Run.block)
           /\ firstPolled > 0 /\ Run.kind # "backup" /\ Run \in Job
<1>1. Run.block # NoBlock /\ Len(Run.block) = Run.current /\ Run.finalized \in 1..Run.latest /\ Run \in Job
  BY RunIs DEF RunOK, Fetching
<1>2. Run.finalized \in Nat /\ 1 <= Run.finalized /\ Run.finalized <= MaxHeight /\ Run.current \in Nat
  BY <1>1, JobNumbers
<1>3. Run.finalized \in Heights
  BY <1>2, HeightsAreNats
<1>4. Run.current > LastOf(blocks)
  BY DEF AheadNow, Ahead
<1> QED
  BY <1>1, <1>2, <1>3, <1>4 DEF ViewNow, ViewRight, Fetching, Job

LEMMA InsertLogsWithBlockView ==
    ASSUME TypeInv, ViewNow, AheadNow, InsertLogsWithBlock
    PROVE  ViewNow'
<1> DEFINE k == [Run EXCEPT !.current = @ + 1, !.logs = {}]
           rows == blocks'
           b == Run.block
           f == Run.finalized
           ls == logs \cup Run.logs
<1>1. pc["run"] = "insert" /\ firstPolled' = firstPolled
  BY DEF InsertLogsWithBlock, history
<1>2. CASE Return("run", "ok") /\ UNCHANGED tables
  BY <1>1, <1>2, ViewEnds DEF tables
<1>3. CASE /\ rows = WithBlock(b, f) /\ logs' = ls
           /\ IF k.current > Run.latest THEN Return("run", "ok") ELSE Resume("run", "current", k)
  <2>1. /\ b \in Block /\ Len(b) = Run.current /\ Run.current \in Nat /\ f \in Heights /\ Len(b) > LastOf(blocks)
        /\ firstPolled <= Len(b) /\ Run.logs \subseteq LogsOf(b) /\ firstPolled > 0 /\ Run.kind # "backup" /\ Run \in Job
        /\ firstPolled \in Nat
    BY <1>1, InsertIs DEF TypeInv, OutsideOK
  <2>2. rows = WithRow(blocks, b, f) /\ \A l \in Run.logs : Len(l) <= Len(b)
    BY <1>3, <2>1 DEF WithBlock, WithRow, LogsOf
  <2>3. k.current = Run.current + 1 /\ k.kind = Run.kind
    BY <2>1 DEF Job
  <2> HIDE DEF rows, k
  <2>4. /\ SavedIn(rows) # {} /\ \A l \in ls : Len(l) <= LastOf(rows)
        /\ \A n \in SavedIn(rows) : firstPolled <= n
    <3> HIDE DEF b, f
    <3> QED
      BY <1>1, <2>1, <2>2, ViewAfterRow
  <2> HIDE DEF ls
  <2>5. CASE Return("run", "ok")
    BY <1>1, <1>3, <2>1, <2>4, <2>5, ViewReturns DEF rows
  <2>6. CASE Resume("run", "current", k)
    <3>1. firstPolled <= k.current
      BY <2>1, <2>3
    <3>2. ViewRight(ls, rows, firstPolled, "current", k)
      BY <2>1, <2>3, <2>4, <3>1 DEF ViewRight, Backfilling
    <3> QED
      BY <1>1, <1>3, <2>6, <3>2, ViewGoes DEF Resume, rows
  <2> QED
    BY <1>3, <2>5, <2>6
<1> QED
  BY <1>2, <1>3 DEF InsertLogsWithBlock

LEMMA NextBatchView ==
    ASSUME TypeInv, pc["run"] \in Backfilling, NextBatch("run", Run), Run.kind # "backup",
           NEW ls, NEW rows, logs' = ls, blocks' = rows, firstPolled' = firstPolled,
           firstPolled > 0, firstPolled <= Run.from, LastOf(rows) \in Nat, LastOf(rows) <= To(Run),
           \A l \in ls : Len(l) <= LastOf(rows), \A n \in SavedIn(rows) : firstPolled <= n
    PROVE  ViewNow'
<1> DEFINE j == Run
<1>1. /\ j \in Job /\ j.kind \in Polls /\ j.from \in Nat /\ j.end \in Nat /\ j.size \in Nat /\ j.size >= 1
      /\ j.from <= j.end /\ firstPolled \in Nat
  BY RunIs, JobNumbers DEF JobOK, RunOK, BatchOK, TypeInv, OutsideOK
<1>2. To(j) \in Nat /\ NextFrom(j) \in Nat /\ (NextFrom(j) <= j.end => To(j) = NextFrom(j) - 1)
      /\ NextFrom(j) >= j.from
  BY <1>1, ToIs DEF NextFrom
<1>3. CASE NextFrom(j) > j.end
  <2> DEFINE i == [j EXCEPT !.logs = {}, !.size = 0, !.from = 0]
             k == [i EXCEPT !.current = AfterEnd(i), !.looping = TRUE]
  <2>1. i.kind = j.kind /\ i.end = j.end /\ AfterBackfill("run", i)
    BY <1>1, <1>3 DEF NextBatch, Job
  <2>2. Resume("run", "current", k)
    BY <1>1, <2>1 DEF AfterBackfill, Polls
  <2>3. k.current = j.end + 1 /\ k.kind = j.kind
    BY <1>1 DEF AfterEnd, Job
  <2> HIDE DEF k
  <2>4. firstPolled <= k.current
    BY <1>1, <2>3
  <2>5. ViewRight(ls, rows, firstPolled, "current", k)
    BY <2>3, <2>4 DEF ViewRight, Backfilling
  <2> QED
    BY <2>2, <2>5, ViewGoes DEF Resume
<1>4. CASE ~(NextFrom(j) > j.end)
  <2> DEFINE k == [j EXCEPT !.logs = {}, !.from = NextFrom(j)]
  <2>1. Goto("run", "backfill", k) /\ k.kind = j.kind /\ k.from = NextFrom(j)
    BY <1>1, <1>4 DEF NextBatch, Resume, Job
  <2> HIDE DEF k
  <2>2. firstPolled <= k.from /\ LastOf(rows) < k.from
    BY <1>1, <1>2, <1>4, <2>1
  <2>3. ViewRight(ls, rows, firstPolled, "backfill", k)
    BY <2>1, <2>2 DEF ViewRight, Fetching
  <2> QED
    BY <2>1, <2>3, ViewGoes
<1> QED
  BY <1>3, <1>4

LEMMA BatchIs ==
    ASSUME TypeInv, ViewNow, pc["run"] \in Backfilling
    PROVE  /\ Run \in Job /\ firstPolled > 0 /\ firstPolled <= Run.from /\ LastOf(blocks) < Run.from
           /\ Run.kind # "backup" /\ LastOf(blocks) \in Nat /\ To(Run) \in Nat /\ Run.from <= To(Run)
           /\ Run.from \in Nat /\ firstPolled \in Nat
           /\ \A n \in SavedIn(blocks) : firstPolled <= n
           /\ \A l \in logs : Len(l) <= LastOf(blocks)
<1>1. Run \in Job /\ Run.size >= 1 /\ Run.from <= Run.end
  BY RunIs DEF JobOK, BatchOK
<1>2. To(Run) \in Run.from..Run.end /\ To(Run) \in Nat /\ Run.from \in Nat /\ LastOf(blocks) \in Nat
  BY <1>1, ToIs, JobNumbers, WorldNow, WorldIs
<1> QED
  BY <1>1, <1>2 DEF ViewNow, ViewRight, Backfilling, TypeInv, OutsideOK

LEMMA FilterLogsInRangeView ==
    ASSUME TypeInv, ViewNow, FilterLogsInRange("run")
    PROVE  ViewNow'
<1>1. pc["run"] = "backfill" /\ logs' = logs /\ blocks' = blocks /\ firstPolled' = firstPolled
      /\ pc["run"] \in Backfilling
  BY DEF FilterLogsInRange, tables, history, Backfilling
<1>2. /\ Run \in Job /\ firstPolled > 0 /\ firstPolled <= Run.from /\ LastOf(blocks) < Run.from
      /\ Run.kind # "backup" /\ LastOf(blocks) \in Nat /\ To(Run) \in Nat /\ Run.from <= To(Run) /\ Run.from \in Nat
      /\ \A n \in SavedIn(blocks) : firstPolled <= n
      /\ \A l \in logs : Len(l) <= LastOf(blocks)
  BY <1>1, BatchIs
<1>3. CASE Return("run", "error")
  BY <1>1, <1>3, ViewEnds
<1>4. CASE Resume("run", "backfill", [Run EXCEPT !.size = @ \div 2])
  <2> DEFINE k == [Run EXCEPT !.size = @ \div 2]
  <2>1. k.from = Run.from /\ k.kind = Run.kind /\ Goto("run", "backfill", k)
    BY <1>2, <1>4 DEF Job, Resume
  <2> HIDE DEF k
  <2> QED
    BY <1>1, <1>2, <2>1, ViewSame DEF Fetching
<1>5. ASSUME NEW got \in SUBSET Matching(LogsIn(chain, Run.from, To(Run))),
             Resume("run", "blocks", [Run EXCEPT !.logs = got])
      PROVE  ViewNow'
  <2> DEFINE k == [Run EXCEPT !.logs = got]
  <2>1. k.from = Run.from /\ k.kind = Run.kind /\ k.logs = got /\ Goto("run", "blocks", k)
    BY <1>2, <1>5 DEF Job, Resume
  <2> HIDE DEF k
  <2>2. \A l \in got : HasLogs(l)
    <3>1. chain \in Block /\ Run.from \in Int /\ To(Run) \in Int
      BY <1>2, WorldNow, WorldIs
    <3>2. got \subseteq LogsIn(chain, Run.from, To(Run))
      BY DEF Matching
    <3> QED
      BY <3>1, <3>2, LogsInAre
  <2> QED
    BY <1>1, <1>2, <2>1, <2>2, ViewSame DEF Fetching
<1>6. CASE NextBatch("run", Run)
  <2>1. LastOf(blocks) <= To(Run)
    BY <1>2
  <2> QED
    BY <1>1, <1>2, <1>6, <2>1, NextBatchView
<1> QED
  BY <1>3, <1>4, <1>5, <1>6 DEF FilterLogsInRange, Run

LEMMA BlocksFromFinalizedLogsView ==
    ASSUME TypeInv, ViewNow, BlocksFromFinalizedLogs("run")
    PROVE  ViewNow'
<1>1. pc["run"] = "blocks" /\ UNCHANGED <<logs, blocks, firstPolled>> /\ pc["run"] \in Backfilling
      /\ \A l \in Run.logs : HasLogs(l)
  BY DEF BlocksFromFinalizedLogs, tables, history, Backfilling, ViewNow, ViewRight
<1>2. ASSUME NEW outcome, Return("run", outcome)
      PROVE  ViewNow'
  BY <1>1, <1>2, ViewEnds
<1>3. ASSUME NEW block, Resume("run", "save", [Run EXCEPT !.block = block])
      PROVE  ViewNow'
  <2> DEFINE k == [Run EXCEPT !.block = block]
  <2>1. k.from = Run.from /\ k.kind = Run.kind /\ k.logs = Run.logs /\ Goto("run", "save", k)
    BY <1>3, RunIs DEF Job, Resume
  <2> HIDE DEF k
  <2> QED
    BY <1>1, <2>1, BatchIs, ViewSame DEF Fetching
<1>4. (\E outcome : Return("run", outcome)) \/ \E block : Resume("run", "save", [Run EXCEPT !.block = block])
  BY Zenon DEF BlocksFromFinalizedLogs, Run
<1> QED
  BY <1>2, <1>3, <1>4

(* What a batch saves, when it does. *)
LEMMA BatchSaves ==
    ASSUME TypeInv, ViewNow, GInv, pc["run"] = "save"
    PROVE  /\ Run.block \in Block /\ Run.block = At(chain, To(Run)) /\ Len(Run.block) = To(Run)
           /\ Len(Run.block) \in Heights /\ Len(Run.block) > LastOf(blocks) /\ firstPolled <= Len(Run.block)
           /\ \A l \in Run.logs : /\ l \in Block /\ HasLogs(l) /\ Run.from <= Len(l) /\ Len(l) <= Len(Run.block)
                                  /\ l = At(Run.block, Len(l))
           /\ SavedIn(blocks) # {} => At(Run.block, LastOf(blocks)) = blocks[LastOf(blocks)].hash
<1> DEFINE j == Run
           c == To(j)
           b == j.block
<1>1. /\ j \in Job /\ BatchOK("save", j) /\ j.from \in Nat /\ j.end \in Nat /\ c \in Nat /\ c \in j.from..j.end
      /\ j.end <= LatestFinalized /\ j.end <= Len(chain) /\ LatestFinalized \in Nat
      /\ Len(chain) \in Nat /\ chain \in Block /\ BatchRight(blocks, chain, LatestFinalized, "save", j)
      /\ Agrees(blocks, chain, j.end)
  BY BackfilledIs DEF Threads, Run, Backfilling
<1>2. c >= 1 /\ b = At(chain, c) /\ c \in 1..Len(chain)
  BY <1>1 DEF BatchOK, BatchRight, Backfilling
<1> HIDE DEF c
<1>3. b \in Block /\ Len(b) = c /\ c \in Heights
  BY <1>1, <1>2, AtIsBlock
<1>4. firstPolled <= j.from /\ LastOf(blocks) < j.from /\ firstPolled \in Nat /\ LastOf(blocks) \in Nat
      /\ (\A l \in j.logs : HasLogs(l))
  BY BatchIs DEF Backfilling, ViewNow, ViewRight
<1>5. c > LastOf(blocks) /\ firstPolled <= c /\ LastOf(blocks) <= j.end
  BY <1>1, <1>4
<1>6. ASSUME NEW l \in j.logs
      PROVE  l \in Block /\ HasLogs(l) /\ j.from <= Len(l) /\ Len(l) <= c /\ l = At(b, Len(l))
  <2>1. l \in Block /\ Len(l) \in j.from..c /\ l = At(chain, Len(l))
    BY <1>1 DEF Job, BatchOK, BatchRight, Backfilling, c
  <2>2. Len(l) \in 0..c
    BY <1>1, <2>1, BlockIsSeq
  <2>3. At(b, Len(l)) = At(chain, Len(l))
    BY <1>1, <1>2, <2>2, AtOfAt
  <2> QED
    BY <1>4, <2>1, <2>3
<1>7. SavedIn(blocks) # {} => At(b, LastOf(blocks)) = blocks[LastOf(blocks)].hash
  <2> SUFFICES ASSUME SavedIn(blocks) # {} PROVE At(b, LastOf(blocks)) = blocks[LastOf(blocks)].hash
    OBVIOUS
  <2> DEFINE last == blocks[LastOf(blocks)].hash
             e == j.end
             m == LastOf(blocks)
  <2>1. WorldOK(blocks, chain, LatestFinalized) /\ last \in Block /\ Len(last) = m
    BY WorldNow, WorldIs
  <2>2. e \in 0..LatestFinalized /\ m \in 0..e /\ m <= m /\ Agrees(blocks, chain, e)
    BY <1>1, <1>4, <1>5
  <2> HIDE DEF e
  <2>3. At(last, m) = At(chain, m)
    BY <2>1, <2>2, AgreesIs
  <2>4. At(last, m) = last
    BY <2>1, AtSelf
  <2>5. At(b, m) = At(chain, m)
    <3>1. m \in 0..c
      BY <1>1, <1>4, <1>5
    <3> HIDE DEF m
    <3> QED
      BY <1>1, <1>2, <3>1, AtOfAt
  <2> QED
    BY <2>3, <2>4, <2>5
<1> QED
  BY <1>2, <1>3, <1>5, <1>6, <1>7 DEF c

LEMMA SaveBatchView ==
    ASSUME TypeInv, ViewNow, GInv, SaveBatch("run")
    PROVE  ViewNow'
<1> DEFINE b == Run.block
           rows == blocks'
           ls == logs \cup Run.logs
<1>1. pc["run"] = "save" /\ firstPolled' = firstPolled /\ pc["run"] \in Backfilling
  BY DEF SaveBatch, history, Backfilling
<1>2. CASE Return("run", "error") /\ UNCHANGED tables
  BY <1>1, <1>2, ViewEnds DEF tables
<1>3. CASE rows = WithBlock(b, Len(b)) /\ logs' = ls /\ NextBatch("run", Run)
  <2>1. /\ b \in Block /\ Len(b) = To(Run) /\ Len(b) \in Heights /\ Len(b) > LastOf(blocks)
        /\ firstPolled <= Len(b) /\ \A l \in Run.logs : Len(l) <= Len(b)
    BY <1>1, BatchSaves
  <2>2. rows = WithRow(blocks, b, Len(b))
    BY <1>3 DEF WithBlock, WithRow
  <2> HIDE DEF rows
  <2>3. /\ LastOf(rows) = Len(b) /\ \A l \in ls : Len(l) <= LastOf(rows)
        /\ \A n \in SavedIn(rows) : firstPolled <= n
    <3> HIDE DEF b
    <3> QED
      BY <1>1, <2>1, <2>2, ViewAfterRow
  <2>4. LastOf(rows) \in Nat /\ LastOf(rows) <= To(Run) /\ firstPolled > 0 /\ firstPolled <= Run.from /\ Run.kind # "backup"
    BY <1>1, <2>1, <2>3, BlockIsSeq, BatchIs
  <2>5. logs' = ls /\ blocks' = rows /\ NextBatch("run", Run)
    BY <1>3 DEF rows
  <2> HIDE DEF ls
  <2> QED
    BY <1>1, <2>3, <2>4, <2>5, NextBatchView
<1> QED
  BY <1>2, <1>3 DEF SaveBatch, Run

LEMMA PruneView ==
    ASSUME TypeInv, GInv, ViewNow, PruneOldBlocks
    PROVE  /\ ViewNow' /\ SameLast(blocks, blocks') /\ logs' = logs
<1> DEFINE rows == blocks
           rows2 == blocks'
           fin == LatestFinalized
<1>1. PICK n \in Saved : n <= PruneLimit /\ rows2 = [k \in Heights |-> IF k <= n THEN NoRow ELSE rows[k]]
  BY DEF PruneOldBlocks
<1>2. logs' = logs /\ pc' = pc /\ Run' = Run /\ firstPolled' = firstPolled /\ Saved # {}
  BY DEF PruneOldBlocks, poller, history, Run
<1>3. /\ WorldOK(rows, chain, fin) /\ SavedIn(rows) = Saved /\ LastOf(rows) = LatestNumber
      /\ rows[LastOf(rows)] = LatestRow /\ RowsRight(rows, chain, fin)
  BY WorldNow DEF GInv
<1>4. n \in SavedIn(rows) /\ n < rows[LastOf(rows)].finalized
  BY <1>1, <1>2, <1>3, LatestRowIs, SavedRowIs, ParametersAssumption, Bounds DEF PruneLimit
<1>5. /\ LastOf(rows2) = LastOf(rows) /\ LastOf(rows) \in SavedIn(rows2)
      /\ SavedIn(rows2) = {k \in SavedIn(rows) : k > n} /\ \A k \in SavedIn(rows2) : rows2[k] = rows[k]
  <2> HIDE DEF rows, rows2, fin
  <2> QED
    BY <1>1, <1>3, <1>4, DropRows
<1>6. ViewRight(logs, rows, firstPolled, pc["run"], Run)
  BY DEF ViewNow
<1> HIDE DEF rows, rows2
<1>7. ViewRight(logs, rows2, firstPolled, pc["run"], Run)
  BY <1>4, <1>5, <1>6 DEF ViewRight
<1> QED
  BY <1>2, <1>4, <1>5, <1>7 DEF ViewNow, SameLast, rows, rows2

LEMMA RestartView ==
    ASSUME TypeInv, ViewNow, Restart, Together
    PROVE  ViewNow'
<1>1. pc'["run"] = "idle" /\ job'["run"] = NoJob /\ blocks' = blocks /\ logs' = logs
      /\ firstPolled' = firstPolled
  BY DEF Restart, Threads, tables, history
<1>2. pc["run"] # "deleteLogs"
  BY <1>1 DEF Together
<1>3. ViewRight(logs, blocks, firstPolled, "idle", NoJob)
  BY <1>2, ViewRests DEF ViewNow, ViewRight
<1> QED
  BY <1>1, <1>3 DEF ViewNow, Run

LEMMA ViewUnchanged ==
    ASSUME ViewNow, UNCHANGED <<logs, blocks, firstPolled, pc, job>>
    PROVE  ViewNow'
  BY DEF ViewNow, Run

(* All that a step relies on. *)
ViewHolds == TypeInv /\ GInv /\ AheadNow /\ ViewNow /\ (firstPolled > 0 => LogsNow)

LEMMA NextView ==
    ASSUME BackupPollerBlockDelay = 0, ViewHolds, Calm, TypeInv', GInv', used'.replays = 0,
           Together, Next
    PROVE  ViewNow'
<1> USE DEF ViewHolds
<1>1. ~BackupPollAndSaveLogs /\ ~Replay /\ ~BackfillStep("client") /\ ~HandleReplayRequest
      /\ ~ReplayComplete
  <2>1. Replay => used'.replays = used.replays + 1
    BY ReplayCounts
  <2>2. used.replays = 0 /\ registered
    BY DEF Calm
  <2> QED
    BY <2>1, <2>2, ClientRestsWithout DEF BackupPollAndSaveLogs
<1>2. CASE PollAndSaveLogs
  <2>1. CASE BackfillStep("run")
    BY <2>1, FilterLogsInRangeView, BlocksFromFinalizedLogsView, SaveBatchView DEF BackfillStep
  <2>2. CASE StartPoll
    BY <2>2, StartPollView DEF Calm
  <2> QED
    BY <1>2, <2>1, <2>2, LatestBlocksView, GetCurrentBlockView, DeleteBlocksView, DeleteLogsView,
       FilterLogsOfBlockView, InsertLogsWithBlockView DEF PollAndSaveLogs
<1>3. CASE Node
  <2>1. UNCHANGED <<tables, poller, registered, history>>
    BY <1>3, NodeIs
  <2> QED
    BY <2>1, ViewUnchanged DEF tables, poller, history
<1>4. CASE RegisterFilter
  BY <1>4, ViewUnchanged DEF RegisterFilter, tables, poller, history
<1> QED
  BY <1>1, <1>2, <1>3, <1>4, PruneView, RestartView DEF Next

----------------------------------------------------------------------------
(* What a step shows. *)

HeadOf(rows)   == IF SavedIn(rows) = {} THEN NoBlock ELSE rows[LastOf(rows)].hash
UpTo(ls, rows) == {l \in ls : Len(l) <= LastOf(rows)}
ShownSame      == HeadOf(blocks') = HeadOf(blocks) /\ UpTo(logs', blocks') = UpTo(logs, blocks)

(* The blocks of LogView are those of the log poller. *)
LEMMA SameBlocks ==
    /\ View!Block = Block /\ View!NoBlock = NoBlock
    /\ \A b, n : View!At(b, n) = At(b, n)
    /\ \A b, m, n : View!LogsIn(b, m, n) = LogsIn(b, m, n)
<1>1. View!Block = Block /\ View!NoBlock = NoBlock
  BY DEF View!Block, Block, View!Heights, Heights, View!NoBlock, NoBlock
<1>2. \A b, n : View!At(b, n) = At(b, n)
  BY DEF View!At, At
<1>3. \A b : View!LogsOf(b) = LogsOf(b)
  BY DEF View!LogsOf, LogsOf, View!HasLogs, HasLogs
<1>4. \A b, m, n : View!LogsIn(b, m, n) = LogsIn(b, m, n)
  BY <1>2, <1>3 DEF View!LogsIn, LogsIn
<1> QED
  BY <1>1, <1>2, <1>4

LEMMA ShownNow ==
    /\ (IF Saved = {} THEN NoBlock ELSE LatestRow.hash) = HeadOf(blocks)
    /\ {l \in logs : Len(l) <= LatestNumber} = UpTo(logs, blocks)
<1>1. SavedIn(blocks) = Saved
  BY DEF SavedIn, Saved
<1>2. LastOf(blocks) = LatestNumber
  BY <1>1 DEF LastOf, LatestNumber
<1> QED
  BY <1>1, <1>2 DEF HeadOf, UpTo, LatestRow

LEMMA ShownThen ==
    /\ (IF Saved = {} THEN NoBlock ELSE LatestRow.hash)' = HeadOf(blocks')
    /\ {l \in logs : Len(l) <= LatestNumber}' = UpTo(logs', blocks')
<1>1. SavedIn(blocks') = Saved'
  BY DEF SavedIn, Saved
<1>2. LastOf(blocks') = LatestNumber'
  BY <1>1 DEF LastOf, LatestNumber
<1> QED
  BY <1>1, <1>2 DEF HeadOf, UpTo, LatestRow

LEMMA Begins ==
    ASSUME NEW b \in Block, NEW first \in 1..Len(b), HeadOf(blocks) = NoBlock,
           HeadOf(blocks') = b, UpTo(logs', blocks') = LogsIn(b, first, Len(b))
    PROVE  View!Next
  BY ShownNow, ShownThen, SameBlocks DEF View!Next, View!Begin

LEMMA Extends ==
    ASSUME NEW b \in Block, HeadOf(blocks) # NoBlock, Len(b) > Len(HeadOf(blocks)),
           At(b, Len(HeadOf(blocks))) = HeadOf(blocks),
           HeadOf(blocks') = b,
           UpTo(logs', blocks') = UpTo(logs, blocks) \cup LogsIn(b, Len(HeadOf(blocks)) + 1, Len(b))
    PROVE  View!Next
  BY ShownNow, ShownThen, SameBlocks DEF View!Next, View!Extend

LEMMA Rewinds ==
    ASSUME NEW n \in 1..(Len(HeadOf(blocks)) - 1), HeadOf(blocks') = At(HeadOf(blocks), n),
           UpTo(logs', blocks') = {l \in UpTo(logs, blocks) : Len(l) <= n}
    PROVE  View!Next
  BY ShownNow, ShownThen, SameBlocks DEF View!Next, View!Rewind

(* A row at the end shows its block, and the logs of the ancestors not shown before. *)
LEMMA RowShows ==
    ASSUME TypeInv, ViewNow, pc["run"] # "deleteLogs", firstPolled > 0,
           NEW b \in Block, Len(b) > LastOf(blocks), firstPolled <= Len(b),
           NEW fz \in Heights, blocks' = WithRow(blocks, b, fz),
           SavedIn(blocks) # {} => At(b, LastOf(blocks)) = blocks[LastOf(blocks)].hash,
           NEW got, logs' = logs \cup got,
           \A l \in got : /\ l \in Block /\ HasLogs(l) /\ LastOf(blocks) < Len(l) /\ firstPolled <= Len(l)
                          /\ Len(l) <= Len(b) /\ l = At(b, Len(l)),
           LastHeld(logs', blocks', firstPolled)
    PROVE  View!Next
<1> DEFINE rows == blocks'
           ls == logs \cup got
           start == IF SavedIn(blocks) = {} THEN firstPolled ELSE LastOf(blocks) + 1
<1>1. /\ LastOf(blocks) \in Nat /\ Len(b) \in Nat /\ 1 <= Len(b) /\ b # NoBlock /\ firstPolled \in Nat
      /\ \A l \in logs : Len(l) \in Nat /\ 1 <= Len(l) /\ Len(l) <= LastOf(blocks)
      /\ SavedIn(blocks) = {} => LastOf(blocks) = 0
      /\ SavedIn(blocks) # {} => /\ LastOf(blocks) \in SavedIn(blocks) /\ firstPolled <= LastOf(blocks)
                                 /\ blocks[LastOf(blocks)].hash \in Block
                                 /\ Len(blocks[LastOf(blocks)].hash) = LastOf(blocks)
  BY WorldNow, WorldIs, BlockIsSeq DEF TypeInv, TablesOK, OutsideOK, ViewNow, ViewRight
<1>2. /\ LastOf(rows) = Len(b) /\ rows[Len(b)].hash = b /\ SavedIn(rows) # {}
      /\ \A l \in logs \cup got : Len(l) <= LastOf(rows)
  <2>1. \A l \in got : Len(l) <= Len(b)
    OBVIOUS
  <2>2. rows = WithRow(blocks, b, fz)
    OBVIOUS
  <2> HIDE DEF rows
  <2> QED
    BY <2>1, <2>2, ViewAfterRow
<1>3. HeadOf(blocks') = b /\ UpTo(logs', blocks') = ls
  BY <1>2 DEF HeadOf, UpTo
<1>4. UpTo(logs, blocks) = logs /\ (SavedIn(blocks) = {} => logs = {})
  BY <1>1 DEF UpTo
<1>5. start \in Int /\ firstPolled <= start /\ start >= 1 /\ start <= Len(b) /\ Len(b) \in Int
      /\ \A l \in got : start <= Len(l)
  <2>1. \A l \in got : Len(l) \in Nat
    BY BlockIsSeq
  <2> QED
    BY <1>1, <2>1
<1>6. Held(ls, b, firstPolled, Len(b))
  BY <1>2 DEF LastHeld
<1> HIDE DEF rows, start, ls
<1>7. LogsIn(b, start, Len(b)) \subseteq ls
  <2>1. \A n \in 1..Len(b) : firstPolled <= n /\ n <= Len(b) /\ HasLogs(At(b, n)) => At(b, n) \in ls
    BY <1>1, <1>6, HeldIs
  <2> SUFFICES ASSUME NEW l \in LogsIn(b, start, Len(b)) PROVE l \in ls
    OBVIOUS
  <2>2. PICK n \in 1..Len(b) : start <= n /\ n <= Len(b) /\ l = At(b, n) /\ HasLogs(l)
    BY <1>5, LogsInAre
  <2>3. firstPolled <= n
    BY <1>1, <1>5, <2>2
  <2> QED
    BY <2>1, <2>2, <2>3
<1>8. got \subseteq LogsIn(b, start, Len(b))
  <2> SUFFICES ASSUME NEW l \in got PROVE l \in LogsIn(b, start, Len(b))
    OBVIOUS
  <2>1. Len(l) \in 1..Len(b) /\ start <= Len(l) /\ Len(l) <= Len(b) /\ l = At(b, Len(l)) /\ HasLogs(l)
    BY <1>1, <1>5, BlockIsSeq
  <2> QED
    BY <1>5, <2>1, LogsInAre
<1>9. ls = logs \cup LogsIn(b, start, Len(b))
  BY <1>7, <1>8 DEF ls
<1>10. CASE SavedIn(blocks) = {}
  <2>1. HeadOf(blocks) = NoBlock /\ start = firstPolled /\ ls = LogsIn(b, start, Len(b)) /\ start \in 1..Len(b)
    BY <1>1, <1>4, <1>5, <1>9, <1>10 DEF HeadOf, start
  <2> QED
    BY <1>3, <2>1, Begins
<1>11. CASE SavedIn(blocks) # {}
  <2>1. HeadOf(blocks) = blocks[LastOf(blocks)].hash /\ start = LastOf(blocks) + 1
    BY <1>11 DEF HeadOf, start
  <2>2. HeadOf(blocks) # NoBlock /\ Len(HeadOf(blocks)) = LastOf(blocks)
        /\ At(b, LastOf(blocks)) = HeadOf(blocks)
    BY <1>1, <1>11, <2>1, BlockIsSeq
  <2> QED
    BY <1>3, <1>4, <1>9, <2>1, <2>2, Extends
<1> QED
  BY <1>10, <1>11

LEMMA InsertShows ==
    ASSUME ViewHolds, InsertLogsWithBlock, Calm, GInv', (firstPolled > 0 => LogsNow)', firstPolled' = firstPolled
    PROVE  View!Next \/ ShownSame
<1> USE DEF ViewHolds
<1> DEFINE b == Run.block
           f == Run.finalized
           got == Run.logs
<1>1. pc["run"] = "insert"
  BY DEF InsertLogsWithBlock
<1>2. CASE UNCHANGED tables
  BY <1>2 DEF ShownSame, tables
<1>3. CASE blocks' = WithBlock(b, f) /\ logs' = logs \cup got
  <2>1. /\ b \in Block /\ Len(b) = Run.current /\ Run.current \in Nat /\ f \in Heights /\ Len(b) > LastOf(blocks)
        /\ firstPolled <= Len(b) /\ got \subseteq LogsOf(b) /\ firstPolled > 0
    BY <1>1, InsertIs
  <2>2. blocks' = WithRow(blocks, b, f)
    BY <1>3 DEF WithBlock, WithRow
  <2>3. \A l \in got : /\ l \in Block /\ HasLogs(l) /\ LastOf(blocks) < Len(l) /\ firstPolled <= Len(l)
                       /\ Len(l) <= Len(b) /\ l = At(b, Len(l))
    <3>1. Len(b) <= Len(b) /\ LastOf(blocks) < Len(b) /\ b = At(b, Len(b))
      BY <2>1, WorldNow, WorldIs, AtSelf
    <3>2. \A l \in got : l = b /\ HasLogs(b)
      BY <2>1 DEF LogsOf
    <3> HIDE DEF b
    <3> QED
      BY <2>1, <3>1, <3>2
  <2>4. SavedIn(blocks) # {} => At(b, LastOf(blocks)) = blocks[LastOf(blocks)].hash
    <3>1. RowsUnder(blocks, Run) /\ (SavedIn(blocks) # {} => LastOf(blocks) \in SavedIn(blocks))
      BY <1>1, WorldNow, WorldIs DEF GInv, GoroutinesRight, RunRight, Fetching
    <3>2. LastOf(blocks) < Run.current
      BY <2>1, WorldNow, WorldIs
    <3> QED
      BY <3>1, <3>2 DEF RowsUnder
  <2>5. LastHeld(logs', blocks', firstPolled)
    BY <2>1 DEF LogsNow
  <2> HIDE DEF b, f, got
  <2> QED
    BY <1>1, <1>3, <2>1, <2>2, <2>3, <2>4, <2>5, RowShows
<1> QED
  BY <1>2, <1>3 DEF InsertLogsWithBlock

LEMMA SaveBatchShows ==
    ASSUME ViewHolds, SaveBatch("run"), Calm, (firstPolled > 0 => LogsNow)', firstPolled' = firstPolled
    PROVE  View!Next \/ ShownSame
<1> USE DEF ViewHolds
<1> DEFINE b == Run.block
           got == Run.logs
<1>1. pc["run"] = "save" /\ pc["run"] \in Backfilling
  BY DEF SaveBatch, Backfilling
<1>2. CASE UNCHANGED tables
  BY <1>2 DEF ShownSame, tables
<1>3. CASE blocks' = WithBlock(b, Len(b)) /\ logs' = logs \cup got
  <2>1. /\ b \in Block /\ Len(b) \in Heights /\ Len(b) > LastOf(blocks) /\ firstPolled <= Len(b)
        /\ SavedIn(blocks) # {} => At(b, LastOf(blocks)) = blocks[LastOf(blocks)].hash
        /\ \A l \in got : /\ l \in Block /\ HasLogs(l) /\ Run.from <= Len(l) /\ Len(l) <= Len(b)
                          /\ l = At(b, Len(l))
    BY <1>1, BatchSaves
  <2>2. blocks' = WithRow(blocks, b, Len(b))
    BY <1>3 DEF WithBlock, WithRow
  <2>3. /\ firstPolled > 0 /\ firstPolled <= Run.from /\ LastOf(blocks) < Run.from /\ LastOf(blocks) \in Nat
        /\ Run.from \in Nat /\ firstPolled \in Nat
    BY <1>1, BatchIs
  <2>4. \A l \in got : LastOf(blocks) < Len(l) /\ firstPolled <= Len(l)
    <3>1. \A l \in got : Len(l) \in Nat /\ Run.from <= Len(l)
      BY <2>1, BlockIsSeq
    <3> HIDE DEF got
    <3> QED
      BY <2>3, <3>1
  <2>5. LastHeld(logs', blocks', firstPolled)
    BY <2>3 DEF LogsNow
  <2> HIDE DEF b, got
  <2> QED
    BY <1>1, <1>3, <2>1, <2>2, <2>3, <2>4, <2>5, RowShows
<1> QED
  BY <1>2, <1>3 DEF SaveBatch, Run

(* The delete of the blocks is what a reader sees of a rewind; the logs it leaves are
   above the last block then. *)
LEMMA DeleteBlocksShows ==
    ASSUME ViewHolds, DeleteBlocks
    PROVE  View!Next \/ ShownSame
<1> USE DEF ViewHolds
<1> DEFINE rows == blocks
           rows2 == blocks'
           fin == LatestFinalized
           c == Run.current
           last == rows[LastOf(rows)].hash
<1>1. pc["run"] = "deleteBlocks" /\ logs' = logs
  BY DEF DeleteBlocks
<1>2. CASE UNCHANGED blocks
  BY <1>1, <1>2 DEF ShownSame
<1>3. CASE rows2 = [n \in Heights |-> IF n >= c THEN NoRow ELSE rows[n]]
  <2>1. /\ WorldOK(rows, chain, fin) /\ RowsRight(rows, chain, fin) /\ c - 1 \in SavedIn(rows) /\ c \in Int
    BY <1>1, WorldNow, RunIs, JobNumbers DEF GInv, GoroutinesRight, RunRight
  <2> HIDE DEF rows, rows2, fin, c
  <2>2. LastOf(rows2) = c - 1 /\ rows2[c - 1].hash = At(last, c - 1) /\ SavedIn(rows2) = {n \in SavedIn(rows) : n < c}
    BY <1>3, <2>1, CutRows
  <2>3. last \in Block /\ Len(last) = LastOf(rows) /\ LastOf(rows) \in Nat /\ c - 1 \in 1..LastOf(rows)
        /\ SavedIn(rows) # {}
    BY <2>1, WorldIs
  <2>4. SavedIn(rows2) # {}
    BY <2>1, <2>2
  <2>5. HeadOf(rows) = last /\ HeadOf(rows2) = At(last, c - 1)
    BY <2>2, <2>3, <2>4 DEF HeadOf
  <2>6. UpTo(logs, rows2) = {l \in UpTo(logs, rows) : Len(l) <= c - 1}
    <3>1. \A l \in logs : Len(l) \in Nat
      BY BlockIsSeq DEF TypeInv, TablesOK
    <3> QED
      BY <2>2, <2>3, <3>1 DEF UpTo
  <2>7. CASE c - 1 = LastOf(rows)
    <3>1. At(last, c - 1) = last
      BY <2>3, <2>7, AtSelf
    <3>2. UpTo(logs, rows2) = UpTo(logs, rows)
      BY <2>2, <2>7 DEF UpTo
    <3> QED
      BY <1>1, <2>5, <3>1, <3>2 DEF ShownSame, rows, rows2
  <2>8. CASE c - 1 # LastOf(rows)
    <3>1. c - 1 \in 1..(Len(HeadOf(rows)) - 1)
      BY <2>1, <2>3, <2>5, <2>8
    <3> QED
      BY <1>1, <2>5, <2>6, <3>1, Rewinds DEF rows, rows2
  <2> QED
    BY <2>7, <2>8
<1> QED
  BY <1>2, <1>3 DEF DeleteBlocks

LEMMA DeleteLogsShows ==
    ASSUME ViewHolds, DeleteLogs
    PROVE  ShownSame
<1> USE DEF ViewHolds
<1>1. blocks' = blocks /\ LastOf(blocks) = Run.current - 1 /\ Run.current \in Nat
  BY RunIs, JobNumbers DEF DeleteLogs, GInv, GoroutinesRight, RunRight
<1>2. \A l \in logs : Len(l) \in Nat
  BY BlockIsSeq DEF TypeInv, TablesOK
<1>3. CASE logs' = logs
  BY <1>1, <1>3 DEF ShownSame
<1>4. CASE logs' = LogsBefore(Run.current)
  <2>1. UpTo(logs', blocks) = UpTo(logs, blocks)
    BY <1>1, <1>2, <1>4 DEF UpTo, LogsBefore
  <2> QED
    BY <1>1, <2>1 DEF ShownSame
<1> QED
  BY <1>3, <1>4 DEF DeleteLogs

LEMMA NextShows ==
    ASSUME BackupPollerBlockDelay = 0, ViewHolds, Calm, GInv', (firstPolled > 0 => LogsNow)',
           used'.replays = 0, Next
    PROVE  View!Next \/ ShownSame
<1>1. ~BackupPollAndSaveLogs /\ ~Replay /\ ~BackfillStep("client") /\ ~HandleReplayRequest
      /\ ~ReplayComplete
  <2>1. Replay => used'.replays = used.replays + 1
    BY ReplayCounts DEF ViewHolds
  <2>2. used.replays = 0
    BY DEF Calm
  <2> QED
    BY <2>1, <2>2, ClientRestsWithout DEF BackupPollAndSaveLogs, ViewHolds
<1>2. UNCHANGED tables => ShownSame
  BY DEF tables, ShownSame
<1>3. CASE PollAndSaveLogs
  <2>1. StartPoll \/ LatestBlocks \/ GetCurrentBlock \/ FilterLogsOfBlock \/ FilterLogsInRange("run")
          \/ BlocksFromFinalizedLogs("run") => UNCHANGED tables
    BY DEF StartPoll, LatestBlocks, GetCurrentBlock, FilterLogsOfBlock, FilterLogsInRange, BlocksFromFinalizedLogs
  <2>2. InsertLogsWithBlock \/ SaveBatch("run") => firstPolled' = firstPolled
    BY DEF InsertLogsWithBlock, SaveBatch, history
  <2> QED
    BY <1>2, <1>3, <2>1, <2>2, DeleteBlocksShows, DeleteLogsShows, InsertShows, SaveBatchShows
       DEF PollAndSaveLogs, BackfillStep
<1>4. CASE RegisterFilter \/ Restart \/ Node
  BY <1>2, <1>4, NodeIs DEF RegisterFilter, Restart, ViewHolds
<1>5. CASE PruneOldBlocks
  <2>1. SameLast(blocks, blocks') /\ logs' = logs
    BY <1>5, PruneView DEF ViewHolds
  <2> QED
    BY <2>1 DEF SameLast, ShownSame, HeadOf, UpTo
<1> QED
  BY <1>1, <1>3, <1>4, <1>5 DEF Next

(* The log poller implements LogView: what a reader of the tables sees, whatever reorgs,
   failing calls, restarts and pruning come, is the logs of one fork that grows at its end
   or is cut back to an ancestor.  It does while final blocks are not reorged and no
   backfill overtakes a reorg, eth_getLogs misses no log, no replay is asked for, the
   filter is there from the start, the backup poller is off, and the delete of the logs is
   not cut off from the delete of the blocks. *)
THEOREM LogViewIsImplemented ==
    ASSUME BackupPollerBlockDelay = 0
    PROVE  Spec /\ []Calm /\ [][Together]_vars => ImplementsLogView
<1> DEFINE Inv == TypeInv /\ FiltersOK /\ ForkInv /\ RewindInv /\ LogsInv /\ ViewNow
           head == IF Saved = {} THEN NoBlock ELSE LatestRow.hash
           view == {l \in logs : Len(l) <= LatestNumber}
<1>1. Init => Inv /\ View!Init
  <2> SUFFICES ASSUME Init PROVE ViewNow /\ View!Init
    BY InitTypes, InitFilters, InitFork, InitRewind, InitLogs
  <2>1. SavedIn(blocks) = {} /\ logs = {} /\ pc["run"] = "idle" /\ Run = NoJob
    BY DEF Init, SavedIn, Threads, Run
  <2>2. ViewNow
    BY <2>1, ViewRests DEF ViewNow
  <2>3. HeadOf(blocks) = NoBlock /\ UpTo(logs, blocks) = {}
    BY <2>1 DEF HeadOf, UpTo
  <2> QED
    BY <2>2, <2>3, ShownNow, SameBlocks DEF View!Init
<1>2. ASSUME Inv, Calm, Calm', [Next]_vars, [Together]_vars
      PROVE  Inv' /\ [View!Next]_<<head, view>>
  <2>1. (TypeInv /\ FiltersOK /\ ForkInv /\ RewindInv /\ LogsInv)'
    BY <1>2, NextTypes, FiltersStep, NextFork, NextRewind, NextLogs
  <2>2. GInv' /\ (firstPolled > 0 => LogsNow)' /\ used'.replays = 0
    BY <1>2, <2>1 DEF ForkInv, LogsInv, Calm
  <2>3. ViewHolds
    BY <1>2 DEF ViewHolds, ForkInv, RewindInv, LogsInv, Calm
  <2>4. CASE UNCHANGED vars
    <3>1. ViewNow'
      BY <1>2, <2>4, ViewUnchanged DEF vars, tables, poller, history
    <3>2. head' = head /\ view' = view
      BY <2>4 DEF vars, tables, Saved, LatestRow, LatestNumber
    <3> QED
      BY <2>1, <3>1, <3>2
  <2>5. CASE Next /\ Together
    <3>1. ViewNow'
      BY <1>2, <2>1, <2>2, <2>3, <2>5, NextView
    <3>2. View!Next \/ ShownSame
      BY <1>2, <2>2, <2>3, <2>5, NextShows
    <3>3. ShownSame => head' = head /\ view' = view
      BY ShownNow, ShownThen DEF ShownSame
    <3> QED
      BY <2>1, <3>1, <3>2, <3>3
  <2> QED
    BY <1>2, <2>4, <2>5
<1> QED
  BY <1>1, <1>2, PTL DEF Spec, ImplementsLogView, View!Spec

=============================================================================

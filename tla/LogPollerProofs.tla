---------------------------- MODULE LogPollerProofs ----------------------------
(* Type correctness of the log poller, with lemmas about blocks. *)
EXTENDS LogPoller, SequenceTheorems, WellFoundedInduction, TLAPS

Backfilling == {"backfill", "blocks", "save"}
Fetching    == {"current", "deleteBlocks", "deleteLogs", "logs", "insert"}
Polls       == {"poll", "replayed"}
Client      == job["client"]

Budget == [faults : Nat, incomplete : Nat, reorgs : Nat, deep : Nat, crashes : Nat, replays : Nat]

(* What TypeOK leaves open. *)
RowShape == \A n \in Saved : Len(blocks[n].hash) = n

Labels == {"idle", "latest", "current", "deleteBlocks", "deleteLogs", "logs", "insert",
           "backfill", "blocks", "save", "handoff", "waiting", "replayed"}

(* The locals of a goroutine, by where it is. *)
BatchOK(label, j) ==
    label \in Backfilling =>
        /\ j.size >= 1 /\ j.from <= j.end
        /\ label # "backfill" => To(j) >= 1 /\ \A l \in j.logs : Len(l) \in j.from..To(j)
        /\ label = "save" => j.block # NoBlock /\ Len(j.block) = To(j)

RunOK(label, j) ==
    /\ label \in {"idle", "latest"} \cup Fetching \cup Backfilling
    /\ label = "latest" => j.kind \in Polls /\ j.current >= 1
    /\ label \in Fetching => /\ j.kind \in Polls /\ j.current \in 1..j.latest
                             /\ j.finalized \in 1..j.latest
    /\ label \in Fetching \ {"current"} => j.block # NoBlock /\ Len(j.block) = j.current
    /\ label \in {"logs", "insert"} => j.looping
    /\ label \in Backfilling =>
         \/ j.kind = "backup" /\ j.end < MaxHeight
         \/ /\ j.kind \in Polls /\ j.finalized \in 1..j.latest
            /\ j.end + 1 = j.finalized /\ j.from >= 1 /\ ~j.looping

ClientOK(label, j) ==
    /\ label \in {"idle", "handoff", "waiting", "replayed"} \cup Backfilling
    /\ label # "idle" => j.kind = "replay" /\ j.requested >= 1 /\ j.current >= 1
    /\ label \in Backfilling => j.from >= 1
    /\ label = "handoff" => j.current <= j.latest

JobOK(th, label, j) ==
    /\ label \in Labels /\ j \in Job /\ BatchOK(label, j)
    /\ th = "run" => RunOK(label, j)
    /\ th = "client" => ClientOK(label, j)

TablesOK ==
    /\ blocks \in [Heights -> Row \cup {NoRow}] /\ logs \subseteq Block /\ RowShape

PollerOK ==
    /\ pc \in [Threads -> Labels] /\ job \in [Threads -> Job]
    /\ \A th \in Threads : JobOK(th, pc[th], job[th])
    /\ pc["client"] # "idle" => registered
    /\ backupPollerNextBlock \in 0..MaxHeight /\ finalityViolated \in BOOLEAN

OutsideOK ==
    /\ registered \in BOOLEAN /\ chain \in Block /\ finalized \in 0..Len(chain)
    /\ used \in Budget /\ unchecked \in BOOLEAN /\ firstPolled \in 0..MaxHeight
    /\ firstPolled > 0 => registered

TypeInv == TablesOK /\ PollerOK /\ OutsideOK

(* lp.filters is what the table has from the first poll or handled replay of the process
   on; a client that backfills before that, and so without the filter, is blind. *)
FiltersOK ==
    /\ filters \in BOOLEAN /\ filtersLoaded \in BOOLEAN /\ blind \in BOOLEAN
    /\ filters => registered
    /\ filtersLoaded \/ pc["run"] # "idle" => filters = registered
    /\ pc["client"] \in Backfilling => blind \/ filters

----------------------------------------------------------------------------
(* Blocks and their ancestors. *)

LEMMA HeightsAreNats ==
    /\ MaxHeight \in Nat /\ MaxHeight >= 1 /\ Heights \subseteq Nat
    /\ \A n \in Int : n \in Heights <=> 1 <= n /\ n <= MaxHeight
  BY BlocksAssumption DEF Heights

LEMMA Bounds ==
    MaxHeight \in Nat /\ MaxHeight >= 1 /\ BackfillBatchSize \in Nat /\ BackfillBatchSize >= 1
  BY BlocksAssumption, ParametersAssumption

LEMMA JobNumbers ==
    ASSUME NEW j \in Job
    PROVE  /\ j.requested \in Nat /\ j.current \in Nat /\ j.latest \in Nat /\ j.finalized \in Nat
           /\ j.from \in Nat /\ j.end \in Nat /\ j.size \in Nat
           /\ j.current <= MaxHeight + 1 /\ j.latest <= MaxHeight /\ j.end <= MaxHeight
           /\ j.finalized <= MaxHeight /\ j.from <= MaxHeight /\ j.size <= BackfillBatchSize
  BY Bounds DEF Job

LEMMA BlockIsSeq ==
    /\ \A b \in Block : /\ b \in Seq(Versions) /\ b # NoBlock
                         /\ Len(b) \in Nat /\ 1 <= Len(b) /\ Len(b) <= MaxHeight
    /\ \A s \in Seq(Versions) : Len(s) \in Heights => s \in Block
<1>1. ASSUME NEW b \in Block
      PROVE  b \in Seq(Versions) /\ b # NoBlock /\ Len(b) \in Nat /\ 1 <= Len(b) /\ Len(b) <= MaxHeight
  <2>1. PICK n \in Heights : b \in [1..n -> Versions]
    BY DEF Block
  <2>2. n \in Nat /\ n >= 1 /\ n <= MaxHeight
    BY HeightsAreNats, <2>1
  <2>3. b \in Seq(Versions)
    BY <2>1, <2>2, SeqDef
  <2>4. Len(b) = n
    BY <2>1, <2>2, <2>3, LenProperties
  <2>5. b # NoBlock
    BY <2>2, <2>3, <2>4, EmptySeq DEF NoBlock
  <2> QED
    BY <2>1, <2>2, <2>3, <2>4, <2>5
<1>2. ASSUME NEW s \in Seq(Versions), Len(s) \in Heights
      PROVE  s \in Block
  BY <1>2, LenProperties DEF Block
<1> QED
  BY <1>1, <1>2

LEMMA AtIsBlock ==
    ASSUME NEW b \in Block, NEW n \in 1..Len(b)
    PROVE  At(b, n) \in Block /\ Len(At(b, n)) = n /\ n \in Heights
<1>1. b \in Seq(Versions) /\ Len(b) \in Heights /\ n \in Heights /\ n \in Nat /\ n >= 1
  BY BlockIsSeq, HeightsAreNats
<1>2. \A i \in 1..n : b[i] \in Versions
  BY <1>1, ElementOfSeq, HeightsAreNats
<1>3. SubSeq(b, 1, n) \in Seq(Versions) /\ Len(SubSeq(b, 1, n)) = n
  BY <1>1, <1>2, SubSeqProperties
<1> QED
  BY <1>1, <1>3, BlockIsSeq DEF At

LEMMA AtOfAt ==
    ASSUME NEW b \in Block, NEW n \in 1..Len(b), NEW m \in 0..n
    PROVE  At(At(b, n), m) = At(b, m)
<1>1. b \in Seq(Versions) /\ n \in Nat /\ m \in Nat /\ Len(b) \in Nat /\ n <= Len(b)
  BY BlockIsSeq, HeightsAreNats
<1>2. CASE m = 0
  BY <1>1, <1>2, SubSeqEmpty DEF At
<1>3. CASE m # 0
  <2>1. m \in 1..n /\ 1 \in 1..n /\ 1 \in 1..Len(b)
    BY <1>1, <1>3
  <2>2. SubSeq(SubSeq(b, 1, n), 1, m) = SubSeq(b, 1 + 1 - 1, 1 + m - 1)
    BY <1>1, <2>1, SubSeqOfSubSeq
  <2> QED
    BY <1>1, <2>2 DEF At
<1> QED
  BY <1>2, <1>3

LEMMA AtSelf ==
    ASSUME NEW b \in Block
    PROVE  At(b, Len(b)) = b
  BY BlockIsSeq, SubSeqFull DEF At

LEMMA AtZero == \A b : At(b, 0) = NoBlock
  BY SubSeqEmpty DEF At, NoBlock

LEMMA AppendToBlock ==
    ASSUME NEW b \in Block, NEW v \in Versions, Len(b) < MaxHeight
    PROVE  /\ Append(b, v) \in Block /\ Len(Append(b, v)) = Len(b) + 1
           /\ \A n \in 0..Len(b) : At(Append(b, v), n) = At(b, n)
<1>1. b \in Seq(Versions) /\ Len(b) \in Nat /\ Len(b) + 1 \in Heights
  BY BlockIsSeq, HeightsAreNats, BlocksAssumption
<1>2. Append(b, v) \in Seq(Versions) /\ Len(Append(b, v)) = Len(b) + 1
  BY <1>1
<1>3. Append(b, v) \in Block
  BY <1>1, <1>2, BlockIsSeq
<1>4. ASSUME NEW n \in 0..Len(b)
      PROVE  At(Append(b, v), n) = At(b, n)
  <2>1. CASE n = 0
    BY <2>1, AtZero
  <2>2. CASE n # 0
    <3>1. n \in 1..Len(b) /\ n \in 1..Len(Append(b, v))
      BY <1>1, <1>2, <2>2
    <3>2. Append(b, v) = b \o <<v>>
      BY <1>1
    <3>3. 1 \in 1..Len(b) /\ <<v>> \in Seq(Versions)
      BY <1>1, <3>1
    <3>4. SubSeq(b \o <<v>>, 1, n) = SubSeq(b, 1, n)
      BY <1>1, <3>1, <3>3, SubSeqOfConcat1
    <3> QED
      BY <3>2, <3>4 DEF At
  <2> QED
    BY <2>1, <2>2
<1> QED
  BY <1>2, <1>3, <1>4

(* Two blocks are equal above where they are equal below. *)
LEMMA AtMonotonic ==
    ASSUME NEW b \in Block, NEW c \in Block,
           NEW n \in 0..Len(b), n <= Len(c), NEW m \in 0..n, At(b, n) = At(c, n)
    PROVE  At(b, m) = At(c, m)
<1>1. CASE n = 0
  <2>1. m = 0
    BY <1>1
  <2> QED
    BY <2>1, AtZero
<1>2. CASE n # 0
  <2>1. n \in 1..Len(b) /\ n \in 1..Len(c)
    BY <1>2, BlockIsSeq, HeightsAreNats
  <2> QED
    BY <2>1, AtOfAt
<1> QED
  BY <1>1, <1>2

LEMMA MaxIs ==
    ASSUME NEW N \in Nat, NEW S, S \subseteq 0..N, S # {}
    PROVE  Max(S) \in S /\ \A y \in S : y <= Max(S)
<1> DEFINE T == {N - x : x \in S}
<1> DEFINE R == OpToRel(<, Nat)
<1>1. T \subseteq Nat /\ T # {}
  <2>1. \A x \in 0..N : N - x \in Nat
    OBVIOUS
  <2>2. PICK x \in S : TRUE
    OBVIOUS
  <2> QED
    BY <2>1, <2>2, ZenonT(20)
<1>2. PICK m \in T : \A y \in T : ~(<<y, m>> \in R)
  <2> HIDE DEF R, T
  <2> QED
    BY <1>1, NatLessThanWellFounded, WFMin DEF R
<1>3. \A y \in T : m <= y
  <2> TAKE y \in T
  <2>1. y \in Nat /\ m \in Nat
    BY <1>1
  <2>2. y < m => <<y, m>> \in R
    BY <2>1 DEF OpToRel
  <2>3. ~(y < m)
    <3> HIDE DEF R
    <3> QED
      BY <1>2, <2>2
  <2> QED
    BY <2>1, <2>3
<1>4. \E x \in S : \A y \in S : x >= y
  <2>1. PICK x \in S : m = N - x
    OBVIOUS
  <2>2. ASSUME NEW y \in S
        PROVE  x >= y
    <3>1. N - y \in T
      OBVIOUS
    <3>2. m <= N - y
      BY <1>3, <3>1
    <3> QED
      BY <2>1, <3>2
  <2> QED
    BY <2>2
<1>5. Max(S) \in S /\ \A y \in S : Max(S) >= y
  BY <1>4, Zenon DEF Max
<1> QED
  BY <1>5

----------------------------------------------------------------------------
(* The last row, and what is final. *)

LEMMA LatestRowIs ==
    ASSUME TypeInv
    PROVE  /\ Saved \subseteq 1..MaxHeight /\ LatestNumber \in 0..MaxHeight
           /\ Saved = {} => LatestNumber = 0
           /\ Saved # {} => /\ LatestNumber \in Saved /\ \A n \in Saved : n <= LatestNumber
                           /\ LatestRow \in Row /\ LatestRow.hash \in Block
                           /\ Len(LatestRow.hash) = LatestNumber
                           /\ LatestRow.finalized \in 1..MaxHeight
<1>1. Saved \subseteq 0..MaxHeight /\ Saved \subseteq 1..MaxHeight
  BY DEF Saved, Heights
<1>2. CASE Saved = {}
  BY <1>2, HeightsAreNats DEF LatestNumber
<1>3. CASE Saved # {}
  <2>1. LatestNumber = Max(Saved)
    BY <1>3 DEF LatestNumber
  <2>2. LatestNumber \in Saved /\ \A n \in Saved : n <= LatestNumber
    BY <1>1, <1>3, <2>1, HeightsAreNats, MaxIs
  <2>3. LatestRow \in Row
    BY <2>2 DEF TypeInv, TablesOK, LatestRow, Saved
  <2> QED
    BY <1>1, <1>3, <2>2, <2>3 DEF TypeInv, TablesOK, RowShape, LatestRow, Row, Heights
<1> QED
  BY <1>1, <1>2, <1>3

LEMMA SavedRowIs ==
    ASSUME TypeInv, NEW n \in Saved
    PROVE  /\ n \in 1..MaxHeight /\ blocks[n] \in Row /\ blocks[n].hash \in Block
           /\ Len(blocks[n].hash) = n /\ blocks[n].finalized \in 1..MaxHeight
  BY DEF TypeInv, TablesOK, RowShape, Saved, Row, Heights

LEMMA LatestFinalizedIs ==
    ASSUME TypeInv
    PROVE  /\ LatestFinalized \in 1..Len(chain) /\ chain \in Block
           /\ Len(chain) \in 1..MaxHeight /\ finalized \in Nat /\ finalized <= LatestFinalized
  BY BlockIsSeq, HeightsAreNats DEF TypeInv, OutsideOK, LatestFinalized, Larger

----------------------------------------------------------------------------
(* Types: what the steps are made of. *)

LEMMA NoJobOK ==
    /\ NoJob \in Job
    /\ \A th \in Threads : JobOK(th, "idle", NoJob)
<1>1. NoJob \in Job
  BY ParametersAssumption, HeightsAreNats DEF NoJob, Job
<1>2. BatchOK("idle", NoJob) /\ RunOK("idle", NoJob) /\ ClientOK("idle", NoJob)
  BY DEF BatchOK, RunOK, ClientOK, Backfilling, Fetching
<1> QED
  BY <1>1, <1>2 DEF JobOK, Labels

LEMMA TablesSame ==
    ASSUME TypeInv, UNCHANGED tables
    PROVE  TablesOK' /\ Saved' = Saved /\ LatestNumber' = LatestNumber /\ LatestRow' = LatestRow
<1>1. Saved' = Saved
  BY DEF tables, Saved
<1>2. LatestNumber' = LatestNumber
  BY <1>1 DEF LatestNumber
<1>3. LatestRow' = LatestRow
  BY <1>2 DEF tables, LatestRow
<1> QED
  BY <1>1, <1>2, <1>3 DEF TypeInv, TablesOK, RowShape, tables

LEMMA OutsideSame ==
    ASSUME TypeInv, UNCHANGED <<outside, firstPolled>>, used' \in Budget, unchecked' \in BOOLEAN
    PROVE  OutsideOK'
  BY DEF TypeInv, OutsideOK, outside

LEMMA SpendIs ==
    ASSUME TypeInv,
           NEW what \in {"faults", "incomplete", "reorgs", "deep", "crashes", "replays"},
           NEW bound, Spend(what, bound)
    PROVE  /\ used' \in Budget /\ used'[what] = used[what] + 1
           /\ \A other \in {"faults", "incomplete", "reorgs", "deep", "crashes", "replays"} :
                 other # what => used'[other] = used[other]
<1>1. used \in Budget /\ used' = [used EXCEPT ![what] = @ + 1]
  BY DEF TypeInv, OutsideOK, Spend
<1>2. used' = [used EXCEPT !.faults = @ + 1] \/ used' = [used EXCEPT !.incomplete = @ + 1]
      \/ used' = [used EXCEPT !.reorgs = @ + 1] \/ used' = [used EXCEPT !.deep = @ + 1]
      \/ used' = [used EXCEPT !.crashes = @ + 1] \/ used' = [used EXCEPT !.replays = @ + 1]
  BY <1>1
<1>3. used' \in Budget
  BY <1>1, <1>2 DEF Budget
<1> QED
  BY <1>1, <1>3 DEF Budget

LEMMA GotoIs ==
    ASSUME TypeInv, NEW th \in Threads, NEW label, NEW j,
           Goto(th, label, j), JobOK(th, label, j),
           th = "client" /\ label # "idle" => registered, registered' = registered,
           backupPollerNextBlock' \in 0..MaxHeight, finalityViolated' \in BOOLEAN
    PROVE  PollerOK'
<1>1. label \in Labels /\ j \in Job
  BY DEF JobOK
<1>2. pc' \in [Threads -> Labels] /\ job' \in [Threads -> Job]
  BY <1>1 DEF TypeInv, PollerOK, Goto
<1>3. \A t \in Threads : JobOK(t, pc'[t], job'[t])
  BY DEF TypeInv, PollerOK, Goto
<1>4. pc'["client"] # "idle" => registered'
  BY DEF TypeInv, PollerOK, Goto, Threads
<1> QED
  BY <1>2, <1>3, <1>4 DEF PollerOK

LEMMA ResumeIs ==
    ASSUME TypeInv, NEW th \in Threads, NEW label, NEW j,
           Resume(th, label, j), JobOK(th, label, j),
           th = "client" /\ label # "idle" => registered, registered' = registered
    PROVE  PollerOK'
<1>1. backupPollerNextBlock' \in 0..MaxHeight /\ finalityViolated' \in BOOLEAN
  BY DEF TypeInv, PollerOK, Resume
<1> QED
  BY <1>1, GotoIs DEF Resume

LEMMA ReturnIs ==
    ASSUME TypeInv, NEW th \in Threads, NEW outcome, Return(th, outcome),
           registered' = registered
    PROVE  PollerOK'
<1>1. FlagAfter(job[th].kind, outcome) \in BOOLEAN
  BY DEF TypeInv, PollerOK, FlagAfter
<1>2. \A t \in Threads : pc'[t] \in Labels /\ (pc'[t] # "idle" => t # th)
                        /\ (pc'[t] = pc[t] \/ pc'[t] = "idle" \/ (pc[t] = "waiting" /\ pc'[t] = "replayed"))
  BY DEF TypeInv, PollerOK, Return, Labels, Threads
<1>3. \A t \in Threads : job'[t] = IF t = th THEN NoJob ELSE job[t]
  BY DEF TypeInv, PollerOK, Return
<1>4. pc' \in [Threads -> Labels] /\ job' \in [Threads -> Job]
  BY <1>2, <1>3, NoJobOK DEF TypeInv, PollerOK, Return
<1>5. ASSUME NEW t \in Threads
      PROVE  JobOK(t, pc'[t], job'[t])
  <2>1. CASE t = th
    BY <1>2, <1>3, <2>1, NoJobOK DEF TypeInv, PollerOK
  <2>2. CASE t # th
    <3>1. JobOK(t, pc[t], job[t]) /\ job'[t] = job[t] /\ pc'[t] \in Labels
          /\ (pc'[t] = pc[t] \/ (pc[t] = "waiting" /\ pc'[t] = "replayed"))
      BY <1>2, <1>3, <2>2 DEF TypeInv, PollerOK, Return
    <3> QED
      BY <3>1 DEF JobOK, BatchOK, RunOK, ClientOK, Backfilling, Fetching, Labels
  <2> QED
    BY <2>1, <2>2
<1>6. pc'["client"] # "idle" => registered'
  BY <1>2 DEF TypeInv, PollerOK, Threads
<1>7. backupPollerNextBlock' \in 0..MaxHeight /\ finalityViolated' \in BOOLEAN
  BY <1>1 DEF TypeInv, PollerOK, Return
<1> QED
  BY <1>4, <1>5, <1>6, <1>7 DEF PollerOK

LEMMA PollerSame ==
    ASSUME TypeInv, UNCHANGED poller, registered => registered', registered' \in BOOLEAN
    PROVE  PollerOK'
  BY DEF TypeInv, PollerOK, poller

----------------------------------------------------------------------------
(* Types, action by action. *)

LEMMA InitTypes == Init => TypeInv
<1> SUFFICES ASSUME Init PROVE TypeInv
  OBVIOUS
<1>1. Saved = {}
  BY DEF Init, Saved
<1>2. TablesOK
  BY <1>1 DEF Init, TablesOK, RowShape
<1>3. PollerOK
  <2>2. pc = [th \in Threads |-> "idle"] /\ job = [th \in Threads |-> NoJob]
        /\ backupPollerNextBlock = 0 /\ finalityViolated = FALSE
    BY DEF Init
  <2>4. pc \in [Threads -> Labels] /\ job \in [Threads -> Job]
    BY <2>2, NoJobOK DEF Labels
  <2>5. backupPollerNextBlock \in 0..MaxHeight
    BY <2>2, HeightsAreNats
  <2> QED
    BY <2>2, <2>4, <2>5, NoJobOK DEF PollerOK, Threads
<1>4. OutsideOK
  <2>1. PICK v \in Versions : chain = <<v>>
    BY DEF Init
  <2>2. chain \in Seq(Versions) /\ Len(chain) = 1 /\ Len(chain) \in Heights
    BY <2>1, HeightsAreNats
  <2>3. chain \in Block
    BY <2>2, BlockIsSeq
  <2>4. used \in Budget
    BY DEF Init, Budget
  <2>5. registered \in BOOLEAN /\ finalized = 0 /\ unchecked = FALSE /\ firstPolled = 0
    BY ParametersAssumption DEF Init
  <2>6. finalized \in 0..Len(chain) /\ firstPolled \in 0..MaxHeight /\ ~(firstPolled > 0)
    BY <2>2, <2>5, HeightsAreNats
  <2> QED
    BY <2>3, <2>4, <2>5, <2>6 DEF OutsideOK
<1> QED
  BY <1>2, <1>3, <1>4 DEF TypeInv

LEMMA StartPollTypes ==
    ASSUME TypeInv, StartPoll
    PROVE  TypeInv'
<1> DEFINE start == IF Saved = {} THEN LatestFinalized ELSE LatestNumber + 1
           j == [NoJob EXCEPT !.kind = "poll", !.current = start]
<1>1. start \in 0..(MaxHeight + 1) /\ start >= 1 /\ (Saved = {} => start \in 0..MaxHeight)
  BY LatestRowIs, LatestFinalizedIs, HeightsAreNats
<1>2. UNCHANGED <<tables, registered, chain, finalized, unchecked>>
  BY DEF StartPoll
<1>3. CASE Fault /\ UNCHANGED <<poller, firstPolled>>
  <2>1. PollerOK'
    BY <1>2, <1>3, PollerSame DEF TypeInv, OutsideOK
  <2>2. OutsideOK'
    BY <1>2, <1>3, SpendIs DEF Fault, TypeInv, OutsideOK
  <2> QED
    BY <1>2, <2>1, <2>2, TablesSame DEF TypeInv
<1>4. CASE /\ Resume("run", "latest", j)
           /\ firstPolled' = IF Saved = {} /\ registered THEN start ELSE firstPolled
           /\ UNCHANGED used
  <2> HIDE DEF start
  <2>1. j \in Job
    BY <1>1, NoJobOK DEF Job
  <2>2. JobOK("run", "latest", j)
    BY <1>1, <2>1 DEF JobOK, BatchOK, RunOK, Labels, Backfilling, Fetching, Polls, NoJob
  <2>3. PollerOK'
    BY <1>2, <1>4, <2>2, ResumeIs DEF Threads
  <2>4. OutsideOK'
    BY <1>1, <1>2, <1>4 DEF TypeInv, OutsideOK
  <2> QED
    BY <1>2, <2>3, <2>4, TablesSame DEF TypeInv
<1> QED
  BY <1>3, <1>4 DEF StartPoll

LEMMA LogsInAre ==
    ASSUME NEW head \in Block, NEW from \in Int, NEW to \in Int
    PROVE  \A l : l \in LogsIn(head, from, to) <=>
              \E n \in 1..Len(head) : from <= n /\ n <= to /\ l = At(head, n) /\ HasLogs(l)
<1>1. Len(head) \in Nat
  BY BlockIsSeq
<1>2. {k \in from..to : k \in 1..Len(head)} = {k \in 1..Len(head) : from <= k /\ k <= to}
  BY <1>1
<1>3. \A b, l : l \in LogsOf(b) <=> l = b /\ HasLogs(b)
  BY DEF LogsOf
<1> QED
  BY <1>2, <1>3 DEF LogsIn

LEMMA ToIs ==
    ASSUME NEW j \in Job, j.size >= 1, j.from <= j.end
    PROVE  To(j) \in j.from..j.end /\ To(j) \in Nat /\ NextFrom(j) \in Nat /\ NextFrom(j) > To(j) - 1
           /\ (NextFrom(j) <= j.end => To(j) = NextFrom(j) - 1)
           /\ (NextFrom(j) > j.end => To(j) = j.end)
<1>1. j.from \in Nat /\ j.end \in Nat /\ j.size \in Nat
  BY HeightsAreNats, ParametersAssumption DEF Job
<1> QED
  BY <1>1 DEF To, NextFrom, Smaller

LEMMA WithBlockTypes ==
    ASSUME TypeInv, NEW block \in Block, NEW number \in Heights,
           blocks' = WithBlock(block, number), logs' \subseteq Block
    PROVE  TablesOK'
<1>1. Len(block) \in Heights /\ number \in Heights /\ block # NoBlock
  BY BlockIsSeq, HeightsAreNats
<1>2. [hash |-> block, finalized |-> number] \in Row
  BY <1>1 DEF Row
<1>3. blocks' \in [Heights -> Row \cup {NoRow}]
  BY <1>1, <1>2 DEF WithBlock, TypeInv, TablesOK
<1>4. \A n \in Heights : blocks'[n] = blocks[n]
         \/ (n = Len(block) /\ blocks'[n] = [hash |-> block, finalized |-> number])
  BY <1>1 DEF WithBlock, TypeInv, TablesOK
<1>5. RowShape'
  BY <1>4 DEF RowShape, TypeInv, TablesOK, Saved
<1> QED
  BY <1>3, <1>5 DEF TablesOK

----------------------------------------------------------------------------
(* Types: backfill. *)

LEMMA AfterBackfillTypes ==
    ASSUME TypeInv, NEW th \in Threads, pc[th] \in Backfilling,
           NEW j \in Job, j.kind = job[th].kind, j.current = job[th].current,
           j.latest = job[th].latest, j.end = job[th].end, j.finalized = job[th].finalized,
           j.requested = job[th].requested,
           AfterBackfill(th, j), registered' = registered
    PROVE  PollerOK'
<1>1. JobOK(th, pc[th], job[th]) /\ job[th] \in Job
  BY DEF TypeInv, PollerOK
<1>2. /\ j.current \in Nat /\ j.latest \in Nat /\ j.end \in Nat /\ j.finalized \in Nat
      /\ j.finalized <= MaxHeight /\ MaxHeight \in Nat
  BY JobNumbers, Bounds
<1>3. CASE th = "client"
  <2>1. j.kind = "replay" /\ j.current >= 1 /\ j.requested >= 1 /\ registered
    BY <1>1, <1>2, <1>3 DEF JobOK, ClientOK, Backfilling, TypeInv, PollerOK
  <2>2. CASE j.current > j.latest
    <3>1. Return("client", "ok")
      BY <1>3, <2>1, <2>2 DEF AfterBackfill
    <3> QED
      BY <3>1, ReturnIs DEF Threads
  <2>3. CASE ~(j.current > j.latest)
    <3>1. Resume("client", "handoff", j)
      BY <1>3, <2>1, <2>3 DEF AfterBackfill
    <3>2. j.current <= j.latest
      BY <1>2, <2>3
    <3>3. JobOK("client", "handoff", j)
      BY <2>1, <3>2 DEF JobOK, BatchOK, ClientOK, Labels, Backfilling
    <3> QED
      BY <2>1, <3>1, <3>3, ResumeIs DEF Threads
  <2> QED
    BY <2>2, <2>3
<1>4. CASE th = "run"
  <2>1. RunOK(pc["run"], job["run"])
    BY <1>1, <1>4 DEF JobOK
  <2>2. CASE j.kind = "backup"
    <3>1. Goto("run", "idle", NoJob) /\ backupPollerNextBlock' = j.end + 1 /\ UNCHANGED finalityViolated
      BY <1>4, <2>2 DEF AfterBackfill, AfterEnd
    <3>2. j.end + 1 \in 0..MaxHeight
      BY <1>2, <1>4, <2>1, <2>2 DEF RunOK, Backfilling, Polls
    <3> QED
      BY <3>1, <3>2, NoJobOK, GotoIs DEF Threads, TypeInv, PollerOK
  <2>3. CASE j.kind # "backup"
    <3>1. /\ j.kind \in Polls /\ j.finalized \in 1..j.latest
          /\ j.end + 1 = j.finalized
      BY <1>2, <1>4, <2>1, <2>3 DEF RunOK, Backfilling
    <3> DEFINE k == [j EXCEPT !.current = AfterEnd(j), !.looping = TRUE]
    <3>2. Resume("run", "current", k)
      BY <1>4, <3>1 DEF AfterBackfill, Polls
    <3>5. AfterEnd(j) = j.finalized /\ AfterEnd(j) \in 0..(MaxHeight + 1)
      BY <1>2, <3>1 DEF AfterEnd
    <3>3. k \in Job /\ k.current = j.finalized /\ k.latest = j.latest /\ k.finalized = j.finalized
          /\ k.kind = j.kind
      BY <3>5 DEF Job
    <3>4. JobOK("run", "current", k)
      BY <3>1, <3>3 DEF JobOK, BatchOK, RunOK, Labels, Backfilling, Fetching
    <3> QED
      BY <3>2, <3>4, ResumeIs DEF Threads
  <2> QED
    BY <2>2, <2>3
<1> QED
  BY <1>3, <1>4 DEF Threads

LEMMA NextBatchTypes ==
    ASSUME TypeInv, NEW th \in Threads, pc[th] \in Backfilling,
           NextBatch(th, job[th]), registered' = registered
    PROVE  PollerOK'
<1> DEFINE j == job[th]
<1>1. JobOK(th, pc[th], j) /\ j \in Job
  BY DEF TypeInv, PollerOK
<1>2. j.size >= 1 /\ j.from <= j.end
  BY <1>1 DEF JobOK, BatchOK
<1>3. CASE NextFrom(j) > j.end
  <2> DEFINE k == [j EXCEPT !.logs = {}, !.size = 0, !.from = 0]
  <2>3. 0 \in 0..BackfillBatchSize /\ 0 \in 0..MaxHeight
    BY Bounds
  <2>1. k \in Job
    BY <1>1, <2>3 DEF Job
  <2>2. AfterBackfill(th, k)
    BY <1>3 DEF NextBatch
  <2>4. k.kind = j.kind /\ k.current = j.current /\ k.latest = j.latest /\ k.end = j.end
        /\ k.finalized = j.finalized /\ k.requested = j.requested
    BY <1>1 DEF Job
  <2> HIDE DEF k
  <2> QED
    BY <2>1, <2>2, <2>4, AfterBackfillTypes
<1>4. CASE ~(NextFrom(j) > j.end)
  <2> DEFINE k == [j EXCEPT !.logs = {}, !.from = NextFrom(j)]
  <2>1. NextFrom(j) \in 0..MaxHeight /\ NextFrom(j) <= j.end /\ NextFrom(j) >= j.from /\ NextFrom(j) >= 1
    BY <1>1, <1>2, <1>4, ToIs, HeightsAreNats, ParametersAssumption DEF Job, NextFrom
  <2>2. k \in Job
    BY <1>1, <2>1 DEF Job
  <2>3. k.size = j.size /\ k.end = j.end /\ k.from = NextFrom(j) /\ k.kind = j.kind /\ k.finalized = j.finalized
        /\ k.latest = j.latest /\ k.looping = j.looping /\ k.current = j.current /\ k.requested = j.requested
    BY <1>1 DEF Job
  <2>4. JobOK(th, "backfill", k)
    BY <1>1, <1>2, <2>1, <2>2, <2>3 DEF JobOK, BatchOK, RunOK, ClientOK, Labels, Backfilling, Fetching
  <2>5. Resume(th, "backfill", k)
    BY <1>4 DEF NextBatch
  <2>6. th = "client" => registered
    BY DEF TypeInv, PollerOK, Backfilling
  <2> QED
    BY <2>4, <2>5, <2>6, ResumeIs
<1> QED
  BY <1>3, <1>4

LEMMA FilterLogsInRangeTypes ==
    ASSUME TypeInv, NEW th \in Threads, FilterLogsInRange(th)
    PROVE  TypeInv'
<1> DEFINE j == job[th]
           found == Matching(LogsIn(chain, j.from, To(j)))
<1>1. pc[th] = "backfill" /\ UNCHANGED <<tables, outside, history>> /\ pc[th] \in Backfilling
      /\ registered' = registered /\ (th = "client" => registered)
  BY DEF FilterLogsInRange, Backfilling, outside, TypeInv, PollerOK
<1>2. JobOK(th, "backfill", j) /\ j \in Job /\ j.size >= 1 /\ j.from <= j.end
  BY <1>1 DEF TypeInv, PollerOK, JobOK, BatchOK
<1>3. used' \in Budget /\ PollerOK'
  <2>1. CASE Fault /\ Return(th, "error")
    BY <1>1, <2>1, SpendIs, ReturnIs DEF Fault
  <2>2. CASE Fault /\ j.size > 1 /\ Resume(th, "backfill", [j EXCEPT !.size = @ \div 2])
    <3> DEFINE k == [j EXCEPT !.size = @ \div 2]
    <3>1. j.size \div 2 \in 0..BackfillBatchSize /\ j.size \div 2 >= 1
      <4>1. j.size \in Nat /\ j.size >= 2 /\ j.size <= BackfillBatchSize /\ BackfillBatchSize \in Nat
        BY <1>2, <2>2, ParametersAssumption DEF Job
      <4> QED
        BY <4>1
    <3>2. k \in Job /\ k.size >= 1
      BY <1>2, <3>1 DEF Job
    <3>3. k.end = j.end /\ k.from = j.from /\ k.kind = j.kind /\ k.finalized = j.finalized
        /\ k.latest = j.latest /\ k.looping = j.looping /\ k.current = j.current /\ k.requested = j.requested
      BY <1>2 DEF Job
    <3> HIDE DEF k
    <3>4. JobOK(th, "backfill", k)
      BY <1>2, <3>2, <3>3 DEF JobOK, BatchOK, RunOK, ClientOK, Labels, Backfilling, Fetching
    <3>5. Resume(th, "backfill", k)
      BY <2>2 DEF k
    <3> QED
      BY <1>1, <2>2, <3>4, <3>5, SpendIs, ResumeIs DEF Fault
  <2>3. ASSUME NEW got \in SUBSET found,
               IF got = found THEN UNCHANGED used ELSE Spend("incomplete", MaxIncomplete),
               IF got = {} THEN NextBatch(th, j) ELSE Resume(th, "blocks", [j EXCEPT !.logs = got])
        PROVE  used' \in Budget /\ PollerOK'
    <3>1. used' \in Budget
      BY <2>3, SpendIs DEF TypeInv, OutsideOK
    <3>2. CASE got = {}
      BY <1>1, <2>3, <3>1, <3>2, NextBatchTypes
    <3>3. CASE got # {}
      <4> DEFINE k == [j EXCEPT !.logs = got]
      <4>1. chain \in Block /\ j.from \in Nat /\ j.end \in Nat /\ To(j) \in j.from..j.end /\ To(j) \in Nat
        BY <1>2, ToIs, HeightsAreNats DEF Job, TypeInv, OutsideOK
      <4>2. \A l \in got : l \in Block /\ Len(l) \in j.from..To(j) /\ Len(l) >= 1
        <5>1. \A l \in got : l \in LogsIn(chain, j.from, To(j))
          BY DEF Matching
        <5> QED
          BY <4>1, <5>1, LogsInAre, AtIsBlock
      <4>3. To(j) >= 1
        BY <3>3, <4>1, <4>2
      <4>4. k \in Job
        BY <1>2, <4>2 DEF Job
      <4>5. k.size = j.size /\ k.end = j.end /\ k.from = j.from /\ k.kind = j.kind /\ k.finalized = j.finalized
        /\ k.latest = j.latest /\ k.looping = j.looping /\ k.current = j.current /\ k.requested = j.requested
        /\ k.logs = got
        BY <1>2 DEF Job
      <4>6. To(k) = To(j)
        BY <4>5 DEF To
      <4> HIDE DEF k
      <4>7. JobOK(th, "blocks", k)
        BY <1>2, <4>2, <4>3, <4>4, <4>5, <4>6 DEF JobOK, BatchOK, RunOK, ClientOK, Labels, Backfilling, Fetching
      <4>8. Resume(th, "blocks", k)
        BY <2>3, <3>3 DEF k
      <4> QED
        BY <1>1, <3>1, <4>7, <4>8, ResumeIs
    <3> QED
      BY <3>2, <3>3
  <2> QED
    BY <2>1, <2>2, <2>3 DEF FilterLogsInRange
<1> QED
  BY <1>1, <1>3, TablesSame, OutsideSame DEF TypeInv, OutsideOK, history

LEMMA BlocksFromFinalizedLogsTypes ==
    ASSUME TypeInv, NEW th \in Threads, BlocksFromFinalizedLogs(th)
    PROVE  TypeInv'
<1> DEFINE j == job[th]
           numbers == {Len(l) : l \in j.logs} \cup {To(j)}
           Blocks(missing) == [n \in numbers |-> IF n \in missing THEN At(chain, n) ELSE blocks[n].hash]
           Saves(missing) == /\ \A n \in missing : n <= finalized
                             /\ Resume(th, "save", [j EXCEPT !.block = Blocks(missing)[To(j)]])
           Fetched(missing) == \/ Return(th, "error") \/ Return(th, "violated") \/ Saves(missing)
<1>1. pc[th] = "blocks" /\ UNCHANGED <<tables, outside, history>> /\ pc[th] \in Backfilling
      /\ registered' = registered /\ (th = "client" => registered)
  BY DEF BlocksFromFinalizedLogs, Backfilling, outside, TypeInv, PollerOK
<1>2. JobOK(th, "blocks", j) /\ j \in Job /\ j.size >= 1 /\ j.from <= j.end /\ To(j) >= 1
      /\ \A l \in j.logs : Len(l) \in j.from..To(j)
  BY <1>1 DEF TypeInv, PollerOK, JobOK, BatchOK
<1>3. used' \in Budget /\ \E missing \in {numbers, numbers \ Saved} : Fetched(missing)
  <2>1. used' \in Budget
    BY SpendIs DEF BlocksFromFinalizedLogs, Fault, TypeInv, OutsideOK
  <2>2. finalized \in Nat
    BY LatestFinalizedIs
  <2>3. ASSUME NEW missing, missing \subseteq numbers,
               IF missing # {} /\ ChainReference > Len(chain) THEN Return(th, "error")
               ELSE IF missing # {} /\ (ChainReference > 0 /\ At(chain, ChainReference) # blocks[ChainReference].hash)
                      THEN Return(th, "violated")
               ELSE IF \E n \in missing : n > finalized THEN Return(th, "error")
               ELSE IF \E l \in j.logs : l # Blocks(missing)[Len(l)] THEN Return(th, "violated")
                    ELSE Resume(th, "save", [j EXCEPT !.block = Blocks(missing)[To(j)]])
        PROVE  Fetched(missing)
    <3>1. numbers \subseteq Int
      BY <1>2, ToIs, JobNumbers
    <3>2. ~(\E n \in missing : n > finalized) => \A n \in missing : n <= finalized
      BY <2>2, <2>3, <3>1
    <3> QED
      BY <2>3, <3>2, Zenon
  <2> QED
    BY <2>1, <2>3 DEF BlocksFromFinalizedLogs
<1>4. ASSUME NEW missing \in {numbers, numbers \ Saved}, Fetched(missing)
      PROVE  PollerOK'
  <2>1. CASE Return(th, "error") \/ Return(th, "violated")
    BY <1>1, <2>1, ReturnIs
  <2>2. CASE Saves(missing)
    <3> DEFINE block == Blocks(missing)[To(j)]
               k == [j EXCEPT !.block = block]
    <3>1. To(j) \in numbers /\ To(j) \in Nat /\ To(j) >= 1
      BY <1>2, ToIs
    <3>2. block \in Block /\ Len(block) = To(j)
      <4>1. CASE To(j) \in missing
        <5>1. To(j) \in 1..Len(chain) /\ chain \in Block
          <6>1. To(j) <= finalized /\ finalized <= LatestFinalized /\ LatestFinalized <= Len(chain)
                /\ Len(chain) \in Nat /\ finalized \in Nat /\ LatestFinalized \in Nat
            BY <2>2, <4>1, LatestFinalizedIs
          <6> QED
            BY <3>1, <6>1, LatestFinalizedIs
        <5>2. block = At(chain, To(j))
          BY <3>1, <4>1
        <5> QED
          BY <5>1, <5>2, AtIsBlock
      <4>2. CASE To(j) \notin missing
        <5>1. To(j) \in Saved
          BY <3>1, <4>2
        <5>2. block = blocks[To(j)].hash
          BY <3>1, <4>2
        <5> QED
          BY <5>1, <5>2, SavedRowIs
      <4> QED
        BY <4>1, <4>2
    <3>3. Resume(th, "save", k)
      BY <2>2
    <3> HIDE DEF block
    <3>4. k \in Job /\ k.size = j.size /\ k.end = j.end /\ k.from = j.from /\ k.kind = j.kind
        /\ k.finalized = j.finalized
        /\ k.latest = j.latest /\ k.looping = j.looping /\ k.current = j.current /\ k.requested = j.requested
        /\ k.logs = j.logs /\ k.block = block
      BY <1>2, <3>2 DEF Job
    <3>5. To(k) = To(j) /\ block # NoBlock
      BY <3>2, <3>4, BlockIsSeq DEF To
    <3> HIDE DEF k
    <3>6. JobOK(th, "save", k)
      BY <1>2, <3>2, <3>4, <3>5 DEF JobOK, BatchOK, RunOK, ClientOK, Labels, Backfilling, Fetching
    <3> QED
      BY <1>1, <3>3, <3>6, ResumeIs
  <2> QED
    BY <1>4, <2>1, <2>2
<1> QED
  BY <1>1, <1>3, <1>4, TablesSame, OutsideSame DEF TypeInv, OutsideOK, history

LEMMA SaveBatchTypes ==
    ASSUME TypeInv, NEW th \in Threads, SaveBatch(th)
    PROVE  TypeInv'
<1> DEFINE j == job[th]
<1>1. pc[th] = "save" /\ UNCHANGED <<outside, history>> /\ pc[th] \in Backfilling
      /\ registered' = registered
  BY DEF SaveBatch, Backfilling, outside
<1>2. JobOK(th, "save", j) /\ j \in Job /\ j.block # NoBlock /\ Len(j.block) = To(j)
  BY <1>1 DEF TypeInv, PollerOK, JobOK, BatchOK, Backfilling
<1>3. CASE Fault /\ Return(th, "error") /\ UNCHANGED tables
  BY <1>1, <1>3, ReturnIs, SpendIs, TablesSame, OutsideSame DEF Fault, TypeInv, OutsideOK, history
<1>4. CASE /\ blocks' = WithBlock(j.block, Len(j.block))
           /\ logs' = logs \cup j.logs
           /\ NextBatch(th, j)
           /\ UNCHANGED used
  <2>1. j.block \in Block /\ j.logs \subseteq Block
    BY <1>2 DEF Job
  <2>2. Len(j.block) \in Heights /\ logs' \subseteq Block
    BY <1>4, <2>1, BlockIsSeq, HeightsAreNats DEF TypeInv, TablesOK
  <2>3. TablesOK'
    BY <1>4, <2>1, <2>2, WithBlockTypes
  <2>4. PollerOK'
    BY <1>1, <1>4, NextBatchTypes
  <2> QED
    BY <1>1, <1>4, <2>3, <2>4, OutsideSame DEF TypeInv, OutsideOK, history
<1> QED
  BY <1>3, <1>4 DEF SaveBatch

----------------------------------------------------------------------------
(* Types: the poll. *)

LEMMA RunIs ==
    ASSUME TypeInv
    PROVE  /\ Run \in Job /\ JobOK("run", pc["run"], Run) /\ RunOK(pc["run"], Run)
           /\ Client \in Job /\ JobOK("client", pc["client"], Client) /\ ClientOK(pc["client"], Client)
  BY DEF TypeInv, PollerOK, JobOK, Threads, Run, Client

LEMMA LatestBlocksTypes ==
    ASSUME TypeInv, LatestBlocks
    PROVE  TypeInv'
<1>1. pc["run"] = "latest" /\ UNCHANGED <<tables, outside, history>> /\ registered' = registered
  BY DEF LatestBlocks, outside
<1>2. Run \in Job /\ Run.kind \in Polls /\ Run.current >= 1 /\ Run.current \in Nat
  BY <1>1, RunIs, JobNumbers DEF RunOK
<1>3. used' \in Budget /\ PollerOK'
  <2>1. CASE Return("run", "ok") /\ (Fault \/ UNCHANGED used)
    BY <1>1, <2>1, ReturnIs, SpendIs DEF Fault, TypeInv, OutsideOK, Threads
  <2>2. CASE /\ Run.current <= Len(chain)
             /\ Resume("run", "current",
                    [Run EXCEPT !.latest = Len(chain), !.finalized = LatestFinalized,
                                !.block = IF Run.current = Len(chain) THEN chain ELSE NoBlock])
             /\ UNCHANGED used
    <3> DEFINE block == IF Run.current = Len(chain) THEN chain ELSE NoBlock
               k == [Run EXCEPT !.latest = Len(chain), !.finalized = LatestFinalized, !.block = block]
    <3>1. Len(chain) \in 0..MaxHeight /\ LatestFinalized \in 0..MaxHeight /\ block \in Block \cup {NoBlock}
          /\ LatestFinalized \in 1..Len(chain) /\ Run.current \in 1..Len(chain)
      BY <1>2, <2>2, LatestFinalizedIs, Bounds
    <3> HIDE DEF block
    <3>2. k \in Job /\ k.kind = Run.kind /\ k.current = Run.current /\ k.latest = Len(chain)
          /\ k.finalized = LatestFinalized
      BY <1>2, <3>1 DEF Job
    <3>3. Resume("run", "current", k)
      BY <2>2 DEF block
    <3> HIDE DEF k
    <3>4. JobOK("run", "current", k)
      BY <1>2, <3>1, <3>2 DEF JobOK, BatchOK, RunOK, Labels, Backfilling, Fetching
    <3> QED
      BY <1>1, <2>2, <3>3, <3>4, ResumeIs DEF Threads, TypeInv, OutsideOK
  <2> QED
    BY <2>1, <2>2 DEF LatestBlocks
<1> QED
  BY <1>1, <1>3, TablesSame, OutsideSame DEF TypeInv, OutsideOK, history

(* The job that a poll proceeds with has the block it is at. *)
LEMMA ProceedTypes ==
    ASSUME TypeInv, NEW j \in Job, j.kind \in Polls, j.current \in 1..j.latest,
           j.finalized \in 1..j.latest, j.block # NoBlock, Len(j.block) = j.current,
           Proceed(j), registered' = registered
    PROVE  PollerOK' /\ unchecked' \in BOOLEAN
<1>1. /\ j.finalized \in Nat /\ j.finalized <= MaxHeight /\ MaxHeight \in Nat /\ j.finalized >= 1
      /\ j.current \in Nat /\ j.current >= 1 /\ BackfillBatchSize \in Nat /\ BackfillBatchSize >= 1
      /\ j.current <= MaxHeight
  BY JobNumbers, Bounds
<1>2. CASE ~j.looping /\ j.finalized - 1 >= j.current
  <2> DEFINE end == j.finalized - 1
             k == [j EXCEPT !.from = j.current, !.end = end, !.size = BackfillBatchSize]
  <2>1. end \in 0..MaxHeight /\ j.current \in 0..MaxHeight /\ BackfillBatchSize \in 0..BackfillBatchSize
        /\ end + 1 = j.finalized /\ j.current <= end
    BY <1>1, <1>2
  <2>2. Goto("run", "backfill", k) /\ UNCHANGED <<backupPollerNextBlock, finalityViolated>>
        /\ unchecked' = (unchecked \/ Contradicts(end))
    BY <1>2 DEF Proceed, Backfill
  <2> HIDE DEF end
  <2>3. k \in Job /\ k.kind = j.kind /\ k.finalized = j.finalized /\ k.latest = j.latest
        /\ k.looping = j.looping /\ k.from = j.current /\ k.end = end /\ k.size = BackfillBatchSize
    BY <2>1 DEF Job
  <2> HIDE DEF k
  <2>4. JobOK("run", "backfill", k)
    BY <1>1, <1>2, <2>1, <2>3 DEF JobOK, BatchOK, RunOK, Labels, Backfilling, Fetching
  <2>5. unchecked' \in BOOLEAN
    BY <2>2, Zenon DEF TypeInv, OutsideOK
  <2> QED
    BY <2>2, <2>4, <2>5, GotoIs DEF Threads, TypeInv, PollerOK
<1>3. CASE ~(~j.looping /\ j.finalized - 1 >= j.current)
  <2> DEFINE k == [j EXCEPT !.looping = TRUE]
  <2>1. Resume("run", "logs", k) /\ UNCHANGED unchecked
    BY <1>3 DEF Proceed
  <2>2. k \in Job /\ k.kind = j.kind /\ k.finalized = j.finalized /\ k.latest = j.latest
        /\ k.looping /\ k.current = j.current /\ k.block = j.block
    BY DEF Job
  <2> HIDE DEF k
  <2>3. JobOK("run", "logs", k)
    BY <2>2 DEF JobOK, BatchOK, RunOK, Labels, Backfilling, Fetching
  <2> QED
    BY <2>1, <2>3, ResumeIs DEF Threads, TypeInv, OutsideOK
<1> QED
  BY <1>2, <1>3

(* The walk to the lowest common ancestor, and where it ends. *)
Walks(block, bound, common, missing) ==
    /\ bound = blocks[Len(block) - 1].finalized
    /\ common = CommonAncestors(block, bound) /\ missing = MissingAncestors(block, bound)
Breaks(common, missing) == missing # {} /\ (common = {} \/ Max(missing) > Max(common))

WalkIs(block, bound, common, missing) ==
    /\ Len(block) - 1 \in Saved /\ bound \in 1..MaxHeight
    /\ \A n \in bound..(Len(block) - 1) :
          n \in common <=> n \in Saved /\ blocks[n].hash = At(block, n)
    /\ common # {} =>
         /\ Max(common) \in bound..(Len(block) - 1) /\ Max(common) \in Saved
         /\ blocks[Max(common)].hash = At(block, Max(common))
         /\ \A n \in common : n <= Max(common)
    /\ common # {} /\ ~Breaks(common, missing) =>
         \A n \in bound..(Len(block) - 1) : n \notin Saved => n <= Max(common)
    /\ missing = {} => \A n \in bound..(Len(block) - 1) : n \in Saved

LEMMA RewindIs ==
    ASSUME TypeInv, NEW block \in Block, ~ParentMatches(block),
           NEW bound, NEW common, NEW missing, Walks(block, bound, common, missing)
    PROVE  WalkIs(block, bound, common, missing)
<1> USE DEF Walks
<1>1. Len(block) \in Nat /\ 1 <= Len(block) /\ Len(block) <= MaxHeight /\ MaxHeight \in Nat
  BY BlockIsSeq, Bounds
<1>2. Len(block) - 1 \in Saved /\ Len(block) - 1 \in 1..MaxHeight
  <2>1. Len(block) # 1 /\ blocks[Len(block) - 1] # NoRow
    BY DEF ParentMatches
  <2> QED
    BY <1>1, <2>1, HeightsAreNats DEF Saved, Heights
<1>3. bound \in 1..MaxHeight
  BY <1>2, SavedRowIs
<1>4. ASSUME NEW n \in bound..(Len(block) - 1)
      PROVE  /\ n \in common <=> n \in Saved /\ blocks[n].hash = At(block, n)
             /\ n \in missing <=> n \notin Saved
             /\ n \in 1..MaxHeight /\ n \in 0..MaxHeight
  <2>1. n \in 1..MaxHeight /\ n \in 1..Len(block) /\ n \in 0..MaxHeight /\ n > 0
    BY <1>1, <1>3
  <2>2. At(block, n) # NoBlock
    BY <2>1, AtIsBlock, BlockIsSeq
  <2>3. n \notin Saved => blocks[n] = NoRow
    BY <2>1 DEF Saved, Heights
  <2>4. n \notin Saved => blocks[n].hash # At(block, n)
    BY <2>2, <2>3 DEF NoRow
  <2> QED
    BY <2>1, <2>4 DEF CommonAncestors, MissingAncestors
<1>5. common \subseteq 0..MaxHeight /\ missing \subseteq 0..MaxHeight
      /\ common \subseteq bound..(Len(block) - 1)
  BY <1>4 DEF CommonAncestors, MissingAncestors
<1>6. common # {} => /\ Max(common) \in common /\ \A n \in common : n <= Max(common)
  BY <1>1, <1>5, MaxIs
<1>7. missing # {} => /\ Max(missing) \in missing /\ \A n \in missing : n <= Max(missing)
  BY <1>1, <1>5, MaxIs
<1>8. ASSUME common # {}, ~Breaks(common, missing),
             NEW n \in bound..(Len(block) - 1), n \notin Saved
      PROVE  n <= Max(common)
  <2>1. n \in missing
    BY <1>4, <1>8
  <2>2. n <= Max(missing) /\ Max(missing) \in Nat /\ Max(common) \in Nat /\ n \in Nat
    BY <1>4, <1>5, <1>6, <1>7, <1>8, <2>1
  <2>3. ~(Max(missing) > Max(common))
    BY <1>8, <2>1 DEF Breaks
  <2> QED
    BY <2>2, <2>3
<1> QED
  BY <1>2, <1>3, <1>4, <1>5, <1>6, <1>8 DEF WalkIs

LEMMA GetCurrentBlockTypes ==
    ASSUME TypeInv, GetCurrentBlock
    PROVE  TypeInv'
<1> DEFINE known == Run.block # NoBlock /\ Len(Run.block) = Run.current
           block == IF known THEN Run.block ELSE At(chain, Run.current)
           bound == blocks[Run.current - 1].finalized
           common == CommonAncestors(block, bound)
           missing == MissingAncestors(block, bound)
           broken == missing # {} /\ (common = {} \/ Max(missing) > Max(common))
           j == [Run EXCEPT !.block = block]
           k == [Run EXCEPT !.block = At(block, Max(common) + 1), !.current = Max(common) + 1]
<1>1. pc["run"] = "current" /\ UNCHANGED <<tables, outside, firstPolled>> /\ registered' = registered
  BY DEF GetCurrentBlock, outside
<1>2. Run \in Job /\ Run.kind \in Polls /\ Run.current \in 1..Run.latest /\ Run.finalized \in 1..Run.latest
      /\ Run.latest \in Nat /\ Run.latest <= MaxHeight
  BY <1>1, RunIs, JobNumbers DEF RunOK, Fetching
<1>3. used' \in Budget
  BY SpendIs DEF GetCurrentBlock, Fault, TypeInv, OutsideOK
<1>4. PollerOK' /\ unchecked' \in BOOLEAN
  <2>1. CASE UNCHANGED unchecked /\ (Return("run", "error") \/ Return("run", "violated"))
    BY <1>1, <2>1, ReturnIs DEF Threads, TypeInv, OutsideOK
  <2>2. CASE known \/ Run.current <= Len(chain)
    <3>1. block \in Block /\ Len(block) = Run.current
      <4>1. CASE known
        BY <1>2, <4>1 DEF Job
      <4>2. CASE ~known
        <5>1. Run.current \in 1..Len(chain) /\ chain \in Block
          BY <1>2, <2>2, <4>2, LatestFinalizedIs
        <5> QED
          BY <4>2, <5>1, AtIsBlock
      <4> QED
        BY <4>1, <4>2
    <3>2. block # NoBlock
      BY <3>1, BlockIsSeq
    <3>3. CASE ParentMatches(block) /\ Proceed(j)
      <4>1. j \in Job /\ j.kind = Run.kind /\ j.current = Run.current /\ j.latest = Run.latest
            /\ j.finalized = Run.finalized /\ j.block = block
        BY <1>2, <3>1 DEF Job
      <4> QED
        BY <1>1, <1>2, <3>1, <3>2, <3>3, <4>1, ProceedTypes
    <3>4. CASE ~ParentMatches(block) /\ common # {} /\ Resume("run", "deleteBlocks", k) /\ UNCHANGED unchecked
      <4>1. Max(common) \in bound..(Len(block) - 1) /\ bound \in 1..MaxHeight
        <5>1. Walks(block, bound, common, missing)
          BY <3>1 DEF Walks
        <5> HIDE DEF bound, common, missing
        <5>2. WalkIs(block, bound, common, missing)
          BY <3>1, <3>4, <5>1, RewindIs
        <5> QED
          BY <3>4, <5>2 DEF WalkIs
      <4> DEFINE c == Max(common) + 1
      <4>2. c \in 1..Len(block) /\ c \in 1..Run.latest /\ c \in 0..(MaxHeight + 1)
        BY <1>2, <3>1, <4>1, Bounds
      <4> HIDE DEF c
      <4>3. At(block, c) \in Block /\ Len(At(block, c)) = c /\ At(block, c) # NoBlock
        BY <3>1, <4>2, AtIsBlock, BlockIsSeq
      <4> DEFINE d == At(block, c)
      <4> HIDE DEF d
      <4>4. [Run EXCEPT !.block = d, !.current = c] = k
        BY DEF c, d
      <4>5. k \in Job /\ k.kind = Run.kind /\ k.current = c /\ k.latest = Run.latest
            /\ k.finalized = Run.finalized /\ k.block = d
        BY <1>2, <4>2, <4>3, <4>4 DEF Job, d
      <4> HIDE DEF k
      <4>6. JobOK("run", "deleteBlocks", k)
        BY <1>2, <4>2, <4>3, <4>5 DEF JobOK, BatchOK, RunOK, Labels, Backfilling, Fetching, d
      <4> QED
        BY <1>1, <3>4, <4>6, ResumeIs DEF Threads, TypeInv, OutsideOK
    <3> HIDE DEF j, k, broken, common
    <3> QED
      BY <2>1, <3>3, <3>4, <2>2, <1>1, Zenon DEF GetCurrentBlock, j, k, broken, common
  <2> QED
    BY <2>1, <2>2 DEF GetCurrentBlock
<1> QED
  BY <1>1, <1>3, <1>4, TablesSame, OutsideSame DEF TypeInv

LEMMA DeleteBlocksTypes ==
    ASSUME TypeInv, DeleteBlocks
    PROVE  TypeInv'
<1>1. pc["run"] = "deleteBlocks" /\ UNCHANGED <<logs, outside, history>> /\ registered' = registered
  BY DEF DeleteBlocks, outside
<1>2. Run \in Job /\ JobOK("run", "deleteBlocks", Run)
  BY <1>1, RunIs
<1>3. CASE Fault /\ Return("run", "error") /\ UNCHANGED blocks
  BY <1>1, <1>3, ReturnIs, SpendIs, TablesSame, OutsideSame DEF Fault, TypeInv, OutsideOK, history, Threads, tables
<1>4. CASE /\ blocks' = [n \in Heights |-> IF n >= Run.current THEN NoRow ELSE blocks[n]]
           /\ Resume("run", "deleteLogs", Run)
           /\ UNCHANGED used
  <2>1. TablesOK'
    BY <1>1, <1>4 DEF TypeInv, TablesOK, RowShape, Saved
  <2>2. JobOK("run", "deleteLogs", Run)
    BY <1>2 DEF JobOK, BatchOK, RunOK, Labels, Backfilling, Fetching
  <2> QED
    BY <1>1, <1>4, <2>1, <2>2, ResumeIs, OutsideSame DEF TypeInv, OutsideOK, history, Threads
<1> QED
  BY <1>3, <1>4 DEF DeleteBlocks

LEMMA DeleteLogsTypes ==
    ASSUME TypeInv, DeleteLogs
    PROVE  TypeInv'
<1>1. pc["run"] = "deleteLogs" /\ UNCHANGED <<blocks, outside, firstPolled>> /\ registered' = registered
  BY DEF DeleteLogs, outside
<1>2. Run \in Job /\ RunOK("deleteLogs", Run)
  BY <1>1, RunIs
<1>3. CASE Fault /\ Return("run", "error") /\ UNCHANGED <<logs, unchecked>>
  BY <1>1, <1>3, ReturnIs, SpendIs, TablesSame, OutsideSame DEF Fault, TypeInv, OutsideOK, Threads, tables
<1>4. CASE logs' = LogsBefore(Run.current) /\ Proceed(Run) /\ UNCHANGED used
  <2>1. TablesOK'
    BY <1>1, <1>4 DEF TypeInv, TablesOK, RowShape, Saved, LogsBefore
  <2>2. PollerOK' /\ unchecked' \in BOOLEAN
    BY <1>1, <1>2, <1>4, ProceedTypes DEF RunOK, Fetching
  <2> QED
    BY <1>1, <1>4, <2>1, <2>2, OutsideSame DEF TypeInv, OutsideOK
<1> QED
  BY <1>3, <1>4 DEF DeleteLogs

LEMMA FilterLogsOfBlockTypes ==
    ASSUME TypeInv, FilterLogsOfBlock
    PROVE  TypeInv'
<1>1. pc["run"] = "logs" /\ UNCHANGED <<tables, outside, history>> /\ registered' = registered
  BY DEF FilterLogsOfBlock, outside
<1>2. Run \in Job /\ JobOK("run", "logs", Run) /\ Run.block \in Block
  BY <1>1, RunIs DEF RunOK, Fetching, Job
<1>3. CASE Fault /\ Return("run", "ok")
  BY <1>1, <1>3, ReturnIs, SpendIs, TablesSame, OutsideSame DEF Fault, TypeInv, OutsideOK, Threads, history
<1>4. ASSUME NEW got \in SUBSET Matching(LogsOf(Run.block)),
             IF got = Matching(LogsOf(Run.block)) THEN UNCHANGED used ELSE Spend("incomplete", MaxIncomplete),
             Resume("run", "insert", [Run EXCEPT !.logs = got])
      PROVE  TypeInv'
  <2> DEFINE k == [Run EXCEPT !.logs = got]
  <2>1. used' \in Budget
    BY <1>4, SpendIs DEF TypeInv, OutsideOK
  <2>2. got \subseteq Block
    BY <1>2 DEF Matching, LogsOf
  <2>3. k \in Job /\ k.kind = Run.kind /\ k.current = Run.current /\ k.latest = Run.latest
        /\ k.finalized = Run.finalized /\ k.block = Run.block /\ k.looping = Run.looping
    BY <1>2, <2>2 DEF Job
  <2> HIDE DEF k
  <2>4. JobOK("run", "insert", k)
    BY <1>2, <2>3 DEF JobOK, BatchOK, RunOK, Labels, Backfilling, Fetching
  <2>5. Resume("run", "insert", k)
    BY <1>4 DEF k
  <2> QED
    BY <1>1, <2>1, <2>4, <2>5, ResumeIs, TablesSame, OutsideSame DEF TypeInv, OutsideOK, Threads, history
<1> QED
  BY <1>3, <1>4 DEF FilterLogsOfBlock

LEMMA InsertLogsWithBlockTypes ==
    ASSUME TypeInv, InsertLogsWithBlock
    PROVE  TypeInv'
<1> DEFINE next == [Run EXCEPT !.current = @ + 1, !.logs = {}]
<1>1. pc["run"] = "insert" /\ UNCHANGED <<outside, history>> /\ registered' = registered
  BY DEF InsertLogsWithBlock, outside
<1>2. Run \in Job /\ RunOK("insert", Run) /\ Run.block \in Block /\ Run.current \in 1..Run.latest
      /\ Run.latest \in Nat /\ Run.latest <= MaxHeight /\ Run.finalized \in 1..Run.latest /\ Run.kind \in Polls
      /\ Len(Run.block) = Run.current
  BY <1>1, RunIs, JobNumbers DEF RunOK, Fetching, Job
<1>3. CASE Fault /\ Return("run", "ok") /\ UNCHANGED tables
  BY <1>1, <1>3, ReturnIs, SpendIs, TablesSame, OutsideSame DEF Fault, TypeInv, OutsideOK, Threads, history
<1>4. CASE /\ blocks' = WithBlock(Run.block, Run.finalized)
           /\ logs' = logs \cup Run.logs
           /\ IF next.current > Run.latest THEN Return("run", "ok")
                                           ELSE Resume("run", "current", next)
           /\ UNCHANGED used
  <2>1. PollerOK'
    <3>1. Run.current + 1 \in 0..(MaxHeight + 1) /\ Run.current \in Nat
      BY <1>2, Bounds
    <3>2. next \in Job /\ next.current = Run.current + 1 /\ next.kind = Run.kind
          /\ next.latest = Run.latest /\ next.finalized = Run.finalized
      BY <1>2, <3>1 DEF Job
    <3> HIDE DEF next
    <3>3. CASE next.current > Run.latest
      BY <1>1, <1>4, <3>3, ReturnIs DEF Threads
    <3>4. CASE ~(next.current > Run.latest)
      <4>1. next.current \in 1..Run.latest
        BY <1>2, <3>1, <3>2, <3>4
      <4>2. JobOK("run", "current", next)
        BY <1>2, <3>2, <4>1 DEF JobOK, BatchOK, RunOK, Labels, Backfilling, Fetching
      <4> QED
        BY <1>1, <1>4, <3>4, <4>2, ResumeIs DEF Threads
    <3> QED
      BY <3>3, <3>4
  <2>2. Run.finalized \in Heights /\ logs' \subseteq Block
    BY <1>2, <1>4, HeightsAreNats DEF TypeInv, TablesOK, Job
  <2>3. TablesOK'
    BY <1>2, <1>4, <2>2, WithBlockTypes
  <2> QED
    BY <1>1, <1>4, <2>1, <2>3, OutsideSame DEF TypeInv, OutsideOK, history
<1> QED
  BY <1>3, <1>4 DEF InsertLogsWithBlock

----------------------------------------------------------------------------
(* Types: the backup poller, the client, pruning, restarts and the chain. *)

LEMMA BackupStartIs ==
    ASSUME TypeInv, Saved # {}
    PROVE  BackupStart \in Nat /\ BackupStart <= LatestRow.finalized /\ BackupStart <= LatestNumber
<1>1. LatestRow.finalized \in Nat /\ LatestRow.finalized >= 1 /\ LatestNumber \in Nat /\ BackupPollerBlockDelay \in Nat
  BY LatestRowIs, Bounds, ParametersAssumption
<1> QED
  BY <1>1 DEF BackupStart, Smaller, Larger

LEMMA BackupTypes ==
    ASSUME TypeInv, BackupPollAndSaveLogs
    PROVE  TypeInv'
<1> DEFINE start == IF backupPollerNextBlock # 0 THEN backupPollerNextBlock ELSE BackupStart
           end == LatestFinalized - 1
           k == [NoJob EXCEPT !.kind = "backup", !.from = start, !.end = end, !.size = BackfillBatchSize]
<1>1. pc["run"] = "idle" /\ UNCHANGED <<tables, finalityViolated, outside, firstPolled>>
      /\ registered' = registered /\ backupPollerNextBlock' = start
      /\ (backupPollerNextBlock # 0 \/ Saved # {})
  BY DEF BackupPollAndSaveLogs, outside
<1>2. start \in 0..MaxHeight /\ start \in Nat
  BY <1>1, BackupStartIs, LatestRowIs, Bounds DEF TypeInv, PollerOK
<1>3. end \in Nat /\ end <= MaxHeight /\ end < MaxHeight /\ end \in 0..MaxHeight
  BY LatestFinalizedIs, Bounds
<1> HIDE DEF start, end
<1>4. CASE /\ end >= start
           /\ Backfill("run", [NoJob EXCEPT !.kind = "backup"], start, end)
           /\ UNCHANGED used
  <2>1. k \in Job /\ k.kind = "backup" /\ k.from = start /\ k.end = end /\ k.size = BackfillBatchSize
    <3>1. NoJob \in Job /\ BackfillBatchSize \in 0..BackfillBatchSize
      BY NoJobOK, Bounds
    <3> QED
      BY <1>2, <1>3, <3>1 DEF Job, NoJob
  <2>2. Goto("run", "backfill", k) /\ unchecked' = (unchecked \/ Contradicts(end))
    <3>1. [[NoJob EXCEPT !.kind = "backup"] EXCEPT !.from = start, !.end = end, !.size = BackfillBatchSize] = k
      BY DEF NoJob
    <3> QED
      BY <1>4, <3>1 DEF Backfill
  <2> HIDE DEF k
  <2>3. JobOK("run", "backfill", k)
    BY <1>2, <1>3, <1>4, <2>1, Bounds DEF JobOK, BatchOK, RunOK, Labels, Backfilling, Fetching
  <2>4. unchecked' \in BOOLEAN
    BY <2>2, Zenon DEF TypeInv, OutsideOK
  <2>5. finalityViolated' \in BOOLEAN
    BY <1>1 DEF TypeInv, PollerOK
  <2>6. PollerOK'
    BY <1>1, <1>2, <2>2, <2>3, <2>5, GotoIs DEF Threads
  <2> QED
    BY <1>1, <1>4, <2>4, <2>6, TablesSame, OutsideSame DEF TypeInv, OutsideOK
<1>5. CASE (UNCHANGED used \/ Fault) /\ UNCHANGED <<pc, job, unchecked>>
  <2>1. PollerOK'
    BY <1>1, <1>2, <1>5 DEF TypeInv, PollerOK
  <2>2. used' \in Budget
    BY <1>5, SpendIs DEF Fault, TypeInv, OutsideOK
  <2> QED
    BY <1>1, <1>5, <2>1, <2>2, TablesSame, OutsideSame DEF TypeInv, OutsideOK
<1> QED
  BY <1>4, <1>5 DEF BackupPollAndSaveLogs, start, end

LEMMA RegisterFilterTypes ==
    ASSUME TypeInv, RegisterFilter
    PROVE  TypeInv'
<1>1. PollerOK'
  BY PollerSame DEF RegisterFilter
<1>2. OutsideOK'
  BY DEF RegisterFilter, TypeInv, OutsideOK, history
<1> QED
  BY <1>1, <1>2, TablesSame DEF RegisterFilter, TypeInv

LEMMA ReplayTypes ==
    ASSUME TypeInv, Replay
    PROVE  TypeInv'
<1> DEFINE saved == IF Saved = {} THEN 0 ELSE LatestRow.finalized
<1>1. PICK fromBlock \in 1..Len(chain) :
        LET j == [NoJob EXCEPT !.kind = "replay", !.requested = fromBlock, !.latest = Len(chain),
                               !.current = Larger(fromBlock, saved + 1)]
        IN  /\ pc["client"] = "idle" /\ registered
            /\ Spend("replays", MaxReplays)
            /\ blind' = (fromBlock <= saved /\ ~filters)
            /\ IF fromBlock <= saved THEN Backfill("client", j, fromBlock, saved)
               ELSE Goto("client", "handoff", j) /\ UNCHANGED unchecked
            /\ UNCHANGED <<tables, backupPollerNextBlock, finalityViolated, outside, firstPolled>>
  BY DEF Replay
<1> DEFINE current == Larger(fromBlock, saved + 1)
           j == [NoJob EXCEPT !.kind = "replay", !.requested = fromBlock, !.latest = Len(chain), !.current = current]
           k == [j EXCEPT !.from = fromBlock, !.end = saved, !.size = BackfillBatchSize]
<1>2. saved \in 0..MaxHeight /\ saved \in Nat /\ MaxHeight \in Nat /\ BackfillBatchSize \in 0..BackfillBatchSize
      /\ BackfillBatchSize >= 1
  BY LatestRowIs, Bounds
<1>3. fromBlock \in 0..MaxHeight /\ Len(chain) \in 0..MaxHeight /\ fromBlock >= 1 /\ fromBlock <= Len(chain)
      /\ fromBlock \in Nat
  BY LatestFinalizedIs, Bounds
<1>4. current \in 0..(MaxHeight + 1) /\ current >= 1 /\ (fromBlock > saved => current = fromBlock)
  BY <1>2, <1>3 DEF Larger
<1>5. used' \in Budget /\ registered' = registered /\ registered
      /\ backupPollerNextBlock' \in 0..MaxHeight /\ finalityViolated' \in BOOLEAN
  BY <1>1, SpendIs DEF outside, TypeInv, PollerOK
<1> HIDE DEF saved, current
<1>6. j \in Job /\ j.kind = "replay" /\ j.requested = fromBlock /\ j.latest = Len(chain) /\ j.current = current
  BY <1>2, <1>3, <1>4, NoJobOK DEF Job, NoJob
<1> HIDE DEF j
<1>7. k \in Job /\ k.kind = "replay" /\ k.requested = fromBlock /\ k.latest = Len(chain) /\ k.current = current
      /\ k.from = fromBlock /\ k.end = saved /\ k.size = BackfillBatchSize
  BY <1>2, <1>3, <1>6 DEF Job
<1> HIDE DEF k
<1>8. CASE fromBlock <= saved
  <2>1. Goto("client", "backfill", k) /\ unchecked' = (unchecked \/ Contradicts(saved))
    BY <1>1, <1>8 DEF Backfill, j, k, saved, current
  <2>2. JobOK("client", "backfill", k)
    BY <1>2, <1>3, <1>4, <1>7, <1>8 DEF JobOK, BatchOK, ClientOK, Labels, Backfilling
  <2>3. unchecked' \in BOOLEAN
    BY <2>1, Zenon DEF TypeInv, OutsideOK
  <2>4. PollerOK'
    BY <1>5, <2>1, <2>2, GotoIs DEF Threads
  <2> QED
    BY <1>1, <1>5, <2>3, <2>4, TablesSame, OutsideSame DEF TypeInv
<1>9. CASE ~(fromBlock <= saved)
  <2>1. Goto("client", "handoff", j) /\ UNCHANGED unchecked
    BY <1>1, <1>9 DEF j, saved, current
  <2>2. JobOK("client", "handoff", j)
    BY <1>2, <1>3, <1>4, <1>6, <1>9 DEF JobOK, BatchOK, ClientOK, Labels, Backfilling
  <2>3. PollerOK'
    BY <1>5, <2>1, <2>2, GotoIs DEF Threads
  <2> QED
    BY <1>1, <1>5, <2>1, <2>3, TablesSame, OutsideSame DEF TypeInv, OutsideOK
<1> QED
  BY <1>8, <1>9

LEMMA ReplayFromIs ==
    ASSUME TypeInv, NEW requested \in Nat, requested >= 1
    PROVE  /\ ReplayFrom(requested) \in Nat /\ ReplayFrom(requested) >= 1
           /\ ReplayFrom(requested) <= requested
           /\ Saved = {} => ReplayFrom(requested) = requested
           /\ Saved # {} => ReplayFrom(requested) <= LatestNumber
  BY LatestRowIs, Bounds DEF ReplayFrom, Smaller

LEMMA HandleReplayRequestTypes ==
    ASSUME TypeInv, HandleReplayRequest
    PROVE  TypeInv'
<1> DEFINE from == ReplayFrom(Client.current)
           k == [NoJob EXCEPT !.kind = "replayed", !.current = from]
<1>1. pc["run"] = "idle" /\ pc["client"] = "handoff" /\ UNCHANGED <<tables, backupPollerNextBlock, finalityViolated>>
      /\ UNCHANGED <<registered, chain, finalized>> /\ registered
  BY DEF HandleReplayRequest, TypeInv, PollerOK
<1>2. Client \in Job /\ Client.kind = "replay" /\ Client.requested >= 1 /\ Client.current >= 1
      /\ Client.current <= Client.latest /\ Client.current \in Nat /\ Client.latest \in Nat /\ Client.latest <= MaxHeight
      /\ JobOK("client", "handoff", Client)
  BY <1>1, RunIs, JobNumbers DEF ClientOK
<1>3. from \in Nat /\ from >= 1 /\ from <= Client.current /\ from <= MaxHeight
  BY <1>2, ReplayFromIs, Bounds
<1>4. CASE Fault /\ Goto("client", "idle", NoJob) /\ UNCHANGED <<filters, history>>
  <2>1. backupPollerNextBlock' \in 0..MaxHeight /\ finalityViolated' \in BOOLEAN
    BY <1>1 DEF TypeInv, PollerOK
  <2>2. PollerOK'
    BY <1>1, <1>4, <2>1, GotoIs, NoJobOK DEF Threads
  <2> QED
    BY <1>1, <1>4, <2>2, SpendIs, TablesSame DEF Fault, TypeInv, OutsideOK, history
<1> HIDE DEF from
<1>5. CASE /\ pc' = [pc EXCEPT !["run"] = "latest", !["client"] = "waiting"]
           /\ job' = [job EXCEPT !["run"] = k]
           /\ firstPolled' = IF Saved = {} THEN from ELSE firstPolled
           /\ unchecked' = (unchecked \/ (Saved = {} /\ from > LatestFinalized))
           /\ UNCHANGED used
  <2>1. from \in 0..(MaxHeight + 1) /\ from \in 0..MaxHeight
    BY <1>3, Bounds
  <2>2. k \in Job /\ k.kind = "replayed" /\ k.current = from
    BY <2>1, NoJobOK DEF Job, NoJob
  <2> HIDE DEF k
  <2>3. JobOK("run", "latest", k)
    BY <1>3, <2>2 DEF JobOK, BatchOK, RunOK, Labels, Backfilling, Fetching, Polls
  <2>4. JobOK("client", "waiting", Client)
    BY <1>2 DEF JobOK, BatchOK, ClientOK, Labels, Backfilling
  <2>5. pc' \in [Threads -> Labels] /\ job' \in [Threads -> Job]
    BY <1>5, <2>2 DEF TypeInv, PollerOK, Labels
  <2>6. \A th \in Threads : JobOK(th, pc'[th], job'[th])
    BY <1>5, <2>3, <2>4 DEF TypeInv, PollerOK, Threads, Client
  <2>7. PollerOK'
    BY <1>1, <2>5, <2>6 DEF TypeInv, PollerOK
  <2>8. unchecked' \in BOOLEAN
    BY <1>5, Zenon DEF TypeInv, OutsideOK
  <2>9. OutsideOK'
    BY <1>1, <1>5, <2>1, <2>8 DEF TypeInv, OutsideOK
  <2> QED
    BY <1>1, <2>7, <2>9, TablesSame DEF TypeInv
<1> QED
  BY <1>4, <1>5 DEF HandleReplayRequest, from, Client

LEMMA ReplayCompleteTypes ==
    ASSUME TypeInv, ReplayComplete
    PROVE  TypeInv'
<1>1. PollerOK'
  BY ResumeIs, NoJobOK DEF ReplayComplete, Threads, outside
<1> QED
  BY <1>1, TablesSame, OutsideSame DEF ReplayComplete, TypeInv, OutsideOK, outside, history

LEMMA PruneOldBlocksTypes ==
    ASSUME TypeInv, PruneOldBlocks
    PROVE  TypeInv'
<1>1. PICK n \in Saved : n <= PruneLimit /\ blocks' = [k \in Heights |-> IF k <= n THEN NoRow ELSE blocks[k]]
  BY DEF PruneOldBlocks
<1>2. TablesOK'
  BY <1>1 DEF TypeInv, TablesOK, RowShape, Saved, PruneOldBlocks
<1>3. PollerOK'
  BY PollerSame DEF PruneOldBlocks, outside, TypeInv, OutsideOK
<1> QED
  BY <1>2, <1>3, OutsideSame DEF PruneOldBlocks, TypeInv, OutsideOK, history

LEMMA RestartTypes ==
    ASSUME TypeInv, Restart
    PROVE  TypeInv'
<1>1. pc' = [th \in Threads |-> "idle"] /\ job' = [th \in Threads |-> NoJob]
      /\ backupPollerNextBlock' = 0 /\ finalityViolated' = FALSE
      /\ UNCHANGED <<tables, registered, chain, finalized, history>> /\ used' \in Budget
  BY SpendIs DEF Restart
<1>2. pc' \in [Threads -> Labels] /\ job' \in [Threads -> Job]
  BY <1>1, NoJobOK DEF Labels
<1>3. backupPollerNextBlock' \in 0..MaxHeight
  BY <1>1, Bounds
<1>4. PollerOK'
  BY <1>1, <1>2, <1>3, NoJobOK DEF PollerOK, Threads
<1>5. OutsideOK'
  BY <1>1 DEF TypeInv, OutsideOK, history
<1> QED
  BY <1>1, <1>4, <1>5, TablesSame DEF TypeInv

(* What a step of the chain may do to it, but for a reorg of final blocks. *)
LEMMA NodeIs ==
    ASSUME TypeInv, Node
    PROVE  /\ UNCHANGED <<tables, poller, registered, filters, filtersLoaded, history>>
           /\ used' \in Budget /\ chain' \in Block /\ finalized' \in 0..Len(chain')
           /\ used'.deep = used.deep =>
                 /\ LatestFinalized' >= LatestFinalized
                 /\ \A n \in 0..LatestFinalized : At(chain', n) = At(chain, n)
           /\ used'.deep = used.deep \/ used'.deep = used.deep + 1
<1> USE DEF Node
<1>1. chain \in Block /\ Len(chain) \in Nat /\ finalized \in Nat /\ finalized <= Len(chain)
      /\ LatestFinalized \in Nat /\ LatestFinalized <= Len(chain) /\ finalized <= LatestFinalized
      /\ LatestFinalized = Larger(finalized, 1) /\ used.deep \in Nat /\ 1 <= Len(chain) /\ used \in Budget
  BY LatestFinalizedIs DEF TypeInv, OutsideOK, LatestFinalized, Budget
<1>2. CASE Mine
  <2>1. PICK v \in Versions : chain' = Append(chain, v)
    BY <1>2 DEF Mine
  <2>2. Len(chain) < MaxHeight /\ UNCHANGED <<tables, poller, registered, filters, filtersLoaded, finalized, used, history>>
    BY <1>2 DEF Mine
  <2>3. chain' \in Block /\ Len(chain') = Len(chain) + 1 /\ \A n \in 0..Len(chain) : At(chain', n) = At(chain, n)
    BY <1>1, <2>1, <2>2, AppendToBlock
  <2> QED
    BY <1>1, <2>2, <2>3 DEF LatestFinalized
<1>3. CASE Finalize
  <2>1. finalized < Len(chain) - FinalityDepth /\ finalized' = finalized + 1
        /\ UNCHANGED <<tables, poller, registered, filters, filtersLoaded, chain, used, history>> /\ FinalityDepth \in Nat
    BY <1>3, ParametersAssumption DEF Finalize
  <2> QED
    BY <1>1, <2>1 DEF LatestFinalized, Larger
<1>4. ASSUME NEW height \in 1..(Len(chain) - 1), ReorgTo(height)
      PROVE  chain' \in Block /\ Len(chain') = height + 1 /\ \A n \in 0..height : At(chain', n) = At(chain, n)
  <2>1. PICK v \in Versions : chain' = Append(At(chain, height), v)
    BY <1>4 DEF ReorgTo
  <2>2. height \in 1..Len(chain) /\ height \in Nat /\ height <= Len(chain) - 1 /\ Len(chain) <= MaxHeight
        /\ height < MaxHeight
    BY <1>1, BlockIsSeq, Bounds
  <2>3. At(chain, height) \in Block /\ Len(At(chain, height)) = height
        /\ \A n \in 0..height : At(At(chain, height), n) = At(chain, n)
    BY <1>1, <2>2, AtIsBlock, AtOfAt
  <2>4. chain' \in Block /\ Len(chain') = height + 1 /\ \A n \in 0..height : At(chain', n) = At(At(chain, height), n)
    BY <2>1, <2>2, <2>3, AppendToBlock
  <2> QED
    BY <2>3, <2>4
<1>5. CASE Reorg
  <2>1. PICK height \in Larger(finalized, 1)..(Len(chain) - 1) :
          /\ Spend("reorgs", MaxReorgs) /\ ReorgTo(height)
          /\ UNCHANGED <<tables, poller, registered, filters, filtersLoaded, finalized, history>>
    BY <1>5 DEF Reorg
  <2>2. height \in 1..(Len(chain) - 1) /\ height \in Nat /\ height >= LatestFinalized
    BY <1>1, <2>1 DEF Larger
  <2>3. chain' \in Block /\ Len(chain') = height + 1 /\ \A n \in 0..height : At(chain', n) = At(chain, n)
    BY <1>4, <2>1, <2>2
  <2>4. used' \in Budget /\ used'.deep = used.deep
    BY <2>1, SpendIs
  <2> QED
    BY <1>1, <2>1, <2>2, <2>3, <2>4 DEF LatestFinalized
<1>6. CASE DeepReorg
  <2>1. PICK height \in 1..(finalized - 1) :
          /\ Spend("deep", MaxDeepReorgs) /\ ReorgTo(height) /\ finalized' = height
          /\ UNCHANGED <<tables, poller, registered, filters, filtersLoaded, history>>
    BY <1>6 DEF DeepReorg
  <2>2. height \in 1..(Len(chain) - 1) /\ height \in Nat
    BY <1>1, <2>1
  <2>3. chain' \in Block /\ Len(chain') = height + 1
    BY <1>4, <2>1, <2>2
  <2>4. used' \in Budget /\ used'.deep = used.deep + 1
    BY <2>1, SpendIs
  <2> QED
    BY <1>1, <2>1, <2>2, <2>3, <2>4
<1> QED
  BY <1>2, <1>3, <1>5, <1>6

LEMMA NodeTypes ==
    ASSUME TypeInv, Node
    PROVE  TypeInv'
<1>1. PollerOK'
  BY NodeIs, PollerSame DEF TypeInv, OutsideOK
<1>2. OutsideOK'
  BY NodeIs DEF TypeInv, OutsideOK, history
<1> QED
  BY <1>1, <1>2, NodeIs, TablesSame DEF TypeInv

LEMMA NextTypes ==
    ASSUME TypeInv, [Next]_vars
    PROVE  TypeInv'
<1>1. CASE UNCHANGED vars
  <2>1. PollerOK'
    BY <1>1, PollerSame DEF vars, outside, TypeInv, OutsideOK
  <2> QED
    BY <1>1, <2>1, TablesSame, OutsideSame DEF vars, outside, history, TypeInv, OutsideOK
<1>2. CASE PollAndSaveLogs
  BY <1>2, StartPollTypes, LatestBlocksTypes, GetCurrentBlockTypes, DeleteBlocksTypes, DeleteLogsTypes,
     FilterLogsOfBlockTypes, InsertLogsWithBlockTypes, FilterLogsInRangeTypes,
     BlocksFromFinalizedLogsTypes, SaveBatchTypes DEF PollAndSaveLogs, BackfillStep, Threads
<1>3. CASE BackfillStep("client")
  BY <1>3, FilterLogsInRangeTypes, BlocksFromFinalizedLogsTypes, SaveBatchTypes DEF BackfillStep, Threads
<1> QED
  BY <1>1, <1>2, <1>3, BackupTypes, RegisterFilterTypes, ReplayTypes, HandleReplayRequestTypes,
     ReplayCompleteTypes, PruneOldBlocksTypes, RestartTypes, NodeTypes DEF Next

----------------------------------------------------------------------------
(* The filters in memory. *)

LEMMA FiltersSame ==
    ASSUME FiltersOK, UNCHANGED <<registered, filters, filtersLoaded, blind>>,
           pc'["run"] # "idle" => pc["run"] # "idle" \/ filtersLoaded,
           pc'["client"] \in Backfilling => pc["client"] \in Backfilling
    PROVE  FiltersOK'
  BY DEF FiltersOK

(* What a goroutine does leaves the other where it is, or tells it of its replay. *)
LEMMA OtherStays ==
    ASSUME TypeInv, NEW th \in Threads, NEW label, NEW j, NEW outcome,
           Goto(th, label, j) \/ Return(th, outcome), NEW t \in Threads, t # th
    PROVE  pc'[t] = pc[t] \/ (pc[t] = "waiting" /\ pc'[t] = "replayed")
  BY DEF TypeInv, PollerOK, Goto, Return

(* A step of a goroutine that is not idle. *)
LEMMA FiltersThread ==
    ASSUME TypeInv, FiltersOK, NEW th \in Threads,
           pc[th] # "idle", th = "client" => pc[th] \in Backfilling,
           UNCHANGED <<registered, filters, filtersLoaded, blind>>,
           \A t \in Threads : t # th => pc'[t] = pc[t] \/ (pc[t] = "waiting" /\ pc'[t] = "replayed")
    PROVE  FiltersOK'
<1>1. CASE th = "run"
  BY <1>1, FiltersSame DEF Threads, Backfilling
<1>2. CASE th = "client"
  <2>1. pc["run"] # "waiting"
    BY RunIs DEF RunOK, Fetching, Backfilling
  <2> QED
    BY <1>2, <2>1, FiltersSame DEF Threads
<1> QED
  BY <1>1, <1>2 DEF Threads

LEMMA BackfillStepFilters ==
    ASSUME TypeInv, FiltersOK, NEW th \in Threads, BackfillStep(th)
    PROVE  FiltersOK'
<1>1. pc[th] \in Backfilling /\ UNCHANGED <<registered, filters, filtersLoaded, blind>>
  BY DEF BackfillStep, FilterLogsInRange, BlocksFromFinalizedLogs, SaveBatch, Backfilling, outside, history
<1>2. ASSUME NEW j, NextBatch(th, j), NEW t \in Threads, t # th
      PROVE  pc'[t] = pc[t] \/ (pc[t] = "waiting" /\ pc'[t] = "replayed")
  BY <1>2, OtherStays DEF NextBatch, AfterBackfill, Resume
<1>3. ASSUME NEW t \in Threads, t # th
      PROVE  pc'[t] = pc[t] \/ (pc[t] = "waiting" /\ pc'[t] = "replayed")
  <2>1. CASE FilterLogsInRange(th)
    BY <1>2, <1>3, <2>1, OtherStays DEF FilterLogsInRange, Resume
  <2>2. CASE BlocksFromFinalizedLogs(th)
    BY <1>3, <2>2, OtherStays DEF BlocksFromFinalizedLogs, Resume
  <2>3. CASE SaveBatch(th)
    BY <1>2, <1>3, <2>3, OtherStays DEF SaveBatch
  <2> QED
    BY <2>1, <2>2, <2>3 DEF BackfillStep
<1> QED
  BY <1>1, <1>3, FiltersThread DEF Backfilling

LEMMA PollFilters ==
    ASSUME TypeInv, FiltersOK, LatestBlocks \/ GetCurrentBlock \/ DeleteBlocks \/ DeleteLogs
                               \/ FilterLogsOfBlock \/ InsertLogsWithBlock
    PROVE  FiltersOK'
<1>1. pc["run"] # "idle" /\ UNCHANGED <<registered, filters, filtersLoaded, blind>>
  BY DEF LatestBlocks, GetCurrentBlock, DeleteBlocks, DeleteLogs, FilterLogsOfBlock,
         InsertLogsWithBlock, outside, history
<1>2. \E label, j, outcome : Goto("run", label, j) \/ Return("run", outcome)
  BY DEF LatestBlocks, GetCurrentBlock, DeleteBlocks, DeleteLogs, FilterLogsOfBlock,
         InsertLogsWithBlock, Proceed, Backfill, Resume
<1>3. \A t \in Threads : t # "run" => pc'[t] = pc[t] \/ (pc[t] = "waiting" /\ pc'[t] = "replayed")
  BY <1>2, OtherStays DEF Threads
<1> QED
  BY <1>1, <1>3, FiltersThread DEF Threads

LEMMA InitFilters == Init => FiltersOK
  BY DEF Init, FiltersOK, Threads, Backfilling

LEMMA FiltersStep ==
    ASSUME TypeInv, FiltersOK, [Next]_vars
    PROVE  FiltersOK'
<1>1. CASE UNCHANGED vars
  BY <1>1, FiltersSame DEF vars, poller, outside, history
<1>2. CASE StartPoll
  <2>1. filters' = registered' \/ UNCHANGED <<filters, filtersLoaded, poller>>
    BY <1>2 DEF StartPoll, LoadFilters, FiltersOK
  <2>2. pc'["client"] = pc["client"]
    BY <1>2 DEF StartPoll, Resume, Goto, poller, TypeInv, PollerOK, Threads
  <2>3. UNCHANGED <<registered, blind>> /\ (filtersLoaded' = filtersLoaded \/ filtersLoaded' = TRUE)
        /\ (filters => filters')
    BY <1>2 DEF StartPoll, LoadFilters, FiltersOK
  <2> QED
    BY <2>1, <2>2, <2>3 DEF FiltersOK, poller, TypeInv, OutsideOK
<1>3. CASE HandleReplayRequest
  <2>1. pc["client"] = "handoff" /\ UNCHANGED <<registered, filtersLoaded, blind>>
        /\ pc'["client"] \in {"idle", "waiting"}
    BY <1>3 DEF HandleReplayRequest, history, Goto, TypeInv, PollerOK, Threads
  <2>2. filters' = registered' \/ (filters' = filters /\ pc'["run"] = pc["run"])
    BY <1>3 DEF HandleReplayRequest, LoadFilters, Goto, FiltersOK, TypeInv, PollerOK, Threads
  <2> QED
    BY <2>1, <2>2 DEF FiltersOK, Backfilling, TypeInv, OutsideOK
<1>4. CASE RegisterFilter
  BY <1>4 DEF RegisterFilter, FiltersOK, poller, history
<1>5. CASE Replay
  <2>1. UNCHANGED <<registered, filters, filtersLoaded>> /\ pc'["run"] = pc["run"]
    BY <1>5 DEF Replay, Backfill, Goto, outside, TypeInv, PollerOK, Threads
  <2>2. blind' \in BOOLEAN /\ (pc'["client"] \in Backfilling => blind' \/ filters)
    BY <1>5 DEF Replay, Goto, Backfilling, TypeInv, PollerOK, Threads
  <2> QED
    BY <2>1, <2>2 DEF FiltersOK
<1>6. CASE BackupPollAndSaveLogs
  <2>1. pc'["client"] = pc["client"] /\ filtersLoaded /\ UNCHANGED <<registered, filters, filtersLoaded, blind>>
    BY <1>6 DEF BackupPollAndSaveLogs, Backfill, Goto, outside, TypeInv, PollerOK, Threads
  <2> QED
    BY <2>1, FiltersSame
<1>7. CASE ReplayComplete
  <2>1. pc'["client"] = "idle" /\ pc'["run"] = pc["run"] /\ UNCHANGED <<registered, filters, filtersLoaded, blind>>
    BY <1>7 DEF ReplayComplete, Resume, Goto, outside, history, TypeInv, PollerOK, Threads
  <2> QED
    BY <2>1, FiltersSame DEF Backfilling
<1>8. CASE PruneOldBlocks
  BY <1>8, FiltersSame DEF PruneOldBlocks, poller, outside, history
<1>9. CASE Restart
  BY <1>9 DEF Restart, FiltersOK, Threads, Backfilling, history
<1>10. CASE Node
  BY <1>10, NodeIs, FiltersSame DEF poller, history
<1> QED
  BY <1>1, <1>2, <1>3, <1>4, <1>5, <1>6, <1>7, <1>8, <1>9, <1>10, PollFilters, BackfillStepFilters
     DEF Next, PollAndSaveLogs, Threads

(* Every variable keeps its type; with it, the locals of each goroutine are those of the
   place where it is. *)
THEOREM TypeCorrect == Spec => []TypeOK
<1>1. TypeInv /\ FiltersOK => TypeOK
  BY DEF TypeInv, TablesOK, PollerOK, OutsideOK, FiltersOK, TypeOK, Labels
<1> QED
  BY <1>1, InitTypes, InitFilters, NextTypes, FiltersStep, PTL DEF Spec
=============================================================================

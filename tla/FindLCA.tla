------------------------------- MODULE FindLCA --------------------------------
(* FindLCA of the log poller, with which a reorg deeper than the finality is repaired:
   the latest block of the table that is still on the chain, found by halving the range
   between the oldest and the latest row.  A number in the range may have no row; its
   block is judged by its "closest child", the oldest row from it on.

   The rows form one fork: those up to `common` are on the chain, those above are not.
   The chain may be reorganised between any two calls.

   An operator marked "faulty" is a plausible mistake in the operator after it. *)
EXTENDS Integers

CONSTANTS
    BlockNumber,             \* the numbers rows may have
    NoRow                    \* no block

ASSUME BlockNumberAssumption == BlockNumber \subseteq Nat /\ NoRow \notin Nat

VARIABLES
    rows,                    \* the numbers in log_poller_blocks
    common,                  \* rows up to here are on the chain
    finder,                  \* where FindLCA is
    latest, oldest,          \* the ends of its range
    lo, hi,                  \* sort.Find: the answer's index is in lo..hi
    lca,                     \* its answer
    moved                    \* history: the chain was reorganised during the call

finderVars == <<rows, common, finder, latest, oldest, lo, hi, lca, moved>>

OnChain(b) == b <= common

FindLCAInit ==
    /\ rows \in SUBSET BlockNumber
    /\ common \in BlockNumber \cup {-1}
    /\ finder = "latest" /\ moved = FALSE
    /\ latest = 0 /\ oldest = 0 /\ lo = 0 /\ hi = 0 /\ lca = NoRow

----------------------------------------------------------------------------
SelectLatestBlock ==
    /\ finder = "latest"
    /\ \E b \in rows :
         /\ \A r \in rows : r <= b
         /\ latest' = b
    /\ finder' = "oldest"
    /\ UNCHANGED <<rows, common, oldest, lo, hi, lca, moved>>

(* SelectOldestBlock: the first row with at least that number. *)
NewestUpTo(row, b) == row <= b /\ \A r \in rows : r <= b => r <= row       \* faulty
OldestFrom(row, b) == row >= b /\ \A r \in rows : r >= b => r >= row

(* The range as sort.Find sees it: index i is block latest - i. *)
SelectOldest ==
    /\ finder = "oldest"
    /\ \E b \in rows :
         /\ OldestFrom(b, 0)
         /\ oldest' = b
         /\ lo' = 0 /\ hi' = latest - b + 1
    /\ finder' = "search"
    /\ UNCHANGED <<rows, common, latest, lca, moved>>

Middle == (lo + hi) \div 2

(* One comparison: the row that stands for the block in the middle, and whether the
   chain still has it. *)
Search ==
    /\ finder = "search" /\ lo < hi
    /\ \E child \in rows :
         /\ OldestFrom(child, latest - Middle)
         /\ IF OnChain(child)
              THEN hi' = Middle /\ UNCHANGED lo
              ELSE lo' = Middle + 1 /\ UNCHANGED hi
    /\ UNCHANGED <<rows, common, finder, latest, oldest, lca, moved>>

(* The comparison once more at the index that was found, if it is one. *)
CheckFound ==
    /\ finder = "search" /\ lo = hi
    /\ \/ /\ lo > latest - oldest
          /\ finder' = "reorged out"
       \/ \E child \in rows :
            /\ lo <= latest - oldest
            /\ OldestFrom(child, latest - lo)
            /\ finder' = IF OnChain(child) THEN "load" ELSE "reorged out"
    /\ UNCHANGED <<rows, common, latest, oldest, lo, hi, lca, moved>>

SelectBlockByNumber ==
    /\ finder = "load"
    /\ IF latest - lo \in rows
         THEN finder' = "found" /\ lca' = latest - lo
         ELSE finder' = "not in the table" /\ UNCHANGED lca
    /\ UNCHANGED <<rows, common, latest, oldest, lo, hi, moved>>

Answered == {"found", "reorged out", "not in the table", "failed"}

(* A statement or a call fails, the context is done, or there is no row. *)
FindFails ==
    /\ finder \notin Answered
    /\ finder' = "failed"
    /\ UNCHANGED <<rows, common, latest, oldest, lo, hi, lca, moved>>

ChainMoves ==
    /\ finder \notin Answered
    /\ common' \in BlockNumber \cup {-1}
    /\ moved' = TRUE
    /\ UNCHANGED <<rows, finder, latest, oldest, lo, hi, lca>>

FindLCANext ==
    \/ SelectLatestBlock \/ SelectOldest \/ Search \/ CheckFound
    \/ SelectBlockByNumber \/ FindFails \/ ChainMoves

FindLCASpec == FindLCAInit /\ [][FindLCANext]_finderVars

----------------------------------------------------------------------------
(* Every variable has the shape the code's types give it. *)
FindLCATypeOK ==
    /\ rows \subseteq BlockNumber /\ common \in BlockNumber \cup {-1}
    /\ finder \in Answered \cup {"latest", "oldest", "search", "load"}
    /\ latest \in Nat /\ oldest \in Nat /\ lo \in Nat /\ hi \in Nat
    /\ lca \in BlockNumber \cup {NoRow}
    /\ moved \in BOOLEAN

(* While the chain stands still the halving misses nothing, whatever numbers have no
   row: the answer is the highest row the chain still has, and the claim that the whole
   table was reorged out, or that the answer has no row, is only made when it is so. *)
LCAIsRight ==
    ~moved =>
      /\ finder = "found" =>
           lca \in rows /\ OnChain(lca) /\ \A r \in rows : OnChain(r) => r <= lca
      /\ finder = "reorged out" => \A r \in rows : ~OnChain(r)
      /\ finder # "not in the table"
===============================================================================

------------------------------- MODULE Blocks -------------------------------
(* Blocks as the log poller tells them apart.  A block is the sequence of the
   versions of all blocks up to it: its hash is the sequence, its number the
   length, its parent the sequence without the last element, so that blocks with
   equal hashes have equal ancestors.  A block has one log of interest or none. *)
EXTENDS Integers, Sequences

CONSTANTS
    Versions,      \* the blocks that may appear at one height, on one parent
    WithLogs,      \* those that hold a log
    MaxHeight      \* bound on the height of the chain

ASSUME BlocksAssumption ==
    WithLogs \subseteq Versions /\ Versions # {} /\ MaxHeight \in Nat \ {0}

Heights == 1..MaxHeight
Block   == UNION {[1..n -> Versions] : n \in Heights}
NoBlock == <<>>

At(block, n)   == SubSeq(block, 1, n)                    \* its ancestor, or itself
HasLogs(block) == block[Len(block)] \in WithLogs
LogsOf(block)  == {b \in {block} : HasLogs(b)}
LogsIn(head, from, to) ==
    UNION {LogsOf(At(head, n)) : n \in {k \in from..to : k \in 1..Len(head)}}
=============================================================================

------------------------------ MODULE LogView -------------------------------
(* What the log poller promises a reader of evm.logs: the logs up to the last
   saved block are exactly those of that block and its ancestors, from the block
   the poller began at.  The view grows at its end or, when the chain abandons a
   fork, is cut back to a common ancestor; it never mixes two forks and never has
   a hole. *)
EXTENDS Blocks

VARIABLES head, view     \* the last saved block, the logs up to it

Init == head = NoBlock /\ view = {}

(* The first block of all is saved: the logs start at some ancestor of it. *)
Begin ==
    /\ head = NoBlock
    /\ \E block \in Block : \E first \in 1..Len(block) :
          head' = block /\ view' = LogsIn(block, first, Len(block))

Extend ==
    \E block \in Block :
        /\ head # NoBlock /\ Len(block) > Len(head) /\ At(block, Len(head)) = head
        /\ head' = block /\ view' = view \cup LogsIn(block, Len(head) + 1, Len(block))

Rewind ==
    \E n \in 1..(Len(head) - 1) :
        head' = At(head, n) /\ view' = {l \in view : Len(l) <= n}

Next == Begin \/ Extend \/ Rewind
Spec == Init /\ [][Next]_<<head, view>>
=============================================================================

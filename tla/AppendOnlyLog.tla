--------------------------- MODULE AppendOnlyLog ---------------------------
(* What a feed's storage promises: a sequence of blocks that only grows at *)
(* the end, whatever happens to the process that keeps it.                 *)
EXTENDS Sequences

CONSTANT Blocks

VARIABLE blocks

Init == blocks = << >>

AppendOne == \E b \in Blocks : blocks' = Append(blocks, b)

Spec == Init /\ [][AppendOne]_blocks
=============================================================================

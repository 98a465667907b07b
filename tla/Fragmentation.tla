---------------------------- MODULE Fragmentation ----------------------------
(***************************************************************************)
(* How one message travels in CAN frames: by itself if it is short, else   *)
(* as a block transfer, a row of blocks and a final frame that counts      *)
(* them.  This is the format; TxRing is the code that produces it and      *)
(* BlockReceiver the code that takes it apart.                             *)
(***************************************************************************)
EXTENDS Naturals, Sequences

CONSTANTS
  Inline,   \* bytes that fit beside the two type bytes of a frame (6)
  Chunk     \* bytes that fit beside the one type byte of a block (7)

ASSUME FragmentationAssumption == Inline \in Nat /\ Chunk \in Nat \ {0}

Single(data) == [kind |-> "single", data |-> data, count |-> 0]
Block(data)  == [kind |-> "block", data |-> data, count |-> 0]
Final(n)     == [kind |-> "final", data |-> <<>>, count |-> n]

Smaller(a, b) == IF a <= b THEN a ELSE b

BlockCount(data) == (Len(data) + Chunk - 1) \div Chunk

Blocks(data) ==
  [i \in 1 .. BlockCount(data) |->
     Block(SubSeq(data, (i - 1) * Chunk + 1, Smaller(i * Chunk, Len(data))))]

Fragments(data) ==
  IF Len(data) > Inline THEN Append(Blocks(data), Final(BlockCount(data)))
  ELSE <<Single(data)>>
=============================================================================

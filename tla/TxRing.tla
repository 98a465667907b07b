------------------------------- MODULE TxRing -------------------------------
(***************************************************************************)
(* The transmit side of ProtocolHandler: SendFFData puts a header and the  *)
(* data into a ring buffer and rubi_continue_tx empties it into frames.    *)
(* One handler is only used by one thread and rubi_continue_tx returns     *)
(* when the ring is empty, so SendFFData always starts with an empty ring, *)
(* at whatever place in the buffer the previous messages have left it.     *)
(*                                                                         *)
(* The names of the cursors are the code's: bytes are written at low and   *)
(* read at high.                                                           *)
(***************************************************************************)
EXTENDS Fragmentation, Integers

CONSTANTS
  Size,        \* RUBI_BUFFER_SIZE (4143)
  HeaderSize,  \* sizeof(rubi_dataheader) (6)
  MaxData,     \* the longest message (255: ASSERT(data.size() < 256))
  Tags         \* distinguish messages of the same length

ASSUME TxRingAssumption ==
  /\ Size \in Nat /\ HeaderSize \in Nat \ {0} /\ MaxData \in Nat
  /\ HeaderSize + MaxData < Size
  /\ "none" \notin Tags   \* the msg_type 0 of a header that is not there

Messages == [tag : Tags, length : 0 .. MaxData]

(* The bytes of a message, and of its header, told apart by their place.    *)
Bytes(kind, m, n) == [i \in 1 .. n |-> <<kind, m, i>>]
Header(m) == Bytes("header", m, HeaderSize)
Data(m)   == Bytes("data", m, m.length)

Full == -1      \* rubi_tx_cursor_low of a full ring
Nobody == [tag |-> "none", length |-> 0]

VARIABLES
  buffer,   \* rubi_tx_buffer
  low,      \* rubi_tx_cursor_low
  high,     \* rubi_tx_cursor_high
  current,  \* the message of rubi_tx_current_header; Nobody: msg_type is 0
  left,     \* its data_len, counted down
  blocks,   \* blocks_sent
  message,  \* what was last given to SendFFData (history)
  wire      \* the frames sent for it (history)

vars == <<buffer, low, high, current, left, blocks, message, wire>>

Init ==
  /\ buffer = [i \in 0 .. Size - 1 |-> <<>>]
  /\ low = 0 /\ high = 0
  /\ current = Nobody /\ left = 0
  /\ blocks = 0
  /\ message = Nobody
  /\ wire = <<>>
-----------------------------------------------------------------------------
Available ==
  IF low = Full THEN 0
  ELSE IF high > low THEN high - low
  ELSE Size - low + high

(* rubi_get_tx_chunk: n bytes from high on, around the end of the buffer.   *)
ChunkAt(n) ==
  [i \in 1 .. n |->
     IF high + n > Size /\ i > Size - high
     THEN buffer[i - (Size - high) - 1]
     ELSE buffer[high + i - 1]]

(* rubi_tx_enqueue_back: the buffer after data is written at a cursor, in   *)
(* one piece or around the end (it "assumes the data will fit").            *)
Written(buf, at, data) ==
  [i \in 0 .. Size - 1 |->
     IF at <= i /\ i < at + Len(data) THEN data[i - at + 1]
     ELSE IF i < at + Len(data) - Size THEN data[i + Size - at + 1]
     ELSE buf[i]]

AdvancedBeyond(at, n) ==   \* mutation: no modulo where the data just fits
  LET next == IF high > at \/ Size - at >= n THEN at + n ELSE n - (Size - at)
  IN  IF n = 0 THEN at ELSE IF next = high THEN Full ELSE next

AdvancedShort(at, n) ==   \* mutation: off by one where the data wraps
  LET next == IF high > at \/ Size - at >= n THEN (at + n) % Size
              ELSE n - (Size - at) + 1
  IN  IF n = 0 THEN at ELSE IF next = high THEN Full ELSE next

(* Where low is after n bytes, by the branch the code takes. *)
Advanced(at, n) ==
  LET next == IF high > at \/ Size - at >= n THEN (at + n) % Size
              ELSE n - (Size - at)
  IN  IF n = 0 THEN at ELSE IF next = high THEN Full ELSE next

SendFFData(m) ==
  LET middle == Advanced(low, HeaderSize)
  IN  /\ current = Nobody /\ Available = Size
      /\ buffer' = Written(Written(buffer, low, Header(m)), middle, Data(m))
      /\ low' = Advanced(middle, m.length)
      /\ message' = m
      /\ wire' = <<>>
      /\ UNCHANGED <<high, current, left, blocks>>

(* The iterations of rubi_continue_tx. *)
Freed == IF low = Full THEN high ELSE low

TakeHeader ==
  /\ current = Nobody /\ Available # Size
  /\ \E m \in Messages :
       /\ ChunkAt(HeaderSize) = Header(m)
       /\ current' = m
       /\ left' = m.length
       /\ blocks' = IF m.length > Inline THEN 0 ELSE blocks
  /\ low' = Freed
  /\ high' = (high + HeaderSize) % Size
  /\ UNCHANGED <<buffer, message, wire>>

InBlocksEarly == current.length >= Inline   \* mutation: >= for >

InBlocks == current.length > Inline

SendBlock ==
  /\ current # Nobody /\ InBlocks /\ left # 0
  /\ LET n == Smaller(Chunk, left)
     IN  /\ wire' = Append(wire, Block(ChunkAt(n)))
         /\ high' = (high + n) % Size
         /\ left' = left - n
  /\ low' = Freed
  /\ blocks' = blocks + 1
  /\ UNCHANGED <<buffer, current, message>>

SendLast ==
  /\ current # Nobody /\ (InBlocks => left = 0)
  /\ wire' = Append(wire, IF InBlocks THEN Final(blocks) ELSE Single(ChunkAt(left)))
  /\ blocks' = IF InBlocks THEN 0 ELSE blocks
  /\ low' = IF left > 0 THEN Freed ELSE low
  /\ high' = (high + left) % Size
  /\ current' = Nobody
  /\ UNCHANGED <<buffer, left, message>>

Next ==
  \/ \E m \in Messages : SendFFData(m)
  \/ TakeHeader \/ SendBlock \/ SendLast

Spec == Init /\ [][Next]_vars
-----------------------------------------------------------------------------
Cells == {<<>>} \cup ({"header", "data"} \X Messages \X (1 .. HeaderSize + MaxData))

TypeOK ==
  /\ buffer \in [0 .. Size - 1 -> Cells]
  /\ low \in 0 .. Size - 1 /\ high \in 0 .. Size - 1
  /\ current \in Messages \cup {Nobody}
  /\ left \in 0 .. MaxData
  /\ blocks \in Nat
  /\ message \in Messages \cup {Nobody}

Used == (low - high + Size) % Size

(* The ring holds exactly what is not sent yet: nothing is read twice, and  *)
(* no byte of an earlier message is left in front of the next one.          *)
CursorsExact ==
  Used = IF current # Nobody THEN left
         ELSE IF Used = 0 THEN 0 ELSE HeaderSize + message.length

(* What goes out is the message in the format the receivers understand,     *)
(* byte for byte, wherever in the buffer it lies.                           *)
WireIsMessage ==
  message # Nobody =>
    LET all == Fragments(Data(message))
    IN  /\ Len(wire) <= Len(all)
        /\ wire = SubSeq(all, 1, Len(wire))
        /\ current = Nobody /\ Available = Size => wire = all
=============================================================================

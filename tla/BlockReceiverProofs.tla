------------------------ MODULE BlockReceiverProofs ------------------------
(***************************************************************************)
(* The receive side against the sender it listens to.  The receiver knows  *)
(* no more of a transfer than the number of its blocks; what that number   *)
(* is worth depends on how many of them were lost, and since when.         *)
(***************************************************************************)
EXTENDS BlockReceiver, FragmentFacts

Bytes  == (1 .. MaxMessages) \X Nat
Frames == [kind : {"single", "block", "final"}, data : Seq(Bytes), count : Nat]

(* The message that is on its way, all its frames, and how many of them    *)
(* have left the bus.                                                      *)
Current == sent[Len(sent)]
Row     == Fragments(Current)
Gone    == Len(Row) - Len(transit)

Types ==
  /\ received \in Seq(Bytes) /\ count \in Nat
  /\ sent \in Seq(Seq(Bytes)) /\ Len(sent) <= MaxMessages
  /\ transit \in Seq(Frames)
  /\ lost \in 0 .. MaxLost
  /\ missing \subseteq 0 .. Len(sent)
  /\ verdict \in {"partial", "delivered", "failed"}

Labelled == \A k \in DOMAIN sent : sent[k] \in Seq({k} \X Nat)

(* What is on the bus is the end of the current message. *)
InTransit ==
  transit # <<>> =>
    /\ sent # <<>> /\ Len(transit) <= Len(Row)
    /\ \A i \in DOMAIN transit : transit[i] = Row[Gone + i]

Bounded == Len(received) <= Chunk * count

(* What has gathered is of transfers that lost a frame, or of this one. *)
Owned ==
  \A i \in DOMAIN received :
    \/ received[i][1] \in missing
    \/ transit # <<>> /\ Gone > 0 /\ received[i][1] = Len(sent)

(* Nothing was lost: the buffer holds the blocks that came, and no others. *)
InStep ==
  missing = {} =>
    IF transit = <<>> THEN count = 0 /\ received = <<>>
    ELSE /\ count = Gone
         /\ received = SubSeq(Current, 1, Smaller(Gone * Chunk, Len(Current)))

(* Only this transfer lost a frame: a block is short. *)
Short == transit # <<>> /\ missing = {Len(sent)} => count < Gone

BlockInv ==
  /\ Types /\ Labelled /\ InTransit
  /\ Bounded /\ Owned /\ InStep /\ Short
-----------------------------------------------------------------------------
(* How frames leave the bus.                                               *)

(* All frames are well formed. *)
LEMMA RowTyped ==
  ASSUME NEW data \in Seq(Bytes)
  PROVE  Fragments(data) \in Seq(Frames) /\ Fragments(data) # <<>>
  <1>1. CASE ~(Len(data) > Inline)
    <2>1. Single(data) \in Frames
      BY DEF Single, Frames
    <2>2. Fragments(data) = <<Single(data)>>
      BY <1>1, RowFacts
    <2>3. <<Single(data)>> \in Seq(Frames) /\ <<Single(data)>> # <<>>
      BY <2>1
    <2> QED
      BY <2>2, <2>3
  <1>2. CASE Len(data) > Inline
    <2>1. BlockCount(data) \in Nat
      BY CountFacts
    <2>2. Final(BlockCount(data)) \in Frames
      BY <2>1 DEF Final, Frames
    <2>3. \A i \in 1 .. BlockCount(data) : Block(Piece(data, i)) \in Frames
      BY PieceFacts DEF Block, Frames
    <2>4. Blocks(data) = [i \in 1 .. BlockCount(data) |-> Block(Piece(data, i))]
      BY DEF Blocks, Piece
    <2>5. Blocks(data) \in Seq(Frames)
      BY <2>1, <2>3, <2>4
    <2>6. Fragments(data) = Append(Blocks(data), Final(BlockCount(data)))
      BY <1>2 DEF Fragments
    <2> QED
      BY <2>2, <2>5, <2>6, AppendProperties
  <1> QED
    BY <1>1, <1>2

(* The frame at the head of the queue, by its kind. *)
LEMMA HeadFacts ==
  ASSUME Types, Labelled, InTransit, transit # <<>>
  PROVE  /\ Len(sent) \in DOMAIN sent /\ Current \in Seq(Bytes)
         /\ Current \in Seq({Len(sent)} \X Nat)
         /\ Gone \in 0 .. Len(Row) - 1 /\ Head(transit) = Row[Gone + 1]
         /\ Len(transit) = Len(Row) - Gone
         /\ Head(transit).kind = "single" => Gone = 0 /\ Tail(transit) = <<>>
         /\ Head(transit).kind = "block" =>
              /\ Gone + 1 \in 1 .. BlockCount(Current) /\ Tail(transit) # <<>>
              /\ Head(transit).data = Piece(Current, Gone + 1)
         /\ Head(transit).kind = "final" =>
              /\ Gone = BlockCount(Current) /\ Tail(transit) = <<>>
              /\ Head(transit).count = BlockCount(Current)
  <1>1. Len(sent) \in DOMAIN sent
    BY DEF Types, InTransit
  <1>2. Current \in Seq(Bytes) /\ Current \in Seq({Len(sent)} \X Nat)
    BY <1>1 DEF Types, Labelled, Current
  <1>3. Row \in Seq(Frames) /\ Row # <<>>
    BY <1>2, RowTyped DEF Row
  <1>4. Len(Row) \in Nat /\ Len(transit) \in 1 .. Len(Row)
    BY <1>3 DEF Types, InTransit
  <1>5. Gone \in 0 .. Len(Row) - 1 /\ Len(transit) = Len(Row) - Gone
    BY <1>4 DEF Gone
  <1>6. Head(transit) = Row[Gone + 1]
    BY <1>4, HeadTailProperties DEF Types, InTransit
  <1>7. Len(transit) = 1 => Tail(transit) = <<>>
    <2>1. Tail(transit) \in Seq(Frames) /\ Len(Tail(transit)) = Len(transit) - 1
      BY HeadTailProperties DEF Types
    <2>2. \A s \in Seq(Frames) : Len(s) = 0 => s = <<>>
      BY EmptySeq
    <2>3. Len(transit) = 1 => Len(Tail(transit)) = 0
      BY <2>1
    <2> QED
      BY <2>1, <2>2, <2>3, Zenon
  <1>8. CASE ~(Len(Current) > Inline)
    <2>1. Row = <<Single(Current)>>
      BY <1>2, <1>8, RowFacts DEF Row
    <2>2. Len(Row) = 1 /\ Row[1] = Single(Current)
      BY <2>1
    <2>3. Gone = 0 /\ Tail(transit) = <<>> /\ Head(transit).kind = "single"
      BY <1>5, <1>6, <1>7, <2>2 DEF Single
    <2> QED
      BY <1>1, <1>2, <1>5, <1>6, <2>3
  <1>9. CASE Len(Current) > Inline
    <2>1. /\ BlockCount(Current) \in Nat
          /\ Len(Row) = BlockCount(Current) + 1
          /\ Row[BlockCount(Current) + 1] = Final(BlockCount(Current))
          /\ \A i \in 1 .. BlockCount(Current) : Row[i] = Block(Piece(Current, i))
      BY <1>2, <1>9, RowFacts, CountFacts DEF Row
    <2>2. CASE Gone = BlockCount(Current)
      <3>1. Head(transit) = Final(BlockCount(Current))
        BY <1>6, <2>1, <2>2
      <3>2. Head(transit).kind = "final" /\ Head(transit).count = BlockCount(Current)
        BY <3>1 DEF Final
      <3>3. Tail(transit) = <<>>
        <4>1. Len(transit) = 1
          BY <1>5, <2>1, <2>2
        <4> QED
          BY <1>7, <4>1
      <3> QED
        BY <1>1, <1>2, <1>5, <1>6, <2>2, <3>2, <3>3
    <2>3. CASE Gone # BlockCount(Current)
      <3>1. Gone + 1 \in 1 .. BlockCount(Current)
        BY <1>5, <2>1, <2>3
      <3>2. Head(transit) = Block(Piece(Current, Gone + 1))
        BY <1>6, <2>1, <3>1
      <3>3. Head(transit).kind = "block" /\ Head(transit).data = Piece(Current, Gone + 1)
        BY <3>2 DEF Block
      <3>4. Len(transit) > 1
        BY <1>5, <2>1, <3>1
      <3>5. Tail(transit) # <<>>
        <4>1. Len(Tail(transit)) = Len(transit) - 1
          BY HeadTailProperties DEF Types
        <4>2. Len(Tail(transit)) # 0
          BY <1>4, <3>4, <4>1
        <4>3. Len(<<>>) = 0
          OBVIOUS
        <4> QED
          BY <4>2, <4>3, Zenon
      <3> QED
        BY <1>1, <1>2, <1>5, <1>6, <3>1, <3>3, <3>5
    <2> QED
      BY <2>2, <2>3
  <1> QED
    BY <1>8, <1>9

(* A frame leaves the bus, for whatever end. *)
LEMMA Advance ==
  ASSUME Types, Labelled, InTransit, transit # <<>>,
         transit' = Tail(transit), UNCHANGED sent
  PROVE  /\ transit' \in Seq(Frames) /\ Len(transit') = Len(transit) - 1
         /\ InTransit' /\ Labelled'
         /\ Current' = Current /\ Row' = Row /\ Gone' = Gone + 1
  <1>1. /\ transit' \in Seq(Frames) /\ Len(transit') = Len(transit) - 1
        /\ \A i \in DOMAIN transit' : i + 1 \in DOMAIN transit /\ transit'[i] = transit[i + 1]
    BY HeadTailProperties DEF Types
  <1>2. Current' = Current /\ Row' = Row
    BY DEF Current, Row
  <1>3. /\ Gone \in Nat /\ Len(transit) \in Nat /\ Len(transit) <= Len(Row)
        /\ Len(transit) = Len(Row) - Gone
    BY HeadFacts DEF Types, InTransit
  <1>4. Len(Row) \in Int
    BY HeadFacts, RowTyped DEF Row
  <1>5. Gone' = Gone + 1
    BY <1>1, <1>2, <1>3, <1>4 DEF Gone
  <1>6. InTransit'
    <2>1. \A i \in DOMAIN transit' : transit'[i] = Row[Gone + (i + 1)]
      BY <1>1 DEF InTransit
    <2>2. \A i \in DOMAIN transit' : Gone + (i + 1) = (Gone + 1) + i
      BY <1>1, <1>3
    <2>3. \A i \in DOMAIN transit' : transit'[i] = Row'[Gone' + i]
      BY <1>2, <1>5, <2>1, <2>2
    <2>4. Len(transit') <= Len(Row')
      BY <1>1, <1>2, <1>3, <1>4
    <2> QED
      BY <2>3, <2>4 DEF InTransit
  <1> QED
    BY <1>1, <1>2, <1>5, <1>6 DEF Labelled
-----------------------------------------------------------------------------
(* The steps.                                                              *)

LEMMA InitBlock == Init => BlockInv
  <1> SUFFICES ASSUME Init
               PROVE  BlockInv
    OBVIOUS
  <1>1. count \in Nat /\ missing = IF count = 0 THEN {} ELSE {0}
    BY BlockReceiverAssumption DEF Init
  <1>2. received = <<>> /\ sent = <<>> /\ transit = <<>> /\ lost = 0 /\ verdict = "partial"
    BY DEF Init
  <1>3. Types
    BY <1>1, <1>2, BlockReceiverAssumption DEF Types
  <1>4. Bounded
    BY <1>1, <1>2, FragmentationAssumption DEF Bounded
  <1> QED
    BY <1>1, <1>2, <1>3, <1>4
    DEF BlockInv, Labelled, InTransit, Owned, InStep, Short

LEMMA SendKeeps ==
  ASSUME BlockInv, NEW n \in Lengths, SendMessage(n)
  PROVE  BlockInv'
  <1> DEFINE k == Len(sent) + 1
             data == [i \in 1 .. n |-> <<k, i>>]
  <1>1. n \in Nat /\ k \in 1 .. MaxMessages /\ Len(sent) \in Nat
    BY BlockReceiverAssumption DEF SendMessage, BlockInv, Types
  <1>2. data \in Seq(Bytes) /\ data \in Seq({k} \X Nat)
    BY <1>1 DEF Bytes
  <1>3. sent' = Append(sent, data) /\ transit' = Fragments(data) /\ transit = <<>>
    BY DEF SendMessage
  <1>4. UNCHANGED <<received, count, lost, missing, delivered, verdict>>
    BY DEF SendMessage
  <1> HIDE DEF data
  <1>5. /\ sent' \in Seq(Seq(Bytes)) /\ Len(sent') = k
        /\ \A j \in 1 .. Len(sent) : sent'[j] = sent[j]
        /\ sent'[k] = data
    BY <1>1, <1>2, <1>3, AppendProperties DEF BlockInv, Types
  <1>6. transit' \in Seq(Frames) /\ transit' # <<>>
    BY <1>2, <1>3, RowTyped
  <1>7. Types'
    BY <1>1, <1>4, <1>5, <1>6 DEF BlockInv, Types
  <1>8. Labelled'
    <2>1. ASSUME NEW j \in DOMAIN sent'
          PROVE  sent'[j] \in Seq({j} \X Nat)
      <3>1. j \in 1 .. Len(sent) \/ j = k
        BY <1>1, <1>5
      <3>2. CASE j = k
        BY <1>2, <1>5, <3>2
      <3>3. CASE j \in 1 .. Len(sent)
        <4>1. sent[j] \in Seq({j} \X Nat)
          BY <3>3 DEF BlockInv, Types, Labelled
        <4> QED
          BY <1>5, <3>3, <4>1
      <3> QED
        BY <3>1, <3>2, <3>3
    <2> QED
      BY <2>1 DEF Labelled
  <1>9. Current' = data /\ Row' = transit'
    BY <1>3, <1>5 DEF Current, Row
  <1>10. Len(transit') \in Nat
    BY <1>6
  <1>11. Gone' = 0
    BY <1>9, <1>10 DEF Gone
  <1>12. InTransit'
    <2>1. \A i \in DOMAIN transit' : 0 + i = i
      BY <1>6
    <2>2. \A i \in DOMAIN transit' : transit'[i] = Row'[Gone' + i]
      BY <1>9, <1>11, <2>1
    <2>3. sent' # <<>>
      BY <1>1, <1>5
    <2> QED
      BY <1>9, <1>10, <2>2, <2>3 DEF InTransit
  <1>13. Owned'
    BY <1>3, <1>4 DEF BlockInv, Owned
  <1>14. InStep'
    <2>1. SubSeq(data, 1, Smaller(0 * Chunk, Len(data))) = <<>>
      BY <1>2, SubSeqEmpty, FragmentationAssumption DEF Smaller
    <2> QED
      BY <1>3, <1>4, <1>6, <1>9, <1>11, <2>1 DEF BlockInv, InStep
  <1>15. Short'
    BY <1>1, <1>4, <1>5 DEF BlockInv, Types, Short
  <1> QED
    BY <1>4, <1>7, <1>8, <1>12, <1>13, <1>14, <1>15 DEF BlockInv, Bounded

LEMMA LoseKeeps ==
  ASSUME BlockInv, Lose
  PROVE  BlockInv'
  <1>1. /\ transit # <<>> /\ transit' = Tail(transit) /\ lost < MaxLost
        /\ lost' = lost + 1 /\ missing' = missing \cup {Len(sent)}
        /\ UNCHANGED <<received, count, sent, delivered, verdict>>
    BY DEF Lose
  <1>2. /\ transit' \in Seq(Frames) /\ InTransit' /\ Labelled'
        /\ Current' = Current /\ Row' = Row /\ Gone' = Gone + 1
    BY <1>1, Advance DEF BlockInv
  <1>3. Gone \in Nat /\ Len(sent) \in Nat
    BY <1>1, HeadFacts DEF BlockInv, Types
  <1>4. Types'
    <2>1. lost' \in 0 .. MaxLost
      BY <1>1, BlockReceiverAssumption DEF BlockInv, Types
    <2>2. missing' \subseteq 0 .. Len(sent)
      <3>1. Len(sent) \in 0 .. Len(sent) /\ missing \subseteq 0 .. Len(sent)
        BY <1>3 DEF BlockInv, Types
      <3> QED
        BY <1>1, <3>1, Zenon
    <2> QED
      BY <1>1, <1>2, <2>1, <2>2 DEF BlockInv, Types
  <1>5. Owned'
    BY <1>1 DEF BlockInv, Owned
  <1>6. InStep'
    BY <1>1 DEF InStep
  <1>7. Short'
    <2>1. SUFFICES ASSUME missing' = {Len(sent)}
                   PROVE  count < Gone + 1
      BY <1>1, <1>2 DEF Short
    <2>2. count \in Nat
      BY DEF BlockInv, Types
    <2>3. missing = {} \/ missing = {Len(sent)}
      BY <1>1, <2>1
    <2> QED
      BY <1>1, <1>3, <2>2, <2>3 DEF BlockInv, InStep, Short
  <1> QED
    BY <1>1, <1>2, <1>4, <1>5, <1>6, <1>7 DEF BlockInv, Bounded

LEMMA SingleKeeps ==
  ASSUME BlockInv, ReceiveSingle
  PROVE  BlockInv'
  <1>1. /\ transit # <<>> /\ Head(transit).kind = "single" /\ transit' = Tail(transit)
        /\ UNCHANGED <<received, count, sent, lost, missing>>
        /\ verdict' = "delivered"
    BY DEF ReceiveSingle, Arrives
  <1>2. transit' \in Seq(Frames) /\ InTransit' /\ Labelled'
    BY <1>1, Advance DEF BlockInv
  <1>3. Gone = 0 /\ transit' = <<>> /\ Current \in Seq(Bytes)
    BY <1>1, HeadFacts DEF BlockInv
  <1>4. Types'
    BY <1>1, <1>2 DEF BlockInv, Types
  <1>5. Owned'
    BY <1>1, <1>3 DEF BlockInv, Owned
  <1>6. InStep'
    <2>1. SubSeq(Current, 1, Smaller(0 * Chunk, Len(Current))) = <<>>
      BY <1>3, SubSeqEmpty, FragmentationAssumption DEF Smaller
    <2> QED
      BY <1>1, <1>3, <2>1 DEF BlockInv, InStep
  <1> QED
    BY <1>1, <1>2, <1>3, <1>4, <1>5, <1>6 DEF BlockInv, Bounded, Short

LEMMA BlockKeeps ==
  ASSUME BlockInv, ReceiveBlock
  PROVE  BlockInv'
  <1> DEFINE i == Gone + 1
             piece == Piece(Current, i)
  <1>1. /\ transit # <<>> /\ Head(transit).kind = "block" /\ transit' = Tail(transit)
        /\ UNCHANGED <<sent, lost, missing>>
        /\ received' = received \o Head(transit).data /\ count' = count + 1
        /\ verdict' = "partial"
    BY DEF ReceiveBlock, Arrives
  <1>2. /\ transit' \in Seq(Frames) /\ InTransit' /\ Labelled'
        /\ Len(transit') = Len(transit) - 1
        /\ Current' = Current /\ Row' = Row /\ Gone' = Gone + 1
    BY <1>1, Advance DEF BlockInv
  <1>3. /\ Current \in Seq(Bytes) /\ Current \in Seq({Len(sent)} \X Nat)
        /\ i \in 1 .. BlockCount(Current) /\ Head(transit).data = piece
        /\ Gone \in Nat
    BY <1>1, HeadFacts DEF BlockInv
  <1>4. /\ piece \in Seq(Bytes) /\ piece \in Seq({Len(sent)} \X Nat)
        /\ Len(piece) <= Chunk
        /\ (i - 1) * Chunk < Len(Current)
        /\ SubSeq(Current, 1, Smaller((i - 1) * Chunk, Len(Current))) \o piece
             = SubSeq(Current, 1, Smaller(i * Chunk, Len(Current)))
    BY <1>3, PieceFacts
  <1>5. i - 1 = Gone
    BY <1>3
  <1> HIDE DEF piece
  <1>6. received \in Seq(Bytes) /\ count \in Nat
    BY DEF BlockInv, Types
  <1>7. /\ received' \in Seq(Bytes) /\ Len(received') = Len(received) + Len(piece)
        /\ \A j \in DOMAIN received' :
             \/ j \in DOMAIN received /\ received'[j] = received[j]
             \/ received'[j][1] = Len(sent)
    <2>1. received' = received \o piece
      BY <1>1, <1>3
    <2>2. /\ received \o piece \in Seq(Bytes)
          /\ Len(received \o piece) = Len(received) + Len(piece)
          /\ \A j \in 1 .. Len(received) + Len(piece) :
               (received \o piece)[j] = IF j <= Len(received) THEN received[j]
                                       ELSE piece[j - Len(received)]
      BY <1>4, <1>6, ConcatProperties
    <2>3. \A m \in 1 .. Len(piece) : piece[m][1] = Len(sent)
      BY <1>4
    <2>4. ASSUME NEW j \in DOMAIN received'
          PROVE  \/ j \in DOMAIN received /\ received'[j] = received[j]
                 \/ received'[j][1] = Len(sent)
      <3>1. j \in 1 .. Len(received) + Len(piece) /\ Len(received) \in Nat /\ Len(piece) \in Nat
        BY <1>4, <1>6, <2>1, <2>2
      <3>2. CASE j <= Len(received)
        BY <1>6, <2>1, <2>2, <3>1, <3>2
      <3>3. CASE ~(j <= Len(received))
        <4>1. j - Len(received) \in 1 .. Len(piece)
          BY <3>1, <3>3
        <4> QED
          BY <2>1, <2>2, <2>3, <3>1, <3>3, <4>1
      <3> QED
        BY <3>2, <3>3
    <2> QED
      BY <2>1, <2>2, <2>4
  <1>8. Types'
    BY <1>1, <1>2, <1>6, <1>7 DEF BlockInv, Types
  <1>9. Bounded'
    <2>1. Len(received) \in Nat /\ Len(piece) \in Nat
      BY <1>4, <1>6
    <2>2. Chunk * (count + 1) = Chunk * count + Chunk /\ Chunk * count \in Nat
      BY <1>6, FragmentationAssumption
    <2> QED
      BY <1>1, <1>4, <1>7, <2>1, <2>2, FragmentationAssumption DEF BlockInv, Bounded
  <1>10. transit' # <<>>
    BY <1>1, HeadFacts DEF BlockInv
  <1>11. Owned'
    <2> SUFFICES ASSUME NEW j \in DOMAIN received'
                 PROVE  received'[j][1] \in missing \/ received'[j][1] = Len(sent)
      <3>1. Gone' > 0 /\ Len(sent') = Len(sent) /\ missing' = missing
        BY <1>1, <1>2, <1>3
      <3> QED
        BY <1>10, <3>1, Zenon DEF Owned
    <2>1. CASE j \in DOMAIN received /\ received'[j] = received[j]
      BY <2>1 DEF BlockInv, Owned
    <2> QED
      BY <1>7, <2>1
  <1>12. InStep'
    <2> SUFFICES ASSUME missing = {}
                 PROVE  /\ count' = Gone'
                        /\ received' = SubSeq(Current', 1, Smaller(Gone' * Chunk, Len(Current')))
      BY <1>1, <1>10 DEF InStep
    <2>1. /\ count = Gone
          /\ received = SubSeq(Current, 1, Smaller(Gone * Chunk, Len(Current)))
      BY <1>1 DEF BlockInv, InStep
    <2> QED
      BY <1>1, <1>2, <1>3, <1>4, <1>5, <2>1
  <1>13. Short'
    BY <1>1, <1>2, <1>3, <1>6 DEF BlockInv, Short
  <1> QED
    BY <1>2, <1>8, <1>9, <1>11, <1>12, <1>13 DEF BlockInv

LEMMA FinalKeeps ==
  ASSUME BlockInv, ReceiveFinal
  PROVE  BlockInv'
  <1>1. /\ transit # <<>> /\ Head(transit).kind = "final" /\ transit' = Tail(transit)
        /\ UNCHANGED <<sent, lost>>
        /\ received' = <<>> /\ count' = 0 /\ missing' = {}
        /\ verdict' \in {"delivered", "failed"}
    BY DEF ReceiveFinal, Arrives
  <1>2. transit' \in Seq(Frames) /\ InTransit' /\ Labelled'
    BY <1>1, Advance DEF BlockInv
  <1>3. transit' = <<>>
    BY <1>1, HeadFacts DEF BlockInv
  <1>4. Types'
    BY <1>1, <1>2 DEF BlockInv, Types
  <1>5. Bounded'
    BY <1>1, FragmentationAssumption DEF Bounded
  <1> QED
    BY <1>1, <1>2, <1>3, <1>4, <1>5 DEF BlockInv, Owned, InStep, Short

LEMMA BlockSteps == BlockInv /\ [Next]_vars => BlockInv'
  <1> SUFFICES ASSUME BlockInv, [Next]_vars
               PROVE  BlockInv'
    OBVIOUS
  <1>1. CASE UNCHANGED vars
    BY <1>1
    DEF vars, BlockInv, Types, Labelled, InTransit, Bounded, Owned, InStep, Short,
        Current, Row, Gone
  <1> QED
    BY <1>1, SendKeeps, LoseKeeps, SingleKeeps, BlockKeeps, FinalKeeps DEF Next
-----------------------------------------------------------------------------
(* The buffer of rubi_inbound, the block counter and the queues keep their *)
(* types, and the buffer is no longer than its counter says: seven bytes a *)
(* block.                                                                  *)
THEOREM TypeCorrect == Spec => []TypeOK
  <1>1. BlockInv => TypeOK
    BY BlockReceiverAssumption DEF BlockInv, Types, Bounded, TypeOK, Bytes
  <1> QED
    BY <1>1, InitBlock, BlockSteps, PTL DEF Spec

(* rubi_inbound appends blocks without a check of the buffer's size; what  *)
(* it holds beyond the transfer under way is of transfers that lost a      *)
(* frame since the last final frame.                                       *)
THEOREM LossAloneFillsBuffer == Spec => []OnlyLossFillsBuffer
  <1>1. BlockInv => OnlyLossFillsBuffer
    BY DEF BlockInv, Owned, OnlyLossFillsBuffer
  <1> QED
    BY <1>1, InitBlock, BlockSteps, PTL DEF Spec

(* A transfer that lost nothing, received in step, is handed on whole, cut *)
(* to the byte that holds its length: for messages and chunks of any size, *)
(* and whatever blocks_received was when the connection was made.          *)
THEOREM IntactTransfersArrive == Spec => IntactIsDelivered
  <1>1. ASSUME BlockInv, ReceiveFinal, missing = {}
        PROVE  /\ verdict' = "delivered"
               /\ delivered' = SubSeq(sent[Len(sent)], 1, Len(sent[Len(sent)]) % SizeLimit)
    <2>1. transit # <<>> /\ Head(transit).kind = "final"
      BY <1>1 DEF ReceiveFinal, Arrives
    <2>2. /\ Gone = BlockCount(Current) /\ Head(transit).count = BlockCount(Current)
          /\ Current \in Seq(Bytes)
      BY <1>1, <2>1, HeadFacts DEF BlockInv
    <2>3. /\ count = Gone
          /\ received = SubSeq(Current, 1, Smaller(Gone * Chunk, Len(Current)))
      BY <1>1, <2>1 DEF BlockInv, InStep
    <2>4. received = Current
      BY <2>2, <2>3, AllPieces
    <2>5. Complete
      BY <2>2, <2>3 DEF Complete
    <2> QED
      BY <1>1, <2>4, <2>5 DEF ReceiveFinal, Gathered, Current
  <1>2. BlockInv /\ [Next]_vars =>
          [ReceiveFinal /\ missing = {} =>
             LET data == sent[Len(sent)]
             IN  /\ verdict' = "delivered"
                 /\ delivered' = SubSeq(data, 1, Len(data) % SizeLimit)]_vars
    BY <1>1
  <1> QED
    BY <1>2, InitBlock, BlockSteps, PTL DEF Spec, IntactIsDelivered

(* A transfer that lost a block fails the check of the counts, if nothing  *)
(* else was lost since a final frame arrived: fewer blocks came than the   *)
(* final frame counts.                                                     *)
THEOREM DamagedTransfersFail == Spec => DamageIsNoticed
  <1>1. ASSUME BlockInv, ReceiveFinal, missing = {Len(sent)}
        PROVE  verdict' = "failed"
    <2>1. transit # <<>> /\ Head(transit).kind = "final"
      BY <1>1 DEF ReceiveFinal, Arrives
    <2>2. Gone = BlockCount(Current) /\ Head(transit).count = BlockCount(Current)
      BY <1>1, <2>1, HeadFacts DEF BlockInv
    <2>3. count < Gone /\ count \in Nat /\ Gone \in Nat
      BY <1>1, <2>1, HeadFacts DEF BlockInv, Short, Types
    <2>4. ~Complete
      BY <2>2, <2>3 DEF Complete
    <2> QED
      BY <1>1, <2>4 DEF ReceiveFinal
  <1>2. BlockInv /\ [Next]_vars =>
          [ReceiveFinal /\ missing = {Len(sent)} => verdict' = "failed"]_vars
    BY <1>1
  <1> QED
    BY <1>2, InitBlock, BlockSteps, PTL DEF Spec, DamageIsNoticed
=============================================================================

---------------------------- MODULE TxRingProofs ----------------------------
(***************************************************************************)
(* The transmit ring.  Its cursors wrap independently, each write and each *)
(* read goes in one piece or in two, and a full ring is a special value;   *)
(* all of it is arithmetic modulo Size, which these proofs do once, with   *)
(* Wrap.  What is then left is the order of the bytes.                     *)
(***************************************************************************)
EXTENDS TxRing, FragmentFacts

(* A place of the buffer, counted on beyond its end. *)
Wrap(a) == IF a < Size THEN a ELSE a - Size

(* The bytes in the ring, by what the handler is doing. *)
Pending ==
  IF current # Nobody THEN left
  ELSE IF low = high THEN 0 ELSE HeaderSize + message.length

(* The i-th of them, in the order they are to be read. *)
Waiting(i) ==
  IF current # Nobody THEN <<"data", message, message.length - left + i>>
  ELSE IF i <= HeaderSize THEN <<"header", message, i>>
  ELSE <<"data", message, i - HeaderSize>>

Apart == low = Wrap(high + Pending)

Stored == \A i \in 1 .. Pending : buffer[Wrap(high + i - 1)] = Waiting(i)

(* Between its header and its last frame: the blocks sent are the first of *)
(* the message, and what they do not carry is in the ring.                 *)
Sending ==
  current # Nobody =>
    /\ current = message /\ left <= message.length
    /\ InBlocks =>
         /\ message.length - left = Smaller(blocks * Chunk, message.length)
         /\ blocks <= BlockCount(Data(message))
         /\ wire = SubSeq(Fragments(Data(message)), 1, blocks)
    /\ ~InBlocks => left = message.length /\ wire = <<>>

(* The ring holds a message that is not begun, or all of it is sent. *)
Resting ==
  current = Nobody =>
    IF low = high THEN message # Nobody => wire = Fragments(Data(message))
    ELSE message # Nobody /\ wire = <<>>

RingInv == TypeOK /\ Apart /\ Stored /\ Sending /\ Resting
-----------------------------------------------------------------------------
(* Counting around the ring.                                               *)

LEMMA Remainders ==
  \A s \in Nat \ {0} : \A a \in 0 .. 2 * s - 1 : a % s = IF a < s THEN a ELSE a - s
  OBVIOUS

LEMMA SizeFacts ==
  /\ Size \in Nat \ {0} /\ HeaderSize \in Nat \ {0} /\ MaxData \in Nat
  /\ HeaderSize + MaxData < Size
  BY TxRingAssumption

LEMMA WrapFacts ==
  /\ \A a \in 0 .. 2 * Size - 1 : a % Size = Wrap(a) /\ Wrap(a) \in 0 .. Size - 1
  /\ \A h \in 0 .. Size - 1 : Wrap(h) = h
  /\ \A h \in 0 .. Size - 1 : \A a, b \in Nat :
       a + b < Size => Wrap(Wrap(h + a) + b) = Wrap(h + a + b)
  <1>1. Size \in Nat \ {0} /\ HeaderSize \in Nat \ {0} /\ MaxData \in Nat
    BY SizeFacts
  <1>2. \A a \in 0 .. 2 * Size - 1 : a % Size = Wrap(a) /\ Wrap(a) \in 0 .. Size - 1
    <2> SUFFICES ASSUME NEW a \in 0 .. 2 * Size - 1
                 PROVE  a % Size = Wrap(a) /\ Wrap(a) \in 0 .. Size - 1
      OBVIOUS
    <2>1. a % Size = IF a < Size THEN a ELSE a - Size
      BY <1>1, Remainders
    <2> QED
      BY <1>1, <2>1 DEF Wrap
  <1> QED
    BY <1>1, <1>2 DEF Wrap

(* Places of the ring that are less than a round apart are different. *)
LEMMA WrapDiffers ==
  ASSUME NEW h \in 0 .. Size - 1, NEW a \in 0 .. Size - 1, NEW b \in 0 .. Size - 1,
         Wrap(h + a) = Wrap(h + b)
  PROVE  a = b
  BY SizeFacts DEF Wrap

(* rubi_tx_enqueue_back writes the data from a cursor on, and nothing else. *)
LEMMA WrittenFacts ==
  ASSUME NEW buf \in [0 .. Size - 1 -> Cells], NEW data \in Seq(Cells),
         NEW at \in 0 .. Size - 1, Len(data) < Size
  PROVE  /\ Written(buf, at, data) \in [0 .. Size - 1 -> Cells]
         /\ \A i \in 1 .. Len(data) : Written(buf, at, data)[Wrap(at + i - 1)] = data[i]
         /\ \A i \in Len(data) .. Size - 1 :
              Written(buf, at, data)[Wrap(at + i)] = buf[Wrap(at + i)]
  <1>1. Size \in Nat \ {0} /\ Len(data) \in Nat /\ at \in Nat /\ at < Size
    BY SizeFacts
  <1>2. ASSUME NEW j \in 0 .. Size - 1
        PROVE  Written(buf, at, data)[j] =
                 IF at <= j /\ j < at + Len(data) THEN data[j - at + 1]
                 ELSE IF j < at + Len(data) - Size THEN data[j + Size - at + 1]
                 ELSE buf[j]
    BY DEF Written
  <1>3. ASSUME NEW j \in 0 .. Size - 1
        PROVE  Written(buf, at, data)[j] \in Cells
    <2>1. CASE at <= j /\ j < at + Len(data)
      <3>1. j - at + 1 \in 1 .. Len(data)
        BY <1>1, <2>1
      <3>2. data[j - at + 1] \in Cells
        BY <3>1, ElementOfSeq
      <3> QED
        BY <1>2, <2>1, <3>2
    <2>2. CASE ~(at <= j /\ j < at + Len(data)) /\ j < at + Len(data) - Size
      <3>1. j + Size - at + 1 \in 1 .. Len(data)
        BY <1>1, <2>2
      <3>2. data[j + Size - at + 1] \in Cells
        BY <3>1, ElementOfSeq
      <3> QED
        BY <1>2, <2>2, <3>2
    <2> QED
      BY <1>2, <2>1, <2>2
  <1>4. ASSUME NEW i \in 1 .. Len(data)
        PROVE  Written(buf, at, data)[Wrap(at + i - 1)] = data[i]
    <2>1. CASE at + i - 1 < Size
      <3>1. Wrap(at + i - 1) = at + i - 1 /\ at + i - 1 \in 0 .. Size - 1
        BY <1>1, <2>1 DEF Wrap
      <3>2. at <= at + i - 1 /\ at + i - 1 < at + Len(data) /\ (at + i - 1) - at + 1 = i
        BY <1>1
      <3> QED
        BY <1>2, <3>1, <3>2
    <2>2. CASE ~(at + i - 1 < Size)
      <3>1. Wrap(at + i - 1) = at + i - 1 - Size /\ at + i - 1 - Size \in 0 .. Size - 1
        BY <1>1, <2>2 DEF Wrap
      <3>2. /\ ~(at <= at + i - 1 - Size)
            /\ at + i - 1 - Size < at + Len(data) - Size
            /\ (at + i - 1 - Size) + Size - at + 1 = i
        BY <1>1
      <3> QED
        BY <1>2, <3>1, <3>2
    <2> QED
      BY <2>1, <2>2
  <1>5. ASSUME NEW i \in Len(data) .. Size - 1
        PROVE  Written(buf, at, data)[Wrap(at + i)] = buf[Wrap(at + i)]
    <2>1. CASE at + i < Size
      <3>1. Wrap(at + i) = at + i /\ at + i \in 0 .. Size - 1
        BY <1>1, <2>1 DEF Wrap
      <3>2. ~(at + i < at + Len(data)) /\ ~(at + i < at + Len(data) - Size)
        BY <1>1
      <3> QED
        BY <1>2, <3>1, <3>2
    <2>2. CASE ~(at + i < Size)
      <3>1. Wrap(at + i) = at + i - Size /\ at + i - Size \in 0 .. Size - 1
        BY <1>1, <2>2 DEF Wrap
      <3>2. ~(at <= at + i - Size) /\ ~(at + i - Size < at + Len(data) - Size)
        BY <1>1
      <3> QED
        BY <1>2, <3>1, <3>2
    <2> QED
      BY <2>1, <2>2
  <1>6. Written(buf, at, data) \in [0 .. Size - 1 -> Cells]
    BY <1>3 DEF Written
  <1> QED
    BY <1>4, <1>5, <1>6

(* rubi_get_tx_chunk copies the next n bytes, in one piece or two. *)
LEMMA ChunkFacts ==
  ASSUME TypeOK, NEW n \in 0 .. Size - 1
  PROVE  ChunkAt(n) = [i \in 1 .. n |-> buffer[Wrap(high + i - 1)]]
  <1>1. Size \in Nat \ {0} /\ high \in 0 .. Size - 1
    BY SizeFacts DEF TypeOK
  <1>2. ASSUME NEW i \in 1 .. n
        PROVE  (IF high + n > Size /\ i > Size - high
                THEN buffer[i - (Size - high) - 1] ELSE buffer[high + i - 1])
               = buffer[Wrap(high + i - 1)]
    <2>1. CASE high + i - 1 < Size
      BY <1>1, <2>1 DEF Wrap
    <2>2. CASE ~(high + i - 1 < Size)
      <3>1. high + n > Size /\ i > Size - high
        BY <1>1, <2>2
      <3>2. i - (Size - high) - 1 = high + i - 1 - Size
        BY <1>1
      <3>3. Wrap(high + i - 1) = high + i - 1 - Size
        BY <1>1, <2>2 DEF Wrap
      <3> QED
        BY <3>1, <3>2, <3>3
    <2> QED
      BY <2>1, <2>2
  <1> QED
    BY <1>2 DEF ChunkAt

(* What is in the ring, by its cursors. *)
LEMMA RingFacts ==
  ASSUME TypeOK, NEW u \in 0 .. Size - 1, low = Wrap(high + u)
  PROVE  Used = u /\ Available = Size - u /\ Freed = low /\ (low = high <=> u = 0)
  <1>1. Size \in Nat \ {0} /\ high \in 0 .. Size - 1 /\ low \in 0 .. Size - 1
    BY SizeFacts DEF TypeOK
  <1>2. low # Full
    BY <1>1 DEF Full
  <1>3. low - high + Size = u + Size \/ low - high + Size = u
    BY <1>1 DEF Wrap
  <1>4. low - high + Size \in 0 .. 2 * Size - 1
    BY <1>1
  <1>5. Used = u
    BY <1>1, <1>3, <1>4, WrapFacts DEF Used, Wrap
  <1>6. Available = Size - u /\ (low = high <=> u = 0)
    BY <1>1, <1>2 DEF Available, Wrap
  <1> QED
    BY <1>2, <1>5, <1>6 DEF Freed

(* The cursor after n bytes, from a ring that was empty at high. *)
LEMMA AdvancedFacts ==
  ASSUME TypeOK, NEW a \in Nat, NEW n \in Nat, a + n < Size
  PROVE  Advanced(Wrap(high + a), n) = Wrap(high + a + n)
  <1>1. Size \in Nat \ {0} /\ high \in 0 .. Size - 1
    BY SizeFacts DEF TypeOK
  <1> DEFINE at == Wrap(high + a)
  <1>2. at \in 0 .. Size - 1 /\ Wrap(at + n) = Wrap(high + a + n)
    <2>1. high + a \in 0 .. 2 * Size - 1
      BY <1>1
    <2> QED
      BY <1>1, <2>1, WrapFacts
  <1>3. (at + n) % Size = Wrap(at + n)
    BY <1>1, <1>2, WrapFacts
  <1>4. ~(high > at \/ Size - at >= n) => n - (Size - at) = Wrap(at + n)
    BY <1>1, <1>2 DEF Wrap
  <1>5. CASE n = 0
    BY <1>5, <1>1 DEF Advanced
  <1>6. CASE n # 0
    <2>1. Wrap(high + a + n) # high
      BY <1>1, <1>6 DEF Wrap
    <2> HIDE DEF at
    <2>2. Advanced(at, n) = Wrap(high + a + n)
      BY <1>2, <1>3, <1>4, <1>6, <2>1 DEF Advanced
    <2> QED
      BY <2>2 DEF at
  <1> QED
    BY <1>5, <1>6
-----------------------------------------------------------------------------
(* The steps.                                                              *)

LEMMA MessageFacts ==
  ASSUME NEW m \in Messages
  PROVE  /\ m # Nobody /\ m.length \in 0 .. MaxData
         /\ Header(m) \in Seq(Cells) /\ Len(Header(m)) = HeaderSize
         /\ \A i \in 1 .. HeaderSize : Header(m)[i] = <<"header", m, i>>
         /\ Data(m) \in Seq(Cells) /\ Len(Data(m)) = m.length
         /\ \A i \in 1 .. m.length : Data(m)[i] = <<"data", m, i>>
  <1>1. m.length \in 0 .. MaxData /\ m.tag \in Tags
    BY DEF Messages
  <1>2. m # Nobody
    BY <1>1, TxRingAssumption DEF Nobody
  <1>3. \A i \in 1 .. HeaderSize : <<"header", m, i>> \in Cells
    BY SizeFacts DEF Cells
  <1>4. \A i \in 1 .. m.length : <<"data", m, i>> \in Cells
    BY <1>1, SizeFacts DEF Cells
  <1>5. Header(m) = [i \in 1 .. HeaderSize |-> <<"header", m, i>>]
    BY DEF Header, Bytes
  <1>6. Data(m) = [i \in 1 .. m.length |-> <<"data", m, i>>]
    BY DEF Data, Bytes
  <1> HIDE DEF Cells
  <1>7. Header(m) \in Seq(Cells) /\ Len(Header(m)) = HeaderSize
    BY <1>3, <1>5, SizeFacts
  <1>8. Data(m) \in Seq(Cells) /\ Len(Data(m)) = m.length
    BY <1>1, <1>4, <1>6, SizeFacts
  <1> QED
    BY <1>1, <1>2, <1>5, <1>6, <1>7, <1>8

(* What is pending fits. *)
LEMMA PendingFits ==
  ASSUME RingInv
  PROVE  /\ Pending \in 0 .. Size - 1
         /\ Used = Pending /\ Available = Size - Pending /\ Freed = low
         /\ low = high <=> Pending = 0
  <1>1. Pending \in 0 .. Size - 1
    <2>1. CASE current # Nobody
      BY <2>1, SizeFacts DEF RingInv, TypeOK, Pending
    <2>2. CASE current = Nobody /\ low = high
      BY <2>2, SizeFacts DEF Pending
    <2>3. CASE current = Nobody /\ low # high
      <3>1. message \in Messages
        BY <2>3 DEF RingInv, Resting, TypeOK
      <3>2. message.length \in 0 .. MaxData
        BY <3>1, MessageFacts
      <3> QED
        BY <2>3, <3>2, SizeFacts DEF Pending
    <2> QED
      BY <2>1, <2>2, <2>3
  <1> QED
    BY <1>1, RingFacts DEF RingInv, Apart

LEMMA InitRing == Init => RingInv
  <1> SUFFICES ASSUME Init
               PROVE  RingInv
    OBVIOUS
  <1>1. Pending = 0
    BY DEF Init, Pending
  <1>2. TypeOK
    BY SizeFacts DEF Init, TypeOK, Cells
  <1>3. Apart
    BY <1>1, SizeFacts DEF Init, Apart, Wrap
  <1>4. Stored
    BY <1>1 DEF Stored
  <1> QED
    BY <1>2, <1>3, <1>4 DEF RingInv, Init, Sending, Resting

(* SendFFData: the header and then the data, from where the last message   *)
(* ended.                                                                  *)
LEMMA SendKeeps ==
  ASSUME RingInv, NEW m \in Messages, SendFFData(m)
  PROVE  RingInv'
  <1> DEFINE H == HeaderSize
             L == m.length
             once == Written(buffer, low, Header(m))
  <1>1. /\ Size \in Nat \ {0} /\ H \in Nat \ {0} /\ L \in Nat /\ H + L < Size
        /\ high \in 0 .. Size - 1 /\ low \in 0 .. Size - 1
    BY SizeFacts, MessageFacts DEF RingInv, TypeOK
  <1>2. low = high /\ current = Nobody
    BY <1>1, PendingFits DEF SendFFData
  <1>3. Wrap(high) = high
    BY <1>1, WrapFacts
  <1>4. Advanced(low, H) = Wrap(high + H) /\ Advanced(Wrap(high + H), L) = Wrap(high + H + L)
    <2>1. Advanced(Wrap(high + 0), H) = Wrap(high + 0 + H)
      BY <1>1, AdvancedFacts DEF RingInv
    <2>2. Advanced(Wrap(high + H), L) = Wrap(high + H + L)
      BY <1>1, AdvancedFacts DEF RingInv
    <2>3. high + 0 = high
      BY <1>1
    <2> QED
      BY <1>2, <1>3, <2>1, <2>2, <2>3
  <1>5. /\ buffer' = Written(once, Wrap(high + H), Data(m))
        /\ low' = Wrap(high + H + L) /\ message' = m /\ wire' = <<>>
        /\ UNCHANGED <<high, current, left, blocks>>
    BY <1>4 DEF SendFFData
  <1>6. Wrap(high + H) \in 0 .. Size - 1 /\ low' \in 0 .. Size - 1
    BY <1>1, <1>5 DEF Wrap
  <1>7. /\ once \in [0 .. Size - 1 -> Cells]
        /\ \A i \in 1 .. H : once[Wrap(high + i - 1)] = <<"header", m, i>>
    <2>1. buffer \in [0 .. Size - 1 -> Cells]
      BY DEF RingInv, TypeOK
    <2>2. Header(m) \in Seq(Cells) /\ Len(Header(m)) = H
      BY MessageFacts
    <2>3. Len(Header(m)) < Size
      BY <1>1, <2>2
    <2>4. /\ once \in [0 .. Size - 1 -> Cells]
          /\ \A i \in 1 .. Len(Header(m)) : once[Wrap(low + i - 1)] = Header(m)[i]
      BY <1>1, <2>1, <2>2, <2>3, WrittenFacts
    <2> QED
      BY <1>2, <2>2, <2>4, MessageFacts
  <1> HIDE DEF once
  <1>8. /\ buffer' \in [0 .. Size - 1 -> Cells]
        /\ \A i \in 1 .. L : buffer'[Wrap(high + H + i - 1)] = <<"data", m, i>>
        /\ \A i \in L .. Size - 1 :
             buffer'[Wrap(Wrap(high + H) + i)] = once[Wrap(Wrap(high + H) + i)]
    <2>1. Data(m) \in Seq(Cells) /\ Len(Data(m)) = L /\ Len(Data(m)) < Size
      BY <1>1, MessageFacts
    <2>2. /\ buffer' \in [0 .. Size - 1 -> Cells]
          /\ \A i \in 1 .. Len(Data(m)) : buffer'[Wrap(Wrap(high + H) + i - 1)] = Data(m)[i]
          /\ \A i \in Len(Data(m)) .. Size - 1 :
               buffer'[Wrap(Wrap(high + H) + i)] = once[Wrap(Wrap(high + H) + i)]
      BY <1>5, <1>6, <1>7, <2>1, WrittenFacts
    <2>3. \A i \in 1 .. L : Wrap(Wrap(high + H) + i - 1) = Wrap(high + H + i - 1)
      BY <1>1 DEF Wrap
    <2> QED
      BY <2>1, <2>2, <2>3, MessageFacts
  <1>9. \A i \in 1 .. H : buffer'[Wrap(high + i - 1)] = <<"header", m, i>>
    <2> SUFFICES ASSUME NEW i \in 1 .. H
                 PROVE  buffer'[Wrap(high + i - 1)] = once[Wrap(high + i - 1)]
      BY <1>7
    <2>1. Size - H + i - 1 \in L .. Size - 1
      BY <1>1
    <2>2. Wrap(Wrap(high + H) + (Size - H + i - 1)) = Wrap(high + i - 1)
      BY <1>1 DEF Wrap
    <2> QED
      BY <1>8, <2>1, <2>2
  <1>10. low' # high
    BY <1>1, <1>5 DEF Wrap
  <1>11. m # Nobody
    BY MessageFacts
  <1>12. Pending' = H + L
    BY <1>2, <1>5, <1>10 DEF Pending
  <1>13. Stored'
    <2> SUFFICES ASSUME NEW i \in 1 .. H + L
                 PROVE  buffer'[Wrap(high + i - 1)] = IF i <= H THEN <<"header", m, i>>
                                                     ELSE <<"data", m, i - H>>
      BY <1>2, <1>5, <1>12 DEF Stored, Waiting
    <2>1. CASE i <= H
      BY <1>1, <1>9, <2>1
    <2>2. CASE ~(i <= H)
      <3>1. i - H \in 1 .. L /\ high + H + (i - H) - 1 = high + i - 1
        BY <1>1, <2>2
      <3>2. buffer'[Wrap(high + H + (i - H) - 1)] = <<"data", m, i - H>>
        BY <1>8, <3>1
      <3> QED
        BY <2>2, <3>1, <3>2
    <2> QED
      BY <2>1, <2>2
  <1>14. TypeOK'
    BY <1>5, <1>6, <1>8 DEF RingInv, TypeOK
  <1>15. Apart'
    <2>1. high + H + L = high + (H + L)
      BY <1>1
    <2> QED
      BY <1>5, <1>12, <2>1 DEF Apart
  <1>16. Sending' /\ Resting'
    BY <1>2, <1>5, <1>10, <1>11 DEF Sending, Resting
  <1> QED
    BY <1>13, <1>14, <1>15, <1>16 DEF RingInv

(* What is read is what was waiting. *)
LEMMA ReadFacts ==
  ASSUME RingInv, NEW n \in Nat, n <= Pending
  PROVE  ChunkAt(n) = [i \in 1 .. n |-> Waiting(i)]
  <1>1. Pending \in 0 .. Size - 1 /\ n \in 0 .. Size - 1
    BY PendingFits, SizeFacts
  <1>2. ChunkAt(n) = [i \in 1 .. n |-> buffer[Wrap(high + i - 1)]]
    BY <1>1, ChunkFacts DEF RingInv
  <1>3. \A i \in 1 .. n : buffer[Wrap(high + i - 1)] = Waiting(i)
    BY <1>1 DEF RingInv, Stored
  <1> QED
    BY <1>2, <1>3

(* Reading moves the cursor behind what was read. *)
LEMMA ReadKeeps ==
  ASSUME RingInv, NEW n \in Nat, n <= Pending,
         high' = (high + n) % Size, UNCHANGED <<low, buffer>>,
         Pending' = Pending - n,
         \A i \in 1 .. Pending - n : Waiting(i)' = Waiting(i + n)
  PROVE  high' \in 0 .. Size - 1 /\ Apart' /\ Stored'
  <1>1. /\ Size \in Nat \ {0} /\ high \in 0 .. Size - 1
        /\ Pending \in 0 .. Size - 1 /\ Pending - n \in Nat
    BY PendingFits, SizeFacts DEF RingInv, TypeOK
  <1>2. high' = Wrap(high + n) /\ high' \in 0 .. Size - 1
    <2>1. high + n \in 0 .. 2 * Size - 1
      BY <1>1
    <2> QED
      BY <2>1, WrapFacts
  <1>3. ASSUME NEW b \in 0 .. Pending - n
        PROVE  Wrap(high' + b) = Wrap(high + n + b)
    <2>1. n + b < Size /\ b \in Nat
      BY <1>1
    <2>2. Wrap(Wrap(high + n) + b) = Wrap(high + n + b)
      BY <1>1, <2>1, WrapFacts
    <2> QED
      BY <1>2, <2>2
  <1>4. Apart'
    <2>1. Wrap(high' + (Pending - n)) = Wrap(high + n + (Pending - n))
      BY <1>1, <1>3
    <2>2. high + n + (Pending - n) = high + Pending
      BY <1>1
    <2> QED
      BY <2>1, <2>2 DEF RingInv, Apart
  <1>5. Stored'
    <2> SUFFICES ASSUME NEW i \in 1 .. Pending - n
                 PROVE  buffer[Wrap(high' + i - 1)] = Waiting(i + n)
      BY DEF Stored
    <2>1. Wrap(high' + (i - 1)) = Wrap(high + n + (i - 1))
      BY <1>1, <1>3
    <2>2. high' + (i - 1) = high' + i - 1 /\ high + n + (i - 1) = high + (i + n) - 1
      BY <1>1, <1>2
    <2>3. i + n \in 1 .. Pending
      BY <1>1
    <2> QED
      BY <2>1, <2>2, <2>3 DEF RingInv, Stored
  <1> QED
    BY <1>2, <1>4, <1>5

LEMMA TakeKeeps ==
  ASSUME RingInv, TakeHeader
  PROVE  RingInv'
  <1>1. /\ current = Nobody /\ Available # Size
        /\ low' = Freed /\ high' = (high + HeaderSize) % Size
        /\ UNCHANGED <<buffer, message, wire>>
    BY DEF TakeHeader
  <1>2. PICK m \in Messages :
          /\ ChunkAt(HeaderSize) = Header(m) /\ current' = m /\ left' = m.length
          /\ blocks' = IF m.length > Inline THEN 0 ELSE blocks
    BY DEF TakeHeader
  <1>3. low # high /\ low' = low
    BY <1>1, PendingFits, SizeFacts
  <1>4. message \in Messages /\ wire = <<>>
    BY <1>1, <1>3 DEF RingInv, Resting, TypeOK
  <1>5. Pending = HeaderSize + message.length /\ message.length \in Nat
    BY <1>1, <1>3, <1>4, MessageFacts DEF Pending
  <1>6. m = message
    <2>1. ChunkAt(HeaderSize) = [i \in 1 .. HeaderSize |-> Waiting(i)]
      BY <1>5, ReadFacts, SizeFacts
    <2>2. 1 \in 1 .. HeaderSize
      BY SizeFacts
    <2>3. Waiting(1) = <<"header", message, 1>>
      BY <1>1, <2>2, SizeFacts DEF Waiting
    <2>4. Header(m)[1] = <<"header", m, 1>>
      BY <2>2, MessageFacts
    <2>5. <<"header", m, 1>> = <<"header", message, 1>>
      BY <1>2, <2>1, <2>2, <2>3, <2>4
    <2> QED
      BY <2>5
  <1>7. current' # Nobody /\ message \in Messages /\ message' = message
    <2>1. m # Nobody
      BY MessageFacts
    <2> QED
      BY <1>1, <1>2, <1>4, <2>1
  <1>8. Pending' = Pending - HeaderSize
    BY <1>2, <1>5, <1>6, <1>7, SizeFacts DEF Pending
  <1>9. ASSUME NEW i \in 1 .. Pending - HeaderSize
        PROVE  Waiting(i)' = Waiting(i + HeaderSize)
    <2>1. Waiting(i)' = <<"data", message, message.length - message.length + i>>
      BY <1>2, <1>6, <1>7 DEF Waiting
    <2>2. Waiting(i + HeaderSize) = <<"data", message, i + HeaderSize - HeaderSize>>
      BY <1>1, <1>5, SizeFacts DEF Waiting
    <2> QED
      BY <1>5, <2>1, <2>2, SizeFacts
  <1>10. high' \in 0 .. Size - 1 /\ Apart' /\ Stored'
    BY <1>1, <1>3, <1>5, <1>8, <1>9, ReadKeeps, SizeFacts
  <1>11. TypeOK'
    BY <1>1, <1>2, <1>3, <1>10, MessageFacts DEF RingInv, TypeOK
  <1>12. Sending'
    <2>1. BlockCount(Data(message)) \in Nat
      BY <1>4, MessageFacts, CountFacts
    <2>2. SubSeq(Fragments(Data(message)), 1, 0) = <<>>
      BY SubSeqEmpty
    <2>3. Smaller(0 * Chunk, message.length) = 0
      BY <1>5, FragmentationAssumption DEF Smaller
    <2>4. InBlocks' <=> message.length > Inline
      BY <1>2, <1>6 DEF InBlocks
    <2>5. message.length - message.length = 0 /\ message.length <= message.length
      BY <1>5
    <2> QED
      BY <1>1, <1>2, <1>4, <1>6, <2>1, <2>2, <2>3, <2>4, <2>5 DEF Sending
  <1> QED
    BY <1>7, <1>10, <1>11, <1>12 DEF RingInv, Resting

(* A block is the next piece of the message. *)
LEMMA BlockKeeps ==
  ASSUME RingInv, SendBlock
  PROVE  RingInv'
  <1> DEFINE n == Smaller(Chunk, left)
             all == Fragments(Data(message))
  <1>1. /\ current # Nobody /\ InBlocks /\ left # 0
        /\ wire' = Append(wire, Block(ChunkAt(n)))
        /\ high' = (high + n) % Size /\ left' = left - n
        /\ low' = Freed /\ blocks' = blocks + 1
        /\ UNCHANGED <<buffer, current, message>>
    BY DEF SendBlock
  <1>2. /\ current = message /\ message \in Messages
        /\ message.length - left = Smaller(blocks * Chunk, message.length)
        /\ blocks <= BlockCount(Data(message))
        /\ wire = SubSeq(all, 1, blocks)
    BY <1>1 DEF RingInv, Sending, TypeOK
  <1>3. /\ message.length \in Nat /\ left \in 1 .. message.length /\ blocks \in Nat
        /\ message.length > Inline
    BY <1>1, <1>2, MessageFacts DEF RingInv, Sending, TypeOK, InBlocks
  <1>4. n \in 1 .. left
    BY <1>3, FragmentationAssumption DEF Smaller
  <1>5. Pending = left /\ low' = low
    BY <1>1, PendingFits DEF Pending
  <1>6. Pending' = Pending - n
    BY <1>1, <1>5 DEF Pending
  <1> HIDE DEF n
  <1>7. ASSUME NEW i \in 1 .. Pending - n
        PROVE  Waiting(i)' = Waiting(i + n)
    <2>1. Waiting(i)' = <<"data", message, message.length - (left - n) + i>>
      BY <1>1 DEF Waiting
    <2>2. Waiting(i + n) = <<"data", message, message.length - left + (i + n)>>
      BY <1>1 DEF Waiting
    <2>3. message.length - (left - n) + i = message.length - left + (i + n)
      BY <1>3, <1>4, <1>5
    <2> QED
      BY <2>1, <2>2, <2>3
  <1>8. high' \in 0 .. Size - 1 /\ Apart' /\ Stored'
    BY <1>1, <1>4, <1>5, <1>6, <1>7, ReadKeeps
  <1>9. /\ Data(message) \in Seq(Cells) /\ Len(Data(message)) = message.length
        /\ \A i \in 1 .. message.length : Data(message)[i] = <<"data", message, i>>
    BY <1>2, MessageFacts
  <1>10. blocks * Chunk = message.length - left
    BY <1>2, <1>3, FragmentationAssumption DEF Smaller
  <1>11. /\ blocks + 1 \in 1 .. BlockCount(Data(message))
         /\ BlockCount(Data(message)) \in Nat
    <2>1. BlockCount(Data(message)) \in Nat /\ message.length <= BlockCount(Data(message)) * Chunk
      BY <1>9, CountFacts
    <2>2. blocks * Chunk < message.length
      BY <1>3, <1>10
    <2>3. blocks # BlockCount(Data(message))
      BY <1>3, <2>1, <2>2, FragmentationAssumption
    <2> QED
      BY <1>2, <1>3, <2>1, <2>3
  <1>12. Smaller((blocks + 1) * Chunk, message.length) = message.length - left + n
    <2>1. (blocks + 1) * Chunk = message.length - left + Chunk
      BY <1>3, <1>10, FragmentationAssumption
    <2> QED
      BY <1>3, <2>1, FragmentationAssumption DEF Smaller, n
  <1>13. ChunkAt(n) = Piece(Data(message), blocks + 1)
    <2>1. ChunkAt(n) = [i \in 1 .. n |-> Waiting(i)]
      BY <1>4, <1>5, ReadFacts
    <2>2. \A i \in 1 .. n : Waiting(i) = Data(message)[message.length - left + i]
      BY <1>1, <1>3, <1>4, <1>9 DEF Waiting
    <2>3. Piece(Data(message), blocks + 1)
            = SubSeq(Data(message), message.length - left + 1, message.length - left + n)
      <3>1. (blocks + 1) - 1 = blocks
        BY <1>3
      <3> QED
        BY <1>9, <1>10, <1>12, <3>1 DEF Piece
    <2>4. SubSeq(Data(message), message.length - left + 1, message.length - left + n)
            = [i \in 1 .. n |-> Data(message)[message.length - left + i]]
      <3> DEFINE a == message.length - left
      <3>1. a \in Nat /\ n \in Nat
        BY <1>3, <1>4
      <3> HIDE DEF a
      <3>2. 1 + (a + n) - (a + 1) = n /\ \A i \in 1 .. n : i + (a + 1) - 1 = a + i
        BY <3>1
      <3>3. SubSeq(Data(message), a + 1, a + n)
              = [i \in 1 .. (1 + (a + n) - (a + 1)) |-> Data(message)[i + (a + 1) - 1]]
        BY <3>1
      <3>4. [i \in 1 .. n |-> Data(message)[i + (a + 1) - 1]]
              = [i \in 1 .. n |-> Data(message)[a + i]]
        BY <3>2
      <3>5. SubSeq(Data(message), a + 1, a + n) = [i \in 1 .. n |-> Data(message)[a + i]]
        BY <3>2, <3>3, <3>4
      <3> QED
        BY <3>5 DEF a
    <2> QED
      BY <2>1, <2>2, <2>3, <2>4
  <1>14. /\ all[blocks + 1] = Block(ChunkAt(n))
         /\ Len(all) = BlockCount(Data(message)) + 1
    BY <1>3, <1>9, <1>11, <1>13, RowFacts
  <1>15. wire' = SubSeq(all, 1, blocks + 1)
    <2>1. all \in Seq({all[i] : i \in 1 .. Len(all)})
      BY <1>9, FragmentsSeq
    <2>2. blocks \in 0 .. Len(all) - 1
      BY <1>3, <1>11, <1>14
    <2> HIDE DEF all
    <2>3. Append(SubSeq(all, 1, blocks), all[blocks + 1]) = SubSeq(all, 1, blocks + 1)
      BY <2>1, <2>2, OneMore
    <2> QED
      BY <1>1, <1>2, <1>14, <2>3
  <1>16. TypeOK'
    <2>1. left - n \in 0 .. MaxData
      BY <1>2, <1>3, <1>4, MessageFacts, SizeFacts
    <2>2. blocks + 1 \in Nat
      BY <1>3
    <2> QED
      BY <1>1, <1>5, <1>8, <2>1, <2>2 DEF RingInv, TypeOK
  <1>17. Sending'
    <2>1. message.length - (left - n) = message.length - left + n
      BY <1>3, <1>4
    <2>2. left - n <= message.length
      BY <1>3, <1>4
    <2>3. blocks + 1 <= BlockCount(Data(message))
      BY <1>3, <1>11
    <2> QED
      BY <1>1, <1>2, <1>12, <1>15, <2>1, <2>2, <2>3 DEF Sending, InBlocks
  <1> QED
    BY <1>1, <1>8, <1>16, <1>17 DEF RingInv, Resting

(* The last frame: what is left by itself, or the count of the blocks. *)
LEMMA LastKeeps ==
  ASSUME RingInv, SendLast
  PROVE  RingInv'
  <1> DEFINE all == Fragments(Data(message))
  <1>1. /\ current # Nobody /\ (InBlocks => left = 0)
        /\ wire' = Append(wire, IF InBlocks THEN Final(blocks) ELSE Single(ChunkAt(left)))
        /\ blocks' = IF InBlocks THEN 0 ELSE blocks
        /\ low' = IF left > 0 THEN Freed ELSE low
        /\ high' = (high + left) % Size /\ current' = Nobody
        /\ UNCHANGED <<buffer, left, message>>
    BY DEF SendLast
  <1>2. /\ current = message /\ message \in Messages
        /\ left \in 0 .. message.length /\ message.length \in 0 .. MaxData
        /\ InBlocks =>
             /\ message.length - left = Smaller(blocks * Chunk, message.length)
             /\ blocks <= BlockCount(Data(message))
             /\ wire = SubSeq(all, 1, blocks)
        /\ ~InBlocks => left = message.length /\ wire = <<>>
    BY <1>1, MessageFacts DEF RingInv, Sending, TypeOK
  <1>3. Pending = left /\ low' = low
    BY <1>1, PendingFits DEF Pending
  <1>4. high' = low
    <2>1. high \in 0 .. Size - 1 /\ Pending \in 0 .. Size - 1 /\ low = Wrap(high + Pending)
      BY PendingFits DEF RingInv, TypeOK, Apart
    <2>2. high + left \in 0 .. 2 * Size - 1
      BY <1>3, <2>1, SizeFacts
    <2> QED
      BY <1>1, <1>3, <2>1, <2>2, WrapFacts
  <1>5. Pending' = 0
    BY <1>1, <1>3, <1>4 DEF Pending
  <1>6. low \in 0 .. Size - 1 /\ blocks \in Nat
    BY DEF RingInv, TypeOK
  <1>7. Apart' /\ Stored'
    <2>1. Wrap(high' + 0) = high'
      <3>1. high' + 0 = high' /\ high' < Size
        BY <1>4, <1>6, SizeFacts
      <3> QED
        BY <3>1 DEF Wrap
    <2> QED
      BY <1>3, <1>4, <1>5, <2>1 DEF Apart, Stored
  <1>8. TypeOK'
    BY <1>1, <1>3, <1>4, <1>6 DEF RingInv, TypeOK
  <1>9. /\ Data(message) \in Seq(Cells) /\ Len(Data(message)) = message.length
        /\ \A i \in 1 .. message.length : Data(message)[i] = <<"data", message, i>>
    BY <1>2, MessageFacts
  <1>10. InBlocks <=> message.length > Inline
    BY <1>2 DEF InBlocks
  <1>11. wire' = all
    <2>1. CASE ~InBlocks
      <3>1. ChunkAt(left) = [i \in 1 .. left |-> Waiting(i)]
        BY <1>2, <1>3, ReadFacts
      <3>2. \A i \in 1 .. left : Waiting(i) = <<"data", message, i>>
        BY <1>1, <1>2, <2>1 DEF Waiting
      <3>3. Data(message) = [i \in 1 .. message.length |-> <<"data", message, i>>]
        BY DEF Data, Bytes
      <3>4. ChunkAt(left) = Data(message)
        BY <1>2, <2>1, <3>1, <3>2, <3>3
      <3>5. all = <<Single(Data(message))>>
        BY <1>9, <1>10, <2>1, RowFacts
      <3> QED
        BY <1>1, <1>2, <2>1, <3>4, <3>5
    <2>2. CASE InBlocks
      <3>1. /\ BlockCount(Data(message)) \in Nat
            /\ message.length > 0 =>
                 (BlockCount(Data(message)) - 1) * Chunk < message.length
        BY <1>9, CountFacts
      <3>2. message.length > 0
        BY <1>2, <1>10, <2>2, FragmentationAssumption
      <3>3. blocks * Chunk >= message.length
        BY <1>1, <1>2, <1>6, <2>2, FragmentationAssumption DEF Smaller
      <3>4. blocks = BlockCount(Data(message))
        <4>1. SUFFICES ASSUME blocks < BlockCount(Data(message))
                       PROVE  FALSE
          BY <1>2, <1>6, <2>2, <3>1
        <4>2. blocks * Chunk <= (BlockCount(Data(message)) - 1) * Chunk
          BY <1>6, <3>1, <4>1, Factors, FragmentationAssumption
        <4> QED
          BY <1>2, <1>6, <3>1, <3>2, <3>3, <4>2, FragmentationAssumption
      <3>5. /\ Len(all) = blocks + 1 /\ all[blocks + 1] = Final(blocks)
        BY <1>9, <1>10, <2>2, <3>4, RowFacts
      <3>6. all \in Seq({all[i] : i \in 1 .. Len(all)})
        BY <1>9, FragmentsSeq
      <3> HIDE DEF all
      <3>7. Append(SubSeq(all, 1, blocks), all[blocks + 1]) = SubSeq(all, 1, blocks + 1)
        BY <1>6, <3>5, <3>6, OneMore
      <3>8. SubSeq(all, 1, blocks + 1) = all
        BY <3>5, <3>6, SubSeqFull
      <3> QED
        BY <1>1, <1>2, <2>2, <3>5, <3>7, <3>8
    <2> QED
      BY <2>1, <2>2
  <1>12. Sending' /\ Resting'
    BY <1>1, <1>3, <1>4, <1>11 DEF Sending, Resting
  <1> QED
    BY <1>7, <1>8, <1>12 DEF RingInv

LEMMA RingSteps == RingInv /\ [Next]_vars => RingInv'
  <1> SUFFICES ASSUME RingInv, [Next]_vars
               PROVE  RingInv'
    OBVIOUS
  <1>1. CASE UNCHANGED vars
    BY <1>1
    DEF vars, RingInv, TypeOK, Apart, Stored, Sending, Resting, Pending, Waiting, InBlocks
  <1> QED
    BY <1>1, SendKeeps, TakeKeeps, BlockKeeps, LastKeeps DEF Next
-----------------------------------------------------------------------------
(* The cursors of the transmit ring stay in the buffer, and the special     *)
(* value of a full ring never occurs: a message and its header never fill  *)
(* it.                                                                     *)
THEOREM TypeCorrect == Spec => []TypeOK
  <1>1. RingInv => TypeOK
    BY DEF RingInv
  <1> QED
    BY <1>1, InitRing, RingSteps, PTL DEF Spec

(* The ring holds what is not sent yet, no byte more or less, wherever in  *)
(* the buffer its cursors stand (rubi_tx_enqueue_back, rubi_get_tx_chunk). *)
THEOREM CursorsAreExact == Spec => []CursorsExact
  <1>1. RingInv => CursorsExact
    BY PendingFits DEF CursorsExact, Pending
  <1> QED
    BY <1>1, InitRing, RingSteps, PTL DEF Spec

(* For messages, headers, chunks and buffers of any size, what              *)
(* rubi_continue_tx puts on the wire is a beginning of the message in the  *)
(* format of Fragmentation, byte for byte, and all of it in the end.       *)
THEOREM WireIsExact == Spec => []WireIsMessage
  <1> DEFINE all == Fragments(Data(message))
  <1>1. ASSUME RingInv, message # Nobody
        PROVE  /\ Len(wire) <= Len(all)
               /\ wire = SubSeq(all, 1, Len(wire))
               /\ current = Nobody /\ Available = Size => wire = all
    <2>1. message \in Messages
      BY <1>1 DEF RingInv, TypeOK
    <2>2. Data(message) \in Seq(Cells)
      BY <2>1, MessageFacts
    <2>3. Len(all) \in Nat /\ all \in Seq({all[i] : i \in 1 .. Len(all)})
      BY <2>2, FragmentsSeq
    <2>4. ASSUME wire = all
          PROVE  Len(wire) <= Len(all) /\ wire = SubSeq(all, 1, Len(wire))
      BY <2>3, <2>4, SubSeqFull
    <2>5. ASSUME wire = <<>>
          PROVE  Len(wire) <= Len(all) /\ wire = SubSeq(all, 1, Len(wire))
      BY <2>3, <2>5, SubSeqEmpty
    <2>6. CASE current = Nobody
      <3>1. Available = Size => low = high
        BY <1>1, PendingFits, SizeFacts
      <3>2. IF low = high THEN wire = all ELSE wire = <<>>
        BY <1>1, <2>6 DEF RingInv, Resting
      <3> HIDE DEF all
      <3> QED
        BY <2>4, <2>5, <3>1, <3>2
    <2>7. CASE current # Nobody /\ ~InBlocks
      <3>1. wire = <<>>
        BY <1>1, <2>7 DEF RingInv, Sending
      <3> HIDE DEF all
      <3> QED
        BY <2>5, <2>7, <3>1
    <2>8. CASE current # Nobody /\ InBlocks
      <3>1. /\ current = message /\ blocks \in Nat /\ blocks <= BlockCount(Data(message))
            /\ wire = SubSeq(all, 1, blocks)
        BY <1>1, <2>8 DEF RingInv, Sending, TypeOK
      <3>2. Len(all) = BlockCount(Data(message)) + 1
        <4>1. Len(Data(message)) > Inline
          BY <2>1, <2>8, <3>1, MessageFacts DEF InBlocks
        <4> QED
          BY <2>2, <4>1, RowFacts
      <3>3. BlockCount(Data(message)) \in Nat
        BY <2>2, CountFacts
      <3> HIDE DEF all
      <3>4. blocks <= Len(all)
        BY <3>1, <3>2, <3>3
      <3>5. Len(wire) = blocks
        BY <2>3, <3>1, <3>4, SubSeqProperties
      <3> QED
        BY <2>8, <3>1, <3>4, <3>5
    <2> QED
      BY <2>6, <2>7, <2>8
  <1>2. RingInv => WireIsMessage
    BY <1>1 DEF WireIsMessage
  <1> QED
    BY <1>2, InitRing, RingSteps, PTL DEF Spec
=============================================================================

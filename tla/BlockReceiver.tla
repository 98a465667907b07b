---------------------------- MODULE BlockReceiver ----------------------------
(***************************************************************************)
(* The receive side of ProtocolHandler, rubi_inbound: blocks are appended  *)
(* to a buffer until a final frame says how many there should be.  Frames  *)
(* of one board arrive in order, but the receive queue of the socket       *)
(* overflows (SO_RXQ_OVFL), and what is lost then is a run of any length.  *)
(*                                                                         *)
(* The board numbers its messages here so that a byte tells which message  *)
(* it is from; the receiver does not see these numbers.                    *)
(***************************************************************************)
EXTENDS Fragmentation

CONSTANTS
  Lengths,        \* lengths of messages
  SizeLimit,      \* data_size counts modulo this (256)
  InitialCounts,  \* what blocks_received may start with: it has no initializer
  MaxMessages,    \* bound on the messages sent
  MaxLost         \* bound on the frames lost

ASSUME BlockReceiverAssumption ==
  /\ Lengths \subseteq Nat /\ InitialCounts \subseteq Nat
  /\ SizeLimit \in Nat \ {0} /\ MaxMessages \in Nat /\ MaxLost \in Nat

VARIABLES
  received,   \* the first rubi_rx_cursor bytes of rubi_rx_buffer
  count,      \* blocks_received
  sent,       \* the messages of the board so far, a sequence of their data
  transit,    \* the frames of the last one that are not received or lost yet
  lost,       \* how many frames were lost
  missing,    \* the messages that lost a frame since a final frame arrived;
              \* 0 for blocks that were counted and never sent
  delivered,  \* what rubi_data_outwrapper was last called with
  verdict     \* of the last frame: "partial", "delivered" or "failed"

vars == <<received, count, sent, transit, lost, missing, delivered, verdict>>

Init ==
  /\ received = <<>>
  /\ count \in InitialCounts
  /\ sent = <<>> /\ transit = <<>>
  /\ lost = 0 /\ missing = IF count = 0 THEN {} ELSE {0}
  /\ delivered = <<>>
  /\ verdict = "partial"

(* The board sends its next message when the bus has taken the last one.    *)
SendMessage(n) ==
  LET k == Len(sent) + 1
      data == [i \in 1 .. n |-> <<k, i>>]
  IN  /\ transit = <<>> /\ Len(sent) < MaxMessages
      /\ sent' = Append(sent, data)
      /\ transit' = Fragments(data)
      /\ UNCHANGED <<received, count, lost, missing, delivered, verdict>>

Lose ==
  /\ transit # <<>> /\ lost < MaxLost
  /\ transit' = Tail(transit)
  /\ lost' = lost + 1
  /\ missing' = missing \cup {Len(sent)}
  /\ UNCHANGED <<received, count, sent, delivered, verdict>>

Arrives(kind) ==
  /\ transit # <<>> /\ Head(transit).kind = kind
  /\ transit' = Tail(transit)
  /\ UNCHANGED <<sent, lost>>

(* A short message is handed on and leaves the buffer alone. *)
ReceiveSingle ==
  /\ Arrives("single")
  /\ delivered' = Head(transit).data
  /\ verdict' = "delivered"
  /\ UNCHANGED <<received, count, missing>>

ReceiveBlock ==
  /\ Arrives("block")
  /\ received' = received \o Head(transit).data
  /\ count' = count + 1
  /\ verdict' = "partial"
  /\ UNCHANGED <<missing, delivered>>

CompleteAtLeast == count <= Head(transit).count   \* mutation: <= for =

(* The counts agree: what has gathered is handed on. *)
Complete == Head(transit).count = count

(* data_size is a byte. *)
Gathered == SubSeq(received, 1, Len(received) % SizeLimit)

ReceiveFinalKeeping ==   \* mutation: a failed transfer stays in the buffer
  /\ Arrives("final")
  /\ IF Complete
     THEN delivered' = Gathered /\ verdict' = "delivered" /\ received' = <<>>
     ELSE verdict' = "failed" /\ UNCHANGED <<delivered, received>>
  /\ count' = 0
  /\ missing' = {}

ReceiveFinal ==
  /\ Arrives("final")
  /\ IF Complete
     THEN delivered' = Gathered /\ verdict' = "delivered"
     ELSE verdict' = "failed" /\ UNCHANGED delivered
  /\ received' = <<>>
  /\ count' = 0
  /\ missing' = {}

Next ==
  \/ \E n \in Lengths : SendMessage(n)
  \/ Lose \/ ReceiveSingle \/ ReceiveBlock \/ ReceiveFinal

Spec == Init /\ [][Next]_vars
-----------------------------------------------------------------------------
TypeOK ==
  /\ received \in Seq((1 .. MaxMessages) \X Nat)
  /\ count \in Nat /\ Len(received) <= Chunk * count
  /\ Len(sent) <= MaxMessages
  /\ lost \in 0 .. MaxLost
  /\ missing \subseteq 0 .. MaxMessages
  /\ verdict \in {"partial", "delivered", "failed"}

(* A transfer that lost nothing is delivered whole if the receiver was in   *)
(* step before it, and every final frame that arrives brings it back into   *)
(* step, whatever was lost before and whatever blocks_received started with.*)
(* A message that a byte cannot measure is cut short.                       *)
IntactIsDelivered ==
  [][ReceiveFinal /\ missing = {} =>
       LET data == sent[Len(sent)]
       IN  /\ verdict' = "delivered"
           /\ delivered' = SubSeq(data, 1, Len(data) % SizeLimit)]_vars

(* The receive buffer, which is filled without a check of its size, holds   *)
(* bytes of the transfer under way and of transfers that lost a frame since *)
(* the last final frame that arrived: only lost final frames make it grow.  *)
OnlyLossFillsBuffer ==
  \A i \in DOMAIN received : received[i][1] \in missing \cup {Len(sent)}

(* A transfer that lost blocks is never handed on, mixed up or shortened,   *)
(* as long as all that was lost since a final frame is of that transfer.    *)
DamageIsNoticed ==
  [][ReceiveFinal /\ missing = {Len(sent)} => verdict' = "failed"]_vars

(* The check of the counts lets no broken transfer through: what is handed  *)
(* on is a message the board sent.                                          *)
OnlyMessagesDelivered ==
  verdict = "delivered" => \E i \in 1 .. Len(sent) : delivered = sent[i]
=============================================================================

------------------------------ MODULE RosFields ------------------------------
(***************************************************************************)
(* One board, its description and its field data, from the first line of a *)
(* handshake to the ROS topics and back: BoardCommunicationHandler builds  *)
(* the description line by line, HandshakeComplete and BoardManager        *)
(* compare it with the one that is known, RosModule makes topics of the    *)
(* first one, and every later connection of the board has to live with     *)
(* them.  RubiServer models which connection serves a front end when; here *)
(* that is the variable link, and the interest is in what is said.         *)
(*                                                                         *)
(* A failed assertion, an exception or an access to nothing ends the       *)
(* process: fault is the reason, and nothing happens after it.             *)
(***************************************************************************)
EXTENDS RosFrontend

CONSTANTS
  BoardName, BoardVersion,
  Firmwares,   \* the lists of fields a board may be built with
  Values,      \* bound: for each kind of message, the values that are sent
  MaxLost,     \* bound: lines of descriptions that are lost
  MaxFlashes   \* bound: times the board comes back with another firmware

(* What a board can say of a field or a function in the lines of About.     *)
Tellable(ff) ==
  /\ ff \in FieldDescriptors \cup FunctionDescriptors
  /\ CheckCompleteness(ff) /\ SplitNames(ff.names) = ff.names
  /\ ff \in FunctionDescriptors => ff.names = <<>>

ASSUME RosFieldsAssumption ==
  /\ MaxLost \in Nat /\ MaxFlashes \in Nat
  /\ BoardName \in STRING /\ BoardVersion \in STRING
  /\ \A ffs \in Firmwares :
       /\ ffs \in Seq(FieldDescriptors \cup FunctionDescriptors)
       /\ \A i \in DOMAIN ffs : Tellable(ffs[i])

VARIABLES
  firmware,    \* the fields of the board
  awake,       \* the board executes its application
  told,        \* what the board has sent since it got its address: all parts
               \* of its description before told.part, and told.line lines of that
  desc,        \* inst.descriptor of its handler, if it has one
  link,        \* its handler: "joining", "held", or "up" (launched)
  wake,        \* its handler's wake flag, as of the last keep-alive
  known,       \* the entry of descriptor_map for its name, if any
  front,       \* its RosBoardHandler, if any
  fault,
  exchange,    \* the last field data, what was sent and what came of it
  gaps,        \* history: lines lost now, in the first handshake, and in all
  flashes

connection == <<told, desc, link, wake>>

vars == <<firmware, awake, connection, known, front, fault, exchange, gaps, flashes>>

(* What a board says of a field or a function, and of itself. *)
About(ff) ==
  IF IsField(ff)
  THEN << [tag |-> "FIELD_NAME", value |-> ff.name],
          [tag |-> "FIELD_TYPE", value |-> ff.typecode],
          [tag |-> "SUBFIELDS_C", value |-> ""],
          [tag |-> "FIELD_ACCESS", value |-> ff.access] >>
       \o IF ff.names = <<>> THEN <<>>
          ELSE << [tag |-> "SUBFIELDS", value |-> ff.names] >>
  ELSE << [tag |-> "FUNC_NAME", value |-> ff.name],
          [tag |-> "FUNC_OUT_TYPE", value |-> ff.out_typecode],
          [tag |-> "FUNC_ARGS_TYPE", value |-> ff.typecode] >>

Introduction ==
  << [tag |-> "BOARD_NAME", value |-> BoardName],
     [tag |-> "BOARD_VERSION", value |-> BoardVersion] >>

(* What it sends after its address was confirmed, part by part. *)
Part(n) == IF n = 0 THEN Introduction ELSE About(firmware[n])

Nothing == [part |-> 0, line |-> 0]

NoDescriptor == [board |-> "none"]
NoFrontEnd   == [desc |-> NoDescriptor]
Quiet        == [from |-> "nobody"]

Init ==
  /\ firmware \in Firmwares
  /\ awake \in BOOLEAN
  /\ told = Nothing /\ desc = NoDescriptor /\ link = "joining" /\ wake = FALSE
  /\ known = NoDescriptor
  /\ front = NoFrontEnd
  /\ fault = "none"
  /\ exchange = Quiet
  /\ gaps = [now |-> FALSE, first |-> FALSE, count |-> 0, origin |-> firmware]
  /\ flashes = 0

Alive == fault = "none"

Dies(why) ==
  /\ fault' = why
  /\ UNCHANGED <<firmware, awake, connection, known, front, exchange, gaps, flashes>>
-----------------------------------------------------------------------------
(* The handshake.                                                          *)

Telling == Alive /\ link = "joining" /\ told.part <= Len(firmware)

Line == Part(told.part)[told.line + 1]

ToldMore ==
  IF told.line + 1 < Len(Part(told.part)) THEN [told EXCEPT !.line = @ + 1]
  ELSE [part |-> told.part + 1, line |-> 0]

(* DescriptionDataInbound: the first line it gets has to be the name. *)
DescriptionFaults ==
  IF desc # NoDescriptor THEN InfoFaults(desc, Line.tag)
  ELSE IF Line.tag = "BOARD_NAME" THEN {} ELSE {"no_descriptor"}

DescriptionDataInbound ==
  /\ Telling /\ DescriptionFaults = {}
  /\ told' = ToldMore
  /\ desc' = ApplyInfo(IF desc = NoDescriptor THEN NewDescriptor ELSE desc,
                       Line.tag, Line.value)
  /\ UNCHANGED <<firmware, awake, link, wake, known, front, fault, exchange, gaps,
                 flashes>>

LoseLine ==
  /\ Telling /\ gaps.count < MaxLost
  /\ told' = ToldMore
  /\ gaps' = [gaps EXCEPT !.now = TRUE, !.count = @ + 1]
  /\ UNCHANGED <<firmware, awake, desc, link, wake, known, front, fault, exchange,
                 flashes>>

BadLine ==
  /\ Telling
  /\ \E why \in DescriptionFaults : Dies(why)

InitComplete == Alive /\ link = "joining" /\ told.part > Len(firmware)

RegisterUnmapped ==   \* mutation: the descriptor map is not written
  /\ InitComplete
  /\ desc # NoDescriptor /\ known = NoDescriptor
  /\ NewBoardFaults(desc) = {}
  /\ front' = FrontEnd(desc)
  /\ link' = "up"
  /\ gaps' = [gaps EXCEPT !.first = gaps.now, !.origin = firmware]
  /\ UNCHANGED <<firmware, awake, told, desc, wake, known, fault, exchange, flashes>>

(* HandshakeComplete of the first board of the name, RosModule::NewBoard    *)
(* and Launch.                                                              *)
RegisterNew ==
  /\ InitComplete
  /\ desc # NoDescriptor /\ known = NoDescriptor
  /\ NewBoardFaults(desc) = {}
  /\ known' = desc
  /\ front' = FrontEnd(desc)
  /\ link' = "up"
  /\ gaps' = [gaps EXCEPT !.first = gaps.now, !.origin = firmware]
  /\ UNCHANGED <<firmware, awake, told, desc, wake, fault, exchange, flashes>>

(* HandshakeComplete of a later one: at once in the place of the earlier    *)
(* connection if that one is dead, else on hold.                            *)
RegisterAgain ==
  /\ InitComplete
  /\ desc # NoDescriptor /\ known # NoDescriptor
  /\ ~Incomparable(known, desc) /\ SameDescription(known, desc)
  /\ link' \in {"up", "held"}
  /\ UNCHANGED <<firmware, awake, told, desc, wake, known, front, fault, exchange,
                 gaps, flashes>>

(* RequestNewHandler, when ROS calls a front end whose handler has died. *)
TakeOver ==
  /\ Alive /\ link = "held"
  /\ SameDescription(desc, front.desc)
  /\ link' = "up"
  /\ UNCHANGED <<firmware, awake, told, desc, wake, known, front, fault, exchange,
                 gaps, flashes>>

BadHandshake ==
  /\ InitComplete
  /\ \E why \in
        IF desc = NoDescriptor THEN {"no_descriptor"}
        ELSE IF known = NoDescriptor THEN NewBoardFaults(desc)
        ELSE IF Incomparable(known, desc) THEN {"function"}
        ELSE IF SameDescription(known, desc) THEN {} ELSE {"descriptor_conflict"} :
       Dies(why)

(* The board starts again: it was rebooted, lost power, or was given other  *)
(* firmware.  It gets a new address and with it a new handler.              *)
Rejoin ==
  /\ Alive
  /\ \/ UNCHANGED <<firmware, flashes>>
     \/ /\ flashes < MaxFlashes
        /\ flashes' = flashes + 1
        /\ firmware' \in Firmwares \ {firmware}
  /\ awake' \in BOOLEAN
  /\ told' = Nothing /\ desc' = NoDescriptor /\ link' = "joining" /\ wake' = FALSE
  /\ gaps' = [gaps EXCEPT !.now = FALSE]
  /\ exchange' = Quiet
  /\ UNCHANGED <<known, front, fault>>
-----------------------------------------------------------------------------
(* Keep-alives and the sleep and wake topics.                              *)

KeepAliveOnceAwake ==   \* mutation: the flag is only ever set
  /\ Alive /\ desc # NoDescriptor
  /\ wake' = (wake \/ awake)
  /\ UNCHANGED <<firmware, awake, told, desc, link, known, front, fault, exchange,
                 gaps, flashes>>

(* A handler with a descriptor is polled, and its board answers. *)
KeepAlive ==
  /\ Alive /\ desc # NoDescriptor
  /\ wake' = awake
  /\ UNCHANGED <<firmware, awake, told, desc, link, known, front, fault, exchange,
                 gaps, flashes>>

(* CommandWake, CommandSleep: the server only tells the board. *)
WakeOrSleep(b) ==
  /\ Alive /\ link = "up"
  /\ awake' = b
  /\ UNCHANGED <<firmware, connection, known, front, fault, exchange, gaps, flashes>>
-----------------------------------------------------------------------------
(* Field data.                                                             *)

(* The values the type of a field can hold. *)
InRange(ff, w) ==
  LET width == Width(ff.typecode)
  IN  CASE ff.typecode \in {"int8_t", "int16_t"} -> w \in -(width \div 2) .. (width \div 2) - 1
        [] ff.typecode \in {"uint8_t", "uint16_t"} -> w \in 0 .. width - 1
        [] OTHER -> TRUE

Words(ff) == [1 .. Elements(ff) -> Values[Message[ff.typecode]]]

(* What a ROS client may publish: one value more or less, too (which ones   *)
(* does not matter then: they are all the same).                            *)
Messages(ff) ==
  Words(ff) \cup
    UNION {[1 .. n -> {v}] : n \in {Elements(ff) - 1, Elements(ff) + 1},
                             v \in Values[Message[ff.typecode]]}

Sent(i, words) == [size |-> TypeSize[firmware[i].typecode], words |-> words]

MaySend(i, words) ==
  /\ Alive /\ link = "up"
  /\ FromBoard(firmware[i])
  /\ \A j \in DOMAIN words : InRange(firmware[i], words[j])

(* The board sends one of its fields and the front end publishes it. *)
FFDataInbound(i, words) ==
  /\ MaySend(i, words)
  /\ InboundFaults(front, i, Sent(i, words)) = {}
  /\ LET p == Published(front, i, Sent(i, words))
     IN  exchange' = [from |-> "board",
                      sent |-> [topic |-> Topic(firmware[i]), words |-> words],
                      got  |-> [topic |-> p.topic, words |-> p.words]]
  /\ UNCHANGED <<firmware, awake, connection, known, front, fault, gaps, flashes>>

BadData(i, words) ==
  /\ MaySend(i, words)
  /\ \E why \in InboundFaults(front, i, Sent(i, words)) : Dies(why)

(* A ROS client publishes to one of the topics of the front end.            *)
FieldOf(k) == front.desc.ffs[GetFieldFfid(front, k)]

(* The callback of the topic, when BackendReady finds a handler, and        *)
(* FFDataOutbound: a board that is thought to sleep is sent nothing.        *)
FFDataOutbound(k, words) ==
  LET out == Outbound(front, k, words)
  IN  /\ Alive /\ link = "up" /\ wake
      /\ OutboundFaults(front, k, words, wake) = {}
      /\ exchange' = [from |-> "ros",
                      sent |-> [topic |-> front.subscribers[k], words |-> words],
                      got  |-> [topic |-> IF out.ffid \in DOMAIN firmware
                                          THEN Topic(firmware[out.ffid]) ELSE NoTopic,
                                words |-> out.words]]
      /\ UNCHANGED <<firmware, awake, connection, known, front, fault, gaps, flashes>>

(* A message that ends the server.  While the board joins again, an earlier *)
(* connection of it, awake or not, may still be the backend.                *)
BadMessage(k, words) ==
  /\ Alive
  /\ \E flag \in BOOLEAN : \E why \in OutboundFaults(front, k, words, flag) :
       /\ link = "up" => flag = wake
       /\ fault' = why
  /\ exchange' = [from |-> "refused",
                  sent |-> [topic |-> front.subscribers[k], words |-> words]]
  /\ UNCHANGED <<firmware, awake, connection, known, front, gaps, flashes>>
-----------------------------------------------------------------------------
Exchange ==
  \/ \E i \in DOMAIN firmware : IsField(firmware[i]) /\
       \E words \in Words(firmware[i]) : FFDataInbound(i, words) \/ BadData(i, words)
  \/ front # NoFrontEnd /\ \E k \in DOMAIN front.subscribers :
       \E words \in Messages(FieldOf(k)) : FFDataOutbound(k, words) \/ BadMessage(k, words)

Next ==
  \/ DescriptionDataInbound \/ LoseLine \/ BadLine
  \/ RegisterNew \/ RegisterAgain \/ TakeOver \/ BadHandshake \/ Rejoin
  \/ KeepAlive \/ \E b \in BOOLEAN : WakeOrSleep(b)
  \/ Exchange

Spec == Init /\ [][Next]_vars

-----------------------------------------------------------------------------
Faults ==
  {"incomplete", "no_element", "wrong_attribute", "no_descriptor", "function",
   "no_message_type", "descriptor_conflict", "no_field", "size", "no_publisher",
   "wrong_length", "too_long"}

TypeOK ==
  /\ firmware \in Firmwares
  /\ awake \in BOOLEAN /\ wake \in BOOLEAN
  /\ told \in [part : 0 .. Len(firmware) + 1, line : 0 .. 4]
  /\ {desc, known, front.desc} \subseteq BoardDescriptors \cup {NoDescriptor}
  /\ link \in {"joining", "held", "up"}
  /\ link # "joining" => front.desc = known /\ known # NoDescriptor
  /\ fault \in Faults \cup {"none"}
  /\ exchange.from \in {"nobody", "board", "ros", "refused"}
  /\ gaps \in [now : BOOLEAN, first : BOOLEAN, count : 0 .. MaxLost, origin : Firmwares]
  /\ flashes \in 0 .. MaxFlashes

(* The description that is compared, or the one it is compared with, is the *)
(* whole description of the board's present firmware.                       *)
Trusted == ~gaps.now \/ (~gaps.first /\ gaps.origin = firmware)

(* A front end never serves a board with other fields than its own: lost    *)
(* lines in the first handshake or in a later one, and new firmware under   *)
(* an old name, are found out before the connection is launched.            *)
SpeaksTheSameLanguage == link = "up" /\ Trusted => front.desc.ffs = firmware

(* What a board sends comes out on the topic of that very field, as the     *)
(* type it was sent; a string field with subfields repeats its first value. *)
RightTopic ==
  exchange.from = "board" /\ Trusted =>
    /\ exchange.got.topic = exchange.sent.topic
    /\ \A i \in DOMAIN exchange.sent.words :
         exchange.got.words[i] =
           exchange.sent.words[IF exchange.sent.topic.message = "RubiString" THEN 1 ELSE i]

(* What a ROS client writes to a field reaches that field of the board, and *)
(* unchanged if its type can hold it.                                       *)
RightField ==
  exchange.from = "ros" /\ Trusted =>
    /\ exchange.got.topic = exchange.sent.topic
    /\ \E ff \in {firmware[i] : i \in DOMAIN firmware} :
         /\ ff.name = exchange.sent.topic.name
         /\ \A i \in DOMAIN exchange.sent.words :
              InRange(ff, exchange.sent.words[i]) =>
                exchange.got.words[i] = exchange.sent.words[i]

(* What get_field_descriptor says of a field is what its topics are: it has *)
(* an input exactly if ROS can write it, an output exactly if it is         *)
(* published.                                                               *)
ServicesMatchTopics ==
  front # NoFrontEnd =>
    \A k \in DOMAIN front.fieldtable :
      LET name == BoardDescriptor(known).fields[k]
          d    == GetFieldDescriptor(known, name)
      IN  /\ d.input  <=> \E j \in DOMAIN front.subscribers :
                             front.subscribers[j] = [name |-> name, message |-> Message[d.typecode]]
          /\ d.output <=> \E j \in DOMAIN front.publishers :
                             front.publishers[j] = [name |-> name, message |-> Message[d.typecode]]

(* A field that a frame of 255 bytes can carry, of a type with a message.   *)
Sound(ff) ==
  IsField(ff) /\ ff.typecode \in DOMAIN Message /\ GetFFSize(ff) < 256

(* A message for a field that has more or fewer values than the field. *)
Misfit(said) ==
  \E i \in DOMAIN front.desc.ffs :
    /\ Topic(front.desc.ffs[i]) = said.topic
    /\ Elements(front.desc.ffs[i]) # Len(said.words)

(* The server dies of a lost line, of new firmware under an old name, of a  *)
(* ROS message with more or fewer values than the field of its topic, or of *)
(* a field it cannot carry; never of anything a sound board says, of when   *)
(* it says it, or of a message with the right number of values.             *)
OnlyDamageKills ==
  /\ fault = "wrong_length" => Misfit(exchange.sent)
  /\ fault \notin {"none", "wrong_length"} =>
       \/ gaps.count > 0 \/ flashes > 0
       \/ /\ fault \in {"function", "no_message_type", "size", "too_long"}
          /\ \E i \in DOMAIN firmware : ~Sound(firmware[i])

(* A board with functions is served like any other. *)
FunctionsAccepted == fault # "function"

(* Once a board stays connected, and awake or asleep, the server knows it,  *)
(* and does not go on dropping what ROS writes to a board that is awake.    *)
WakeIsLearned ==
  \A b \in BOOLEAN :
    <>[](Alive /\ desc # NoDescriptor /\ awake = b) => <>[](wake = b)
=============================================================================

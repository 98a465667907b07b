----------------------------- MODULE RosFrontend -----------------------------
(***************************************************************************)
(* The tables a RosBoardHandler builds from a description and what it does *)
(* with field data, and the services that describe boards                  *)
(* (src/src/ros_frontend.cpp), as operators.                               *)
(*                                                                         *)
(* Field data is a sequence of values with the size of one of them; a      *)
(* string is a value like a number.  Tables count from 1.                  *)
(***************************************************************************)
EXTENDS Descriptors, FiniteSets

(* The message that carries each type; void and enums have none. *)
Message ==
  [int32_t |-> "RubiInt", int16_t |-> "RubiInt", int8_t |-> "RubiInt",
   uint32_t |-> "RubiUnsignedInt", uint16_t |-> "RubiUnsignedInt",
   uint8_t |-> "RubiUnsignedInt", bool |-> "RubiBool", float |-> "RubiFloat",
   shortstring |-> "RubiString", longstring |-> "RubiString"]

NoTopic == [name |-> "", message |-> ""]

(* A board writes what it declares write-only, and hears the rest. *)
FromBoard(ff) == ff.access \in {"WRITEONLY", "READWRITE"}
ToBoard(ff)   == ff.access \in {"READONLY", "READWRITE"}

Topic(ff) == [name |-> ff.name, message |-> Message[ff.typecode]]

IsField(ff) == ff.sort = "field"

(* The counter fc of Init: the fields among the first i. *)
FieldCount(ffs, i) == Cardinality({j \in 1 .. i : IsField(ffs[j])})

(* The fields, in their order, by their places in the description. *)
Fields(ffs) ==
  [k \in 1 .. FieldCount(ffs, Len(ffs)) |->
     CHOOSE i \in DOMAIN ffs : IsField(ffs[i]) /\ FieldCount(ffs, i) = k]

PublishersPacked(ffs) ==   \* mutation: nothing is kept for a silent field
  LET t == SelectSeq(Fields(ffs), LAMBDA i : FromBoard(ffs[i]))
  IN  [k \in DOMAIN t |-> Topic(ffs[t[k]])]

(* One entry per field; boost::none for a field the board does not write. *)
Publishers(ffs) ==
  [k \in DOMAIN Fields(ffs) |->
     LET ff == ffs[Fields(ffs)[k]]
     IN  IF FromBoard(ff) THEN Topic(ff) ELSE NoTopic]

SubscribersToAll(ffs) ==   \* mutation: the access is not asked for
  [k \in DOMAIN Fields(ffs) |-> Topic(ffs[Fields(ffs)[k]])]

(* Each field that can be written from ROS, with its callback's field_id. *)
Subscribers(ffs) ==
  [k \in {j \in DOMAIN Fields(ffs) : ToBoard(ffs[Fields(ffs)[j]])} |->
     Topic(ffs[Fields(ffs)[k]])]

(* RosBoardHandler::Init: fftable leads from an ffid to the place among the *)
(* fields, fieldtable back.                                                 *)
FrontEnd(d) ==
  [desc        |-> d,
   fftable     |-> [i \in DOMAIN d.ffs |->
                      IF IsField(d.ffs[i]) THEN FieldCount(d.ffs, i) ELSE 0],
   fieldtable  |-> Fields(d.ffs),
   publishers  |-> Publishers(d.ffs),
   subscribers |-> Subscribers(d.ffs)]

(* Why NewBoard fails: Init throws for a type that has no message; the      *)
(* announcement casts functions to fields and asserts.                      *)
NewBoardFaults(d) ==
  LET sorts == {d.ffs[i].sort : i \in DOMAIN d.ffs}
  IN  IF \E i \in DOMAIN d.ffs : IsField(d.ffs[i]) /\ d.ffs[i].typecode \notin DOMAIN Message
      THEN {"no_message_type"}
      ELSE IF "function" \in sorts THEN {"function"} ELSE {}
-----------------------------------------------------------------------------
(* FFDataInbound.                                                          *)

DataSize(data) == data.size * Len(data.words)

(* Strings are all read from the start of the data. *)
Interpret(typecode, words) ==
  IF Message[typecode] = "RubiString"
  THEN [i \in DOMAIN words |-> words[1]] ELSE words

(* A received length is kept in eight bits (protocol.cpp:40).  There is     *)
(* nothing behind an ffid the description does not have.                    *)
InboundFaults(front, ffid, data) ==
  IF ffid \notin DOMAIN front.desc.ffs THEN {"no_field"}
  ELSE IF GetFFSize(front.desc.ffs[ffid]) # DataSize(data) % 256 THEN {"size"}
  ELSE IF front.fftable[ffid] \notin DOMAIN front.publishers THEN {"no_publisher"}
  ELSE IF front.publishers[front.fftable[ffid]] = NoTopic THEN {"no_publisher"}
  ELSE {}

Published(front, ffid, data) ==
  [topic |-> front.publishers[front.fftable[ffid]],
   words |-> Interpret(front.desc.ffs[ffid].typecode, data.words)]
-----------------------------------------------------------------------------
(* The callbacks of the fields_to_board topics.                            *)

(* The number of values of a narrow integer. *)
Width(typecode) == IF TypeSize[typecode] = 1 THEN 256 ELSE 65536

(* DeinterpretInt: the conversion to a narrower integer.  Values of 32 bits *)
(* already come in a message of that width.                                 *)
Deinterpret(typecode, w) ==
  LET low == w % Width(typecode)
  IN  CASE typecode \in {"int8_t", "int16_t"} ->
             IF 2 * low >= Width(typecode) THEN low - Width(typecode) ELSE low
        [] typecode \in {"uint8_t", "uint16_t"} -> low
        [] OTHER -> w

GetFieldFfidPacked(front, k) ==   \* mutation: read-only fields are not counted
  front.fieldtable[Len(SelectSeq(Fields(front.desc.ffs),
                                 LAMBDA i : i <= k /\ ToBoard(front.desc.ffs[i])))]

(* The callback for field_id k: the ffid and the values for the board. *)
GetFieldFfid(front, k) == front.fieldtable[k]

(* The callback asserts that there are as many values as the field is long, *)
(* SendFFData that a frame can carry them; FFDataOutbound does not call it  *)
(* if the board's last answer said it sleeps.                               *)
OutboundFaults(front, k, words, wake) ==
  LET ff == front.desc.ffs[GetFieldFfid(front, k)]
  IN  IF GetFFSize(ff) \div TypeSize[ff.typecode] # Len(words) THEN {"wrong_length"}
      ELSE IF wake /\ GetFFSize(ff) >= 256 THEN {"too_long"}
      ELSE {}

Outbound(front, k, words) ==
  LET ff == front.desc.ffs[GetFieldFfid(front, k)]
  IN  [ffid |-> GetFieldFfid(front, k), size |-> TypeSize[ff.typecode],
       words |-> [i \in DOMAIN words |-> Deinterpret(ff.typecode, words[i])]]
-----------------------------------------------------------------------------
(* The services, over a descriptor map.                                    *)

BoardDescriptor(d) ==
  [fields |-> [k \in DOMAIN Fields(d.ffs) |-> d.ffs[Fields(d.ffs)[k]].name],
   board  |-> [tag \in BoardTags \ {"BOARD_NAME"} |-> d.board[tag]]]

(* The first field of that name. *)
FieldNamed(d, name) ==
  CHOOSE i \in DOMAIN d.ffs :
    d.ffs[i].name = name /\ \A j \in 1 .. (i - 1) : d.ffs[j].name # name

GetFieldDescriptor(d, name) ==
  LET ff == d.ffs[FieldNamed(d, name)]
  IN  [subfields |-> ff.names, typecode |-> ff.typecode,
       input |-> ToBoard(ff), output |-> FromBoard(ff)]
=============================================================================

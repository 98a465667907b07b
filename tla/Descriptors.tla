----------------------------- MODULE Descriptors -----------------------------
(***************************************************************************)
(* BoardDescriptor, FieldDescriptor and FunctionDescriptor                 *)
(* (src/src/descriptors.cpp) as records, and what the lines of a           *)
(* description do to them.                                                 *)
(*                                                                         *)
(* A line is a tag and a value.  The value of a list of names is the text  *)
(* as the sequence of its pieces between commas, spaces left out; the      *)
(* other values are compared and copied only, so they are plain strings.   *)
(* Zero is what a typecode or an access starts with.  An ffid is always    *)
(* the place of its field in the description, and is not kept.             *)
(***************************************************************************)
EXTENDS Integers, Sequences

Zero == "0"

BoardTags == {"BOARD_NAME", "BOARD_VERSION", "BOARD_DRIVER", "BOARD_DESC"}
FieldTags == {"FIELD_NAME", "FIELD_TYPE", "FIELD_ACCESS", "SUBFIELDS_C", "SUBFIELDS"}
FuncTags  == {"FUNC_NAME", "FUNC_OUT_TYPE", "FUNC_ARGS_TYPE", "FUNC_ARGS_N",
              "FUNC_ARGS_NAMES"}
NameTags  == {"FIELD_NAME", "FUNC_NAME"}

(* rubi_type_size: bytes per value *)
TypeSize ==
  [void |-> 0, int32_t |-> 4, int16_t |-> 2, int8_t |-> 1,
   uint32_t |-> 4, uint16_t |-> 2, uint8_t |-> 1, float |-> 4,
   shortstring |-> 32, longstring |-> 255, bool |-> 1, RUBI_ENUM1 |-> 1]

FieldDescriptor(name) ==
  [sort |-> "field", name |-> name, typecode |-> Zero, access |-> Zero, names |-> <<>>]

FunctionDescriptor(name) ==
  [sort |-> "function", name |-> name, typecode |-> Zero, out_typecode |-> Zero,
   names |-> <<>>]

TypeCodes == DOMAIN TypeSize \cup {Zero}
Accesses  == {"READONLY", "WRITEONLY", "READWRITE", Zero}

(* The values the three types of descriptors can take. *)
FieldDescriptors ==
  [sort : {"field"}, name : STRING, typecode : TypeCodes, access : Accesses,
   names : Seq(STRING)]

FunctionDescriptors ==
  [sort : {"function"}, name : STRING, typecode : TypeCodes, out_typecode : TypeCodes,
   names : Seq(STRING)]

BoardDescriptors ==
  [board : [BoardTags -> STRING \cup {""}],
   ffs   : Seq(FieldDescriptors \cup FunctionDescriptors)]

NewDescriptor == [board |-> [tag \in BoardTags |-> ""], ffs |-> <<>>]

Newest(ffs) == ffs[Len(ffs)]

(* A piece ends with a comma, or with the text if it is not empty. *)
SplitNames(text) ==
  IF text # <<>> /\ Newest(text) = "" THEN SubSeq(text, 1, Len(text) - 1) ELSE text

(* The member of a descriptor that a line with this tag sets. *)
Member ==
  [FIELD_NAME |-> "name", FIELD_TYPE |-> "typecode", FIELD_ACCESS |-> "access",
   FUNC_NAME |-> "name", FUNC_ARGS_TYPE |-> "typecode",
   FUNC_OUT_TYPE |-> "out_typecode"]

Build(ff, tag, value) ==
  CASE tag \in DOMAIN Member -> [ff EXCEPT ![Member[tag]] = value]
    [] tag \in {"SUBFIELDS", "FUNC_ARGS_NAMES"} ->
         [ff EXCEPT !.names = @ \o SplitNames(value)]
    [] OTHER -> ff   \* the counts are not looked at

CheckCompleteness(ff) == ff.name # ""

(* Why a line cannot be applied; {} if it can.  The element before the      *)
(* first of an empty vector is at an address that is not mapped.            *)
InfoFaults(d, tag) ==
  CASE tag \in BoardTags -> {}
    [] tag \in NameTags ->
         IF d.ffs = <<>> \/ CheckCompleteness(Newest(d.ffs)) THEN {} ELSE {"incomplete"}
    [] OTHER ->
         IF d.ffs = <<>> THEN {"no_element"}
         ELSE IF tag \in (IF Newest(d.ffs).sort = "field" THEN FieldTags ELSE FuncTags)
         THEN {} ELSE {"wrong_attribute"}

(* A field or function starts with its name (BuildDescriptor); every other  *)
(* line is about the newest one.                                            *)
ApplyInfo(d, tag, value) ==
  CASE tag \in BoardTags -> [d EXCEPT !.board[tag] = value]
    [] tag = "FIELD_NAME" -> [d EXCEPT !.ffs = Append(@, FieldDescriptor(value))]
    [] tag = "FUNC_NAME"  -> [d EXCEPT !.ffs = Append(@, FunctionDescriptor(value))]
    [] OTHER -> [d EXCEPT !.ffs[Len(d.ffs)] = Build(@, tag, value)]

(* A field without subfields is one value. *)
Elements(ff) ==
  IF ff.sort = "field" /\ ff.names = <<>> THEN 1 ELSE Len(ff.names)

GetFFSizeOfNames(ff) ==   \* mutation: without subfields it is none
  TypeSize[ff.typecode] * Len(ff.names)

GetFFSize(ff) == TypeSize[ff.typecode] * Elements(ff)

SameLayout(a, b) ==   \* mutation: the accesses are not compared
  /\ a.board = b.board /\ Len(a.ffs) = Len(b.ffs)
  /\ \A i \in DOMAIN a.ffs :
       /\ a.ffs[i].name = b.ffs[i].name /\ a.ffs[i].typecode = b.ffs[i].typecode
       /\ a.ffs[i].names = b.ffs[i].names

(* operator==: every member, the fields in their order. *)
SameDescription(a, b) == a = b

(* Comparing a with b asserts when it meets a function of b before it has   *)
(* found a difference.                                                      *)
Incomparable(a, b) ==
  /\ a.board = b.board /\ Len(a.ffs) = Len(b.ffs)
  /\ \E i \in DOMAIN b.ffs :
       /\ b.ffs[i].sort = "function"
       /\ \A j \in 1 .. (i - 1) : a.ffs[j] = b.ffs[j]
=============================================================================

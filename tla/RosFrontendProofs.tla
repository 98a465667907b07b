------------------------- MODULE RosFrontendProofs -------------------------
(***************************************************************************)
(* The ROS front end.  The server has no other check of a description than *)
(* to compare it with an earlier one of the same name, and makes topics of *)
(* whatever it heard.  What follows from that depends on which of the two  *)
(* descriptions is whole; the proofs keep track of how much of it has been *)
(* said, line by line.                                                     *)
(***************************************************************************)
EXTENDS RosFields, FakeServer, SequenceTheorems, FiniteSetTheorems, TLAPS

FieldFunctions == FieldDescriptors \cup FunctionDescriptors

Name   == [NewDescriptor.board EXCEPT !["BOARD_NAME"] = BoardName]
Titles == [Name EXCEPT !["BOARD_VERSION"] = BoardVersion]

Whole(ffs) == [board |-> Titles, ffs |-> ffs]

(* What is known of a field or function after that many lines of it. *)
Begun(ff, lines) ==
  IF IsField(ff)
  THEN [FieldDescriptor(ff.name) EXCEPT
          !.typecode = IF lines >= 2 THEN ff.typecode ELSE Zero,
          !.access   = IF lines >= 4 THEN ff.access ELSE Zero]
  ELSE [FunctionDescriptor(ff.name) EXCEPT
          !.out_typecode = IF lines >= 2 THEN ff.out_typecode ELSE Zero]

(* What a handler knows that has heard all parts before p, and l lines of p. *)
Knows(d, p, l) ==
  IF p = 0
  THEN d = IF l = 0 THEN NoDescriptor ELSE [board |-> Name, ffs |-> <<>>]
  ELSE /\ d \in BoardDescriptors /\ d.board = Titles
       /\ Len(d.ffs) = IF l = 0 THEN p - 1 ELSE p
       /\ \A i \in 1 .. (p - 1) : d.ffs[i] = firmware[i]
       /\ l > 0 => d.ffs[p] = Begun(firmware[p], l)

(* While no line is lost, the handler knows what the board has said. *)
Faithful == ~gaps.now => Knows(desc, told.part, told.line)

(* The position in the description is one. *)
Positioned ==
  IF told.part <= Len(firmware) THEN told.line < Len(Part(told.part)) ELSE told.line = 0

(* A front end is what Init made of the description in the map. *)
Mapped ==
  IF known = NoDescriptor THEN front = NoFrontEnd
  ELSE front = FrontEnd(known) /\ NewBoardFaults(known) = {}

(* Who is registered has said all and is what the map says. *)
Settled ==
  link # "joining" => told.part > Len(firmware) /\ desc = known /\ known # NoDescriptor

Remembered == known # NoDescriptor /\ ~gaps.first => known = Whole(gaps.origin)

(* Only lost lines make gaps, only a flash another firmware. *)
Accounted ==
  /\ gaps.count = 0 => ~gaps.now /\ ~gaps.first
  /\ flashes = 0 => gaps.origin = firmware

(* Data is exchanged by launched connections only, while the server lives. *)
Connected == Alive /\ exchange.from # "nobody" => link = "up"

FieldsInv ==
  /\ TypeOK /\ Positioned /\ Faithful
  /\ Mapped /\ Settled /\ Remembered /\ Accounted /\ Connected

(* No two fields or functions of a board have one name. *)
NamesDiffer ==
  \A ffs \in Firmwares : \A i, j \in DOMAIN ffs : ffs[i].name = ffs[j].name => i = j

Heard(j) == j < told.part \/ (j = told.part /\ told.line > 0)

Distinct(ffs) == \A i, j \in DOMAIN ffs : ffs[i].name = ffs[j].name => i = j

(* Whatever lines are lost, no name is in a description that was not heard, *)
(* and none twice.                                                          *)
Named(d) ==
  /\ Distinct(d.ffs)
  /\ \A i \in DOMAIN d.ffs : \E j \in DOMAIN firmware :
       Heard(j) /\ d.ffs[i].name = firmware[j].name

NamesOnce ==
  /\ desc # NoDescriptor => Named(desc)
  /\ known # NoDescriptor => Distinct(known.ffs)
-----------------------------------------------------------------------------
(* What a line does.                                                       *)

LEMMA FirmwareFacts ==
  ASSUME NEW ffs \in Firmwares
  PROVE  /\ ffs \in Seq(FieldFunctions) /\ Len(ffs) \in Nat /\ DOMAIN ffs = 1 .. Len(ffs)
         /\ \A i \in 1 .. Len(ffs) : ffs[i] \in FieldFunctions /\ Tellable(ffs[i])
  BY RosFieldsAssumption DEF FieldFunctions

LEMMA SortFacts ==
  ASSUME NEW ff \in FieldFunctions
  PROVE  /\ IsField(ff) <=> ff \in FieldDescriptors
         /\ ~IsField(ff) <=> ff \in FunctionDescriptors
         /\ IsField(ff) <=> ff.sort # "function"
  BY DEF FieldFunctions, FieldDescriptors, FunctionDescriptors, IsField

(* The lines that are said of a field, ... *)
LEMMA FieldLines ==
  ASSUME NEW ff \in FieldFunctions, IsField(ff)
  PROVE  /\ Len(About(ff)) = IF ff.names = <<>> THEN 4 ELSE 5
         /\ About(ff)[1] = [tag |-> "FIELD_NAME", value |-> ff.name]
         /\ About(ff)[2] = [tag |-> "FIELD_TYPE", value |-> ff.typecode]
         /\ About(ff)[3] = [tag |-> "SUBFIELDS_C", value |-> ""]
         /\ About(ff)[4] = [tag |-> "FIELD_ACCESS", value |-> ff.access]
  <1>1. CASE ff.names = <<>>
    BY <1>1 DEF About
  <1>2. CASE ff.names # <<>>
    BY <1>2 DEF About
  <1> QED
    BY <1>1, <1>2

LEMMA SubfieldsLine ==
  ASSUME NEW ff \in FieldFunctions, IsField(ff), ff.names # <<>>
  PROVE  About(ff)[5] = [tag |-> "SUBFIELDS", value |-> ff.names]
  BY DEF About

(* ... and of a function. *)
LEMMA FunctionLines ==
  ASSUME NEW ff \in FieldFunctions, ~IsField(ff)
  PROVE  /\ Len(About(ff)) = 3
         /\ About(ff)[1] = [tag |-> "FUNC_NAME", value |-> ff.name]
         /\ About(ff)[2] = [tag |-> "FUNC_OUT_TYPE", value |-> ff.out_typecode]
         /\ About(ff)[3] = [tag |-> "FUNC_ARGS_TYPE", value |-> ff.typecode]
  BY DEF About

LEMMA IntroductionLines ==
  /\ Len(Introduction) = 2
  /\ Introduction[1] = [tag |-> "BOARD_NAME", value |-> BoardName]
  /\ Introduction[2] = [tag |-> "BOARD_VERSION", value |-> BoardVersion]
  BY DEF Introduction

(* What Build does with each tag of a field ... *)
LEMMA BuildFacts ==
  ASSUME NEW ff, NEW value
  PROVE  /\ Build(ff, "FIELD_TYPE", value) = [ff EXCEPT !.typecode = value]
         /\ Build(ff, "FIELD_ACCESS", value) = [ff EXCEPT !.access = value]
         /\ Build(ff, "SUBFIELDS_C", value) = ff
         /\ Build(ff, "SUBFIELDS", value) = [ff EXCEPT !.names = @ \o SplitNames(value)]
         /\ Build(ff, "FUNC_OUT_TYPE", value) = [ff EXCEPT !.out_typecode = value]
         /\ Build(ff, "FUNC_ARGS_TYPE", value) = [ff EXCEPT !.typecode = value]
  BY DEF Build, Member

Attributes ==
  {"FIELD_TYPE", "FIELD_ACCESS", "SUBFIELDS_C", "SUBFIELDS", "FUNC_OUT_TYPE",
   "FUNC_ARGS_TYPE"}

(* Line by line a field or function becomes what the board said it is. *)
LEMMA BegunField ==
  ASSUME NEW ff \in FieldFunctions, Tellable(ff), IsField(ff)
  PROVE  /\ FieldDescriptor(ff.name) = Begun(ff, 1)
         /\ Build(Begun(ff, 1), "FIELD_TYPE", ff.typecode) = Begun(ff, 2)
         /\ Build(Begun(ff, 2), "SUBFIELDS_C", "") = Begun(ff, 3)
         /\ Build(Begun(ff, 3), "FIELD_ACCESS", ff.access) = Begun(ff, 4)
         /\ ff.names = <<>> => Begun(ff, 4) = ff
         /\ Build(Begun(ff, 4), "SUBFIELDS", ff.names) = ff
  <1>1. ff \in FieldDescriptors
    BY SortFacts
  <1>2. \A m \in 1 .. 4 : Begun(ff, m) =
          [sort |-> "field", name |-> ff.name,
           typecode |-> IF m >= 2 THEN ff.typecode ELSE Zero,
           access |-> IF m >= 4 THEN ff.access ELSE Zero, names |-> <<>>]
    BY DEF Begun, FieldDescriptor
  <1>3. ff = [sort |-> "field", name |-> ff.name, typecode |-> ff.typecode,
              access |-> ff.access, names |-> ff.names]
    BY <1>1 DEF FieldDescriptors
  <1>4. <<>> \o SplitNames(ff.names) = ff.names
    BY <1>1, ConcatEmptySeq DEF FieldDescriptors, Tellable
  <1>5. FieldDescriptor(ff.name) = Begun(ff, 1)
    BY <1>2 DEF FieldDescriptor
  <1>6. Build(Begun(ff, 1), "FIELD_TYPE", ff.typecode) = Begun(ff, 2)
    BY <1>2, BuildFacts
  <1>7. Build(Begun(ff, 2), "SUBFIELDS_C", "") = Begun(ff, 3)
    <2>1. Build(Begun(ff, 2), "SUBFIELDS_C", "") = Begun(ff, 2)
      BY BuildFacts
    <2>2. Begun(ff, 2) = Begun(ff, 3)
      BY <1>2
    <2> QED
      BY <2>1, <2>2
  <1>8. Build(Begun(ff, 3), "FIELD_ACCESS", ff.access) = Begun(ff, 4)
    BY <1>2, BuildFacts
  <1>9. ff.names = <<>> => Begun(ff, 4) = ff
    BY <1>2, <1>3
  <1>10. Build(Begun(ff, 4), "SUBFIELDS", ff.names) = ff
    <2>1. Begun(ff, 4) = [sort |-> "field", name |-> ff.name, typecode |-> ff.typecode,
                          access |-> ff.access, names |-> <<>>]
      BY <1>2
    <2>2. Build(Begun(ff, 4), "SUBFIELDS", ff.names) =
            [Begun(ff, 4) EXCEPT !.names = Begun(ff, 4).names \o SplitNames(ff.names)]
      BY BuildFacts
    <2>3. Begun(ff, 4).names \o SplitNames(ff.names) = ff.names
      <3>1. Begun(ff, 4).names = <<>>
        BY <2>1
      <3> QED
        BY <1>4, <3>1, Zenon
    <2>4. Build(Begun(ff, 4), "SUBFIELDS", ff.names) = [Begun(ff, 4) EXCEPT !.names = ff.names]
      BY <2>2, <2>3, Zenon
    <2>5. [Begun(ff, 4) EXCEPT !.names = ff.names] =
            [sort |-> "field", name |-> ff.name, typecode |-> ff.typecode,
             access |-> ff.access, names |-> ff.names]
      BY <2>1
    <2> QED
      BY <1>3, <2>4, <2>5, Zenon
  <1> QED
    BY <1>5, <1>6, <1>7, <1>8, <1>9, <1>10

LEMMA BegunFunction ==
  ASSUME NEW ff \in FieldFunctions, Tellable(ff), ~IsField(ff)
  PROVE  /\ FunctionDescriptor(ff.name) = Begun(ff, 1)
         /\ Build(Begun(ff, 1), "FUNC_OUT_TYPE", ff.out_typecode) = Begun(ff, 2)
         /\ Build(Begun(ff, 2), "FUNC_ARGS_TYPE", ff.typecode) = ff
  <1>1. ff \in FunctionDescriptors /\ ff.names = <<>>
    BY SortFacts DEF Tellable
  <1>2. \A m \in 1 .. 4 : Begun(ff, m) =
          [sort |-> "function", name |-> ff.name, typecode |-> Zero,
           out_typecode |-> IF m >= 2 THEN ff.out_typecode ELSE Zero, names |-> <<>>]
    BY DEF Begun, FunctionDescriptor
  <1>3. ff = [sort |-> "function", name |-> ff.name, typecode |-> ff.typecode,
              out_typecode |-> ff.out_typecode, names |-> <<>>]
    BY <1>1 DEF FunctionDescriptors
  <1>4. FunctionDescriptor(ff.name) = Begun(ff, 1)
    BY <1>2 DEF FunctionDescriptor
  <1>5. Build(Begun(ff, 1), "FUNC_OUT_TYPE", ff.out_typecode) = Begun(ff, 2)
    BY <1>2, BuildFacts
  <1>6. Build(Begun(ff, 2), "FUNC_ARGS_TYPE", ff.typecode) = ff
    BY <1>2, <1>3, BuildFacts
  <1> QED
    BY <1>4, <1>5, <1>6

(* The kinds of values of the attributes. *)
Fits(tag, value) ==
  /\ tag \in {"FIELD_TYPE", "FUNC_OUT_TYPE", "FUNC_ARGS_TYPE"} => value \in TypeCodes
  /\ tag = "FIELD_ACCESS" => value \in Accesses
  /\ tag = "SUBFIELDS" => value \in Seq(STRING)

(* Whatever a line is applied to, types and names stay what they are. *)
LEMMA BuildTyped ==
  ASSUME NEW ff \in FieldFunctions, NEW tag \in Attributes, NEW value, Fits(tag, value),
         tag \in (IF ff.sort = "field" THEN FieldTags ELSE FuncTags)
  PROVE  Build(ff, tag, value) \in FieldFunctions /\ Build(ff, tag, value).name = ff.name
  <1>1. CASE IsField(ff)
    <2>1. ff \in FieldDescriptors /\ ff.sort = "field"
      BY <1>1, SortFacts DEF IsField
    <2>2. tag \in {"FIELD_TYPE", "FIELD_ACCESS", "SUBFIELDS_C", "SUBFIELDS"}
      BY <2>1 DEF FieldTags, Attributes
    <2>3. CASE tag = "SUBFIELDS"
      <3>1. SplitNames(value) \in Seq(STRING)
        <4>1. CASE value # <<>> /\ Newest(value) = ""
          <5>1. SubSeq(value, 1, Len(value) - 1) \in Seq(STRING)
            BY <2>3 DEF Fits
          <5> QED
            BY <4>1, <5>1 DEF SplitNames
        <4>2. CASE ~(value # <<>> /\ Newest(value) = "")
          BY <2>3, <4>2 DEF SplitNames, Fits
        <4> QED
          BY <4>1, <4>2
      <3>2. ff.names \o SplitNames(value) \in Seq(STRING)
        BY <2>1, <3>1, ConcatProperties DEF FieldDescriptors
      <3>3. Build(ff, tag, value) = [ff EXCEPT !.names = ff.names \o SplitNames(value)]
        BY <2>3, BuildFacts
      <3>4. [ff EXCEPT !.names = ff.names \o SplitNames(value)] \in FieldDescriptors
        BY <2>1, <3>2 DEF FieldDescriptors
      <3> QED
        BY <2>1, <3>3, <3>4 DEF FieldDescriptors, FieldFunctions
    <2> QED
      BY <2>1, <2>2, <2>3, BuildFacts DEF FieldDescriptors, FieldFunctions, Fits
  <1>2. CASE ~IsField(ff)
    <2>1. ff \in FunctionDescriptors /\ ff.sort # "field"
      BY <1>2, SortFacts DEF IsField
    <2>2. tag \in {"FUNC_OUT_TYPE", "FUNC_ARGS_TYPE"}
      BY <2>1 DEF FuncTags, Attributes
    <2> QED
      BY <2>1, <2>2, BuildFacts DEF FunctionDescriptors, FieldFunctions, Fits
  <1> QED
    BY <1>1, <1>2

-----------------------------------------------------------------------------
(* Where the board is in its description.                                  *)

At(p, l) == told = [part |-> p, line |-> l]

(* The line that comes next is this one, and is followed by that position. *)
Says(tag, value, p, l) ==
  Line = [tag |-> tag, value |-> value] /\ ToldMore = [part |-> p, line |-> l]

LEMMA PositionFacts ==
  ASSUME TypeOK
  PROVE  /\ Len(firmware) \in Nat /\ told.part \in 0 .. Len(firmware) + 1
         /\ told.line \in 0 .. 4 /\ told = [part |-> told.part, line |-> told.line]
  <1>1. Len(firmware) \in Nat
    BY FirmwareFacts DEF TypeOK
  <1>2. told \in [part : 0 .. Len(firmware) + 1, line : 0 .. 4]
    BY DEF TypeOK
  <1> QED
    BY <1>1, <1>2

(* What comes next. *)
LEMMA NextLine ==
  ASSUME TypeOK, Positioned, Telling, Len(Part(told.part)) \in Nat
  PROVE  /\ told.line < Len(Part(told.part)) /\ Line = Part(told.part)[told.line + 1]
         /\ told.line + 1 < Len(Part(told.part)) =>
              ToldMore = [part |-> told.part, line |-> told.line + 1]
         /\ told.line + 1 = Len(Part(told.part)) =>
              ToldMore = [part |-> told.part + 1, line |-> 0]
  <1>1. told.line < Len(Part(told.part)) /\ Line = Part(told.part)[told.line + 1]
    BY DEF Positioned, Telling, Line
  <1>2. [told EXCEPT !.line = @ + 1] = [part |-> told.part, line |-> told.line + 1]
    BY PositionFacts
  <1> QED
    BY <1>1, <1>2, PositionFacts DEF ToldMore

LEMMA IntroductionSaid ==
  ASSUME TypeOK, Positioned, Telling, told.part = 0
  PROVE  \/ At(0, 0) /\ Says("BOARD_NAME", BoardName, 0, 1)
         \/ At(0, 1) /\ Says("BOARD_VERSION", BoardVersion, 1, 0)
  <1>1. Part(told.part) = Introduction
    BY DEF Part
  <1>2. told.line \in 0 .. 4 /\ told = [part |-> 0, line |-> told.line]
    BY PositionFacts
  <1>3. /\ told.line < 2 /\ Line = Introduction[told.line + 1]
        /\ told.line + 1 < 2 => ToldMore = [part |-> 0, line |-> told.line + 1]
        /\ told.line + 1 = 2 => ToldMore = [part |-> 0 + 1, line |-> 0]
    <2>1. Len(Introduction) = 2
      BY IntroductionLines
    <2>2. PICK n : n = 2
      OBVIOUS
    <2>3. Len(Part(told.part)) = n /\ n \in Nat
      BY <1>1, <2>1, <2>2
    <2>4. /\ told.line < n /\ Line = Part(told.part)[told.line + 1]
          /\ told.line + 1 < n => ToldMore = [part |-> told.part, line |-> told.line + 1]
          /\ told.line + 1 = n => ToldMore = [part |-> told.part + 1, line |-> 0]
      BY <2>3, NextLine
    <2> QED
      BY <1>1, <2>2, <2>4
  <1>4. told.line \in {0, 1}
    BY <1>2, <1>3
  <1>5. CASE told.line = 0
    <2>1. Line = Introduction[1] /\ ToldMore = [part |-> 0, line |-> 1]
      BY <1>3, <1>5
    <2> QED
      BY <1>2, <1>5, <2>1, IntroductionLines, Zenon DEF Says, At
  <1>6. CASE told.line = 1
    <2>1. Line = Introduction[2] /\ ToldMore = [part |-> 1, line |-> 0]
      BY <1>3, <1>6
    <2> QED
      BY <1>2, <1>6, <2>1, IntroductionLines, Zenon DEF Says, At
  <1> QED
    BY <1>4, <1>5, <1>6

LEMMA FieldSaid ==
  ASSUME TypeOK, Positioned, Telling, NEW p, p = told.part, p # 0,
         NEW ff, ff = firmware[p], IsField(ff)
  PROVE  \/ At(p, 0) /\ Says("FIELD_NAME", ff.name, p, 1)
         \/ At(p, 1) /\ Says("FIELD_TYPE", ff.typecode, p, 2)
         \/ At(p, 2) /\ Says("SUBFIELDS_C", "", p, 3)
         \/ At(p, 3) /\ ff.names = <<>> /\ Says("FIELD_ACCESS", ff.access, p + 1, 0)
         \/ At(p, 3) /\ ff.names # <<>> /\ Says("FIELD_ACCESS", ff.access, p, 4)
         \/ At(p, 4) /\ ff.names # <<>> /\ Says("SUBFIELDS", ff.names, p + 1, 0)
  <1>1. Part(p) = About(ff)
    BY DEF Part
  <1>2. p \in 1 .. Len(firmware) /\ ff \in FieldFunctions
    BY FirmwareFacts, PositionFacts DEF TypeOK, Telling
  <1>3. told.line \in 0 .. 4 /\ told = [part |-> p, line |-> told.line]
    BY PositionFacts
  <1>4. /\ About(ff)[1] = [tag |-> "FIELD_NAME", value |-> ff.name]
        /\ About(ff)[2] = [tag |-> "FIELD_TYPE", value |-> ff.typecode]
        /\ About(ff)[3] = [tag |-> "SUBFIELDS_C", value |-> ""]
        /\ About(ff)[4] = [tag |-> "FIELD_ACCESS", value |-> ff.access]
    BY <1>2, FieldLines
  <1>5. PICK n \in {4, 5} : n = IF ff.names = <<>> THEN 4 ELSE 5
    OBVIOUS
  <1>6. Len(About(ff)) = n
    BY <1>2, <1>5, FieldLines
  <1>7. /\ told.line < n /\ Line = About(ff)[told.line + 1]
        /\ told.line + 1 < n => ToldMore = [part |-> p, line |-> told.line + 1]
        /\ told.line + 1 = n => ToldMore = [part |-> p + 1, line |-> 0]
    BY <1>1, <1>6, NextLine
  <1>8. told.line \in {0, 1, 2, 3} \/ (told.line = 4 /\ n = 5)
    BY <1>3, <1>7
  <1>9. CASE told.line = 0
    <2>1. Line = About(ff)[1] /\ ToldMore = [part |-> p, line |-> 1]
      BY <1>7, <1>9
    <2> QED
      BY <1>3, <1>4, <1>9, <2>1, Zenon DEF Says, At
  <1>10. CASE told.line = 1
    <2>1. Line = About(ff)[2] /\ ToldMore = [part |-> p, line |-> 2]
      BY <1>7, <1>10
    <2> QED
      BY <1>3, <1>4, <1>10, <2>1, Zenon DEF Says, At
  <1>11. CASE told.line = 2
    <2>1. Line = About(ff)[3] /\ ToldMore = [part |-> p, line |-> 3]
      BY <1>7, <1>11
    <2> QED
      BY <1>3, <1>4, <1>11, <2>1, Zenon DEF Says, At
  <1>12. CASE told.line = 3
    <2>1. Line = About(ff)[4]
      BY <1>7, <1>12
    <2>2. CASE n = 4
      <3>1. ToldMore = [part |-> p + 1, line |-> 0] /\ ff.names = <<>>
        BY <1>5, <1>7, <1>12, <2>2
      <3> QED
        BY <1>3, <1>4, <1>12, <2>1, <3>1, Zenon DEF Says, At
    <2>3. CASE n = 5
      <3>1. ToldMore = [part |-> p, line |-> 4] /\ ff.names # <<>>
        BY <1>5, <1>7, <1>12, <2>3
      <3> QED
        BY <1>3, <1>4, <1>12, <2>1, <3>1, Zenon DEF Says, At
    <2> QED
      BY <2>2, <2>3
  <1>13. CASE told.line = 4 /\ n = 5
    <2>1. Line = About(ff)[5] /\ ToldMore = [part |-> p + 1, line |-> 0] /\ ff.names # <<>>
      BY <1>5, <1>7, <1>13
    <2>2. About(ff)[5] = [tag |-> "SUBFIELDS", value |-> ff.names]
      BY <1>2, <2>1, SubfieldsLine
    <2> QED
      BY <1>3, <1>13, <2>1, <2>2, Zenon DEF Says, At
  <1> QED
    BY <1>8, <1>9, <1>10, <1>11, <1>12, <1>13

LEMMA FunctionSaid ==
  ASSUME TypeOK, Positioned, Telling, NEW p, p = told.part, p # 0,
         NEW ff, ff = firmware[p], ~IsField(ff)
  PROVE  \/ At(p, 0) /\ Says("FUNC_NAME", ff.name, p, 1)
         \/ At(p, 1) /\ Says("FUNC_OUT_TYPE", ff.out_typecode, p, 2)
         \/ At(p, 2) /\ Says("FUNC_ARGS_TYPE", ff.typecode, p + 1, 0)
  <1>1. Part(p) = About(ff)
    BY DEF Part
  <1>2. p \in 1 .. Len(firmware) /\ ff \in FieldFunctions
    BY FirmwareFacts, PositionFacts DEF TypeOK, Telling
  <1>3. told.line \in 0 .. 4 /\ told = [part |-> p, line |-> told.line]
    BY PositionFacts
  <1>4. /\ told.line < 3 /\ Line = About(ff)[told.line + 1]
        /\ told.line + 1 < 3 => ToldMore = [part |-> p, line |-> told.line + 1]
        /\ told.line + 1 = 3 => ToldMore = [part |-> p + 1, line |-> 0]
    <2>1. Len(About(ff)) = 3
      BY <1>2, FunctionLines
    <2> QED
      BY <1>1, <2>1, NextLine
  <1> QED
    BY <1>2, <1>3, <1>4, FunctionLines DEF Says, At

-----------------------------------------------------------------------------
(* What a handler makes of it.                                             *)

LEMMA NoDescriptorApart ==
  ASSUME NEW d \in BoardDescriptors
  PROVE  d # NoDescriptor
  <1>1. "ffs" \in DOMAIN d
    BY DEF BoardDescriptors
  <1>2. "ffs" \notin DOMAIN NoDescriptor
    BY DEF NoDescriptor
  <1> QED
    BY <1>1, <1>2, Zenon

LEMMA NewDescriptorTyped == NewDescriptor \in BoardDescriptors /\ NewDescriptor.ffs = <<>>
  <1>1. <<>> \in Seq(FieldDescriptors \cup FunctionDescriptors)
    OBVIOUS
  <1>2. [tag \in BoardTags |-> ""] \in [BoardTags -> STRING \cup {""}]
    OBVIOUS
  <1> QED
    BY <1>1, <1>2 DEF NewDescriptor, BoardDescriptors

LEMMA ApplyTitle ==
  ASSUME NEW d \in BoardDescriptors, NEW tag \in BoardTags, NEW value
  PROVE  ApplyInfo(d, tag, value) = [board |-> [d.board EXCEPT ![tag] = value], ffs |-> d.ffs]
  <1>1. d = [board |-> d.board, ffs |-> d.ffs]
    BY DEF BoardDescriptors
  <1>2. ApplyInfo(d, tag, value) = [d EXCEPT !.board = [d.board EXCEPT ![tag] = value]]
    BY DEF ApplyInfo, BoardTags
  <1> QED
    BY <1>1, <1>2

LEMMA ApplyName ==
  ASSUME NEW d \in BoardDescriptors, NEW value
  PROVE  /\ ApplyInfo(d, "FIELD_NAME", value) =
              [board |-> d.board, ffs |-> Append(d.ffs, FieldDescriptor(value))]
         /\ ApplyInfo(d, "FUNC_NAME", value) =
              [board |-> d.board, ffs |-> Append(d.ffs, FunctionDescriptor(value))]
  <1>1. d = [board |-> d.board, ffs |-> d.ffs]
    BY DEF BoardDescriptors
  <1>2. ApplyInfo(d, "FIELD_NAME", value) =
          [d EXCEPT !.ffs = Append(d.ffs, FieldDescriptor(value))]
    BY DEF ApplyInfo, BoardTags
  <1>3. ApplyInfo(d, "FUNC_NAME", value) =
          [d EXCEPT !.ffs = Append(d.ffs, FunctionDescriptor(value))]
    BY DEF ApplyInfo, BoardTags
  <1> QED
    BY <1>1, <1>2, <1>3

LEMMA ApplyAttribute ==
  ASSUME NEW d \in BoardDescriptors, NEW tag \in Attributes, NEW value
  PROVE  ApplyInfo(d, tag, value) =
           [board |-> d.board,
            ffs |-> [d.ffs EXCEPT ![Len(d.ffs)] = Build(d.ffs[Len(d.ffs)], tag, value)]]
  <1>1. d = [board |-> d.board, ffs |-> d.ffs]
    BY DEF BoardDescriptors
  <1>2. ApplyInfo(d, tag, value) =
          [d EXCEPT !.ffs = [d.ffs EXCEPT ![Len(d.ffs)] =
                               Build(d.ffs[Len(d.ffs)], tag, value)]]
    BY DEF ApplyInfo, BoardTags, Attributes
  <1> QED
    BY <1>1, <1>2

(* The lines a board may send: a tag with its kind of value. *)
Sayable(tag, value) ==
  \/ tag \in {"BOARD_NAME", "BOARD_VERSION"} \cup NameTags /\ value \in STRING
  \/ tag \in Attributes /\ Fits(tag, value)

LEMMA NewElements ==
  ASSUME NEW name \in STRING
  PROVE  /\ FieldDescriptor(name) \in FieldFunctions /\ FieldDescriptor(name).name = name
         /\ FunctionDescriptor(name) \in FieldFunctions /\ FunctionDescriptor(name).name = name
  <1>1. <<>> \in Seq(STRING)
    OBVIOUS
  <1>2. FieldDescriptor(name) \in FieldDescriptors /\ FieldDescriptor(name).name = name
    BY <1>1 DEF FieldDescriptor, FieldDescriptors, TypeCodes, Accesses
  <1>3. FunctionDescriptor(name) \in FunctionDescriptors /\ FunctionDescriptor(name).name = name
    BY <1>1 DEF FunctionDescriptor, FunctionDescriptors, TypeCodes
  <1> QED
    BY <1>2, <1>3, Zenon DEF FieldFunctions

LEMMA TagFacts ==
  /\ {"BOARD_NAME", "BOARD_VERSION"} \subseteq BoardTags
  /\ \A tag \in NameTags : tag \notin BoardTags /\ tag \notin Attributes
  /\ \A tag \in Attributes : tag \notin BoardTags /\ tag \notin NameTags
  BY DEF BoardTags, NameTags, Attributes

(* Whatever is said, the description stays one. *)
LEMMA ApplyTyped ==
  ASSUME NEW d \in BoardDescriptors, NEW tag, NEW value,
         Sayable(tag, value), InfoFaults(d, tag) = {}
  PROVE  ApplyInfo(d, tag, value) \in BoardDescriptors
  <1>1. d.board \in [BoardTags -> STRING \cup {""}] /\ d.ffs \in Seq(FieldFunctions)
    BY DEF BoardDescriptors, FieldFunctions
  <1>2. CASE tag \in {"BOARD_NAME", "BOARD_VERSION"}
    <2>1. value \in STRING
      BY <1>2 DEF Sayable, Attributes, NameTags
    <2>2. [d.board EXCEPT ![tag] = value] \in [BoardTags -> STRING \cup {""}]
      BY <1>1, <1>2, <2>1 DEF BoardTags
    <2>3. ApplyInfo(d, tag, value) = [board |-> [d.board EXCEPT ![tag] = value], ffs |-> d.ffs]
      BY <1>2, ApplyTitle, TagFacts
    <2>4. \A b \in [BoardTags -> STRING \cup {""}] :
            [board |-> b, ffs |-> d.ffs] \in BoardDescriptors
      BY <1>1 DEF BoardDescriptors, FieldFunctions
    <2> QED
      BY <2>2, <2>3, <2>4, Zenon
  <1>3. CASE tag \in NameTags
    <2>1. value \in STRING
      BY <1>3, TagFacts DEF Sayable, Attributes, NameTags
    <2>2. \A e \in FieldFunctions : Append(d.ffs, e) \in Seq(FieldFunctions)
      BY <1>1, AppendProperties
    <2>3. \A s \in Seq(FieldFunctions) : [board |-> d.board, ffs |-> s] \in BoardDescriptors
      BY <1>1 DEF BoardDescriptors, FieldFunctions
    <2>4. CASE tag = "FIELD_NAME"
      <3>1. ApplyInfo(d, tag, value) =
              [board |-> d.board, ffs |-> Append(d.ffs, FieldDescriptor(value))]
        BY <2>4, ApplyName
      <3>2. Append(d.ffs, FieldDescriptor(value)) \in Seq(FieldFunctions)
        BY <2>1, <2>2, NewElements
      <3> QED
        BY <2>3, <3>1, <3>2
    <2>5. CASE tag = "FUNC_NAME"
      <3>1. ApplyInfo(d, tag, value) =
              [board |-> d.board, ffs |-> Append(d.ffs, FunctionDescriptor(value))]
        BY <2>5, ApplyName
      <3>2. Append(d.ffs, FunctionDescriptor(value)) \in Seq(FieldFunctions)
        BY <2>1, <2>2, NewElements
      <3> QED
        BY <2>3, <3>1, <3>2
    <2> QED
      BY <1>3, <2>4, <2>5 DEF NameTags
  <1>4. CASE tag \in Attributes
    <2>1. Fits(tag, value)
      BY <1>4 DEF Sayable, Attributes, NameTags
    <2>3. /\ d.ffs # <<>>
          /\ tag \in IF Newest(d.ffs).sort = "field" THEN FieldTags ELSE FuncTags
      BY <1>4, TagFacts DEF InfoFaults
    <2>4. PICK n : n = Len(d.ffs)
      OBVIOUS
    <2>5. n \in 1 .. Len(d.ffs) /\ d.ffs[n] \in FieldFunctions /\ Newest(d.ffs) = d.ffs[n]
      <3>1. Len(d.ffs) \in Nat /\ Len(d.ffs) # 0
        BY <1>1, <2>3, EmptySeq
      <3>2. n \in 1 .. Len(d.ffs)
        BY <2>4, <3>1
      <3> QED
        BY <1>1, <2>4, <3>2, ElementOfSeq DEF Newest
    <2>6. Build(d.ffs[n], tag, value) \in FieldFunctions
      BY <1>4, <2>1, <2>3, <2>5, BuildTyped
    <2>7. [d.ffs EXCEPT ![n] = Build(d.ffs[n], tag, value)] \in Seq(FieldFunctions)
      BY <1>1, <2>5, <2>6, ExceptSeq
    <2>8. ApplyInfo(d, tag, value) =
            [board |-> d.board, ffs |-> [d.ffs EXCEPT ![n] = Build(d.ffs[n], tag, value)]]
      BY <1>4, <2>4, ApplyAttribute
    <2>9. \A s \in Seq(FieldFunctions) : [board |-> d.board, ffs |-> s] \in BoardDescriptors
      BY <1>1 DEF BoardDescriptors, FieldFunctions
    <2> QED
      BY <2>7, <2>8, <2>9, Zenon
  <1> QED
    BY <1>2, <1>3, <1>4 DEF Sayable, Attributes

LEMMA PartLength ==
  ASSUME TypeOK, NEW n \in 0 .. Len(firmware)
  PROVE  Len(Part(n)) \in 2 .. 5
  <1>1. CASE n = 0
    BY <1>1, IntroductionLines DEF Part
  <1>2. CASE n # 0
    <2>1. n \in 1 .. Len(firmware) /\ firmware[n] \in FieldFunctions /\ Part(n) = About(firmware[n])
      BY <1>2, FirmwareFacts DEF TypeOK, Part
    <2>2. PICK ff \in FieldFunctions : ff = firmware[n]
      BY <2>1
    <2>3. Len(About(ff)) \in 2 .. 5
      <3>1. IsField(ff) => Len(About(ff)) = IF ff.names = <<>> THEN 4 ELSE 5
        BY FieldLines, Zenon
      <3>2. ~IsField(ff) => Len(About(ff)) = 3
        BY FunctionLines, Zenon
      <3> QED
        BY <3>1, <3>2
    <2> QED
      BY <2>1, <2>2, <2>3, Zenon
  <1> QED
    BY <1>1, <1>2

(* The board goes on line by line to the end. *)
LEMMA Advances ==
  ASSUME TypeOK, Positioned, Telling, told' = ToldMore, firmware' = firmware
  PROVE  told' \in [part : 0 .. Len(firmware) + 1, line : 0 .. 4] /\ Positioned'
  <1>1. /\ Len(firmware) \in Nat /\ told.part \in 0 .. Len(firmware) /\ told.line \in 0 .. 4
    BY PositionFacts DEF Telling
  <1>2. PICK n \in 2 .. 5 : n = Len(Part(told.part))
    BY <1>1, PartLength
  <1>3. /\ told.line < n
        /\ told.line + 1 < n => told' = [part |-> told.part, line |-> told.line + 1]
        /\ told.line + 1 = n => told' = [part |-> told.part + 1, line |-> 0]
    BY <1>2, NextLine
  <1>4. CASE told.line + 1 < n
    <2>1. told'.part = told.part /\ told'.line = told.line + 1
      BY <1>3, <1>4
    <2>2. told.line + 1 < Len(Part(told.part)) => Positioned'
      BY <1>1, <2>1 DEF Positioned, Part
    <2>3. told.part \in 0 .. Len(firmware) + 1 /\ told.line + 1 \in 0 .. 4
      <3>1. PICK l \in 0 .. 4, p \in Nat, len \in Nat :
              l = told.line /\ p = told.part /\ len = Len(firmware) /\ p <= len
        BY <1>1
      <3>2. l + 1 < n
        BY <1>4, <3>1, Zenon
      <3>3. p \in 0 .. len + 1 /\ l + 1 \in 0 .. 4
        BY <3>1, <3>2
      <3> QED
        BY <3>1, <3>3, Zenon
    <2>4. told' \in [part : 0 .. Len(firmware) + 1, line : 0 .. 4]
      BY <1>3, <1>4, <2>3
    <2> QED
      BY <1>2, <1>4, <2>2, <2>4
  <1>5. CASE told.line + 1 = n
    <2>1. told'.part = told.part + 1 /\ told'.line = 0
      BY <1>3, <1>5
    <2>2. PICK q \in Nat : q = told.part + 1
      BY <1>1
    <2>3. q <= Len(firmware) => Len(Part(q)) \in 2 .. 5
      BY <1>1, PartLength
    <2>4. q <= Len(firmware) => 0 < Len(Part(q))
      BY <2>3
    <2>5. Positioned'
      BY <2>1, <2>2, <2>4, Zenon DEF Positioned, Part
    <2>6. told.part + 1 \in 0 .. Len(firmware) + 1 /\ 0 \in 0 .. 4
      BY <1>1
    <2>7. told' \in [part : 0 .. Len(firmware) + 1, line : 0 .. 4]
      BY <1>3, <1>5, <2>6
    <2> QED
      BY <2>5, <2>7
  <1> QED
    BY <1>1, <1>3, <1>4, <1>5

LEMMA LineSayable ==
  ASSUME TypeOK, Positioned, Telling
  PROVE  Sayable(Line.tag, Line.value)
  <1>1. CASE told.part = 0
    <2>1. BoardName \in STRING /\ BoardVersion \in STRING
      BY RosFieldsAssumption
    <2>2. Sayable("BOARD_NAME", BoardName) /\ Sayable("BOARD_VERSION", BoardVersion)
      BY <2>1 DEF Sayable
    <2> QED
      BY <1>1, <2>2, IntroductionSaid DEF Says
  <1>2. CASE told.part # 0
    <2>1. PICK p : p = told.part
      OBVIOUS
    <2>2. p \in 1 .. Len(firmware) /\ firmware[p] \in FieldFunctions
      BY <1>2, <2>1, FirmwareFacts, PositionFacts DEF TypeOK, Telling
    <2>3. PICK ff \in FieldFunctions : ff = firmware[p]
      BY <2>2
    <2>4. CASE IsField(ff)
      <3>1. ff \in FieldDescriptors
        BY <2>4, SortFacts
      <3>2. /\ Sayable("FIELD_NAME", ff.name) /\ Sayable("FIELD_TYPE", ff.typecode)
            /\ Sayable("FIELD_ACCESS", ff.access)
        BY <3>1 DEF Sayable, Fits, FieldDescriptors, Attributes, NameTags
      <3>3. Sayable("SUBFIELDS_C", "")
        BY DEF Sayable, Fits, Attributes
      <3>4. Sayable("SUBFIELDS", ff.names)
        BY <3>1 DEF Sayable, Fits, FieldDescriptors, Attributes
      <3>5. \A tag, value, q, l : Says(tag, value, q, l) =>
              Line.tag = tag /\ Line.value = value
        BY DEF Says
      <3> QED
        BY <1>2, <2>1, <2>3, <2>4, <3>2, <3>3, <3>4, <3>5, FieldSaid, ZenonT(60)
    <2>5. CASE ~IsField(ff)
      <3>1. ff \in FunctionDescriptors
        BY <2>5, SortFacts
      <3>2. /\ Sayable("FUNC_NAME", ff.name) /\ Sayable("FUNC_OUT_TYPE", ff.out_typecode)
            /\ Sayable("FUNC_ARGS_TYPE", ff.typecode)
        BY <3>1 DEF Sayable, Fits, FunctionDescriptors, Attributes, NameTags
      <3>5. \A tag, value, q, l : Says(tag, value, q, l) =>
              Line.tag = tag /\ Line.value = value
        BY DEF Says
      <3> QED
        BY <1>2, <2>1, <2>3, <2>5, <3>2, <3>5, FunctionSaid, Zenon
    <2> QED
      BY <2>4, <2>5
  <1> QED
    BY <1>1, <1>2

LEMMA BoardLineFaults ==
  ASSUME NEW d, NEW tag \in BoardTags
  PROVE  InfoFaults(d, tag) = {}
  BY TagFacts, Zenon DEF InfoFaults

(* What the handler makes of the line. *)
Applied ==
  ApplyInfo(IF desc = NoDescriptor THEN NewDescriptor ELSE desc, Line.tag, Line.value)

LEMMA AppliedTyped ==
  ASSUME TypeOK, Positioned, Telling, DescriptionFaults = {}
  PROVE  Applied \in BoardDescriptors
  <1>1. Sayable(Line.tag, Line.value)
    BY LineSayable
  <1>2. CASE desc = NoDescriptor
    <2>1. Line.tag = "BOARD_NAME"
      BY <1>2 DEF DescriptionFaults
    <2>2. InfoFaults(NewDescriptor, "BOARD_NAME") = {}
      BY BoardLineFaults DEF BoardTags
    <2>3. Applied = ApplyInfo(NewDescriptor, Line.tag, Line.value)
      BY <1>2 DEF Applied
    <2> QED
      BY <1>1, <2>1, <2>2, <2>3, NewDescriptorTyped, ApplyTyped
  <1>3. CASE desc # NoDescriptor
    <2>1. desc \in BoardDescriptors
      BY <1>3 DEF TypeOK
    <2>2. InfoFaults(desc, Line.tag) = {}
      BY <1>3 DEF DescriptionFaults
    <2>3. Applied = ApplyInfo(desc, Line.tag, Line.value)
      BY <1>3 DEF Applied
    <2> QED
      BY <1>1, <2>1, <2>2, <2>3, ApplyTyped
  <1> QED
    BY <1>2, <1>3

LEMMA ElementsSeq ==
  ASSUME NEW d \in BoardDescriptors
  PROVE  d.ffs \in Seq(FieldFunctions) /\ Len(d.ffs) \in Nat
  <1>1. d.ffs \in Seq(FieldFunctions)
    BY DEF BoardDescriptors, FieldFunctions
  <1> QED
    BY <1>1, LenProperties

(* A name begins the next part, ... *)
LEMMA HearName ==
  ASSUME NEW d, NEW d1 \in BoardDescriptors, NEW p \in Nat \ {0}, NEW e,
         Knows(d, p, 0), e = Begun(firmware[p], 1),
         d1 = [board |-> d.board, ffs |-> Append(d.ffs, e)]
  PROVE  Knows(d1, p, 1)
  <1>1. /\ d \in BoardDescriptors /\ d.board = Titles /\ Len(d.ffs) = p - 1
        /\ \A i \in 1 .. (p - 1) : d.ffs[i] = firmware[i]
    BY DEF Knows
  <1>2. PICK s \in Seq(FieldFunctions) : s = d.ffs
    BY <1>1, ElementsSeq
  <1>3. d1.board = Titles /\ d1.ffs = Append(s, e)
    BY <1>1, <1>2
  <1>4. PICK t : t = Append(s, e)
    OBVIOUS
  <1>5. Len(s) = p - 1 /\ \A i \in 1 .. (p - 1) : s[i] = firmware[i]
    BY <1>1, <1>2, Zenon
  <1>6. e \in FieldFunctions
    <2>1. t \in Seq(FieldFunctions) /\ Len(t) \in Nat
      BY <1>3, <1>4, ElementsSeq
    <2>2. Len(t) = Len(s) + 1 /\ t[Len(s) + 1] = e
      BY <1>2, <1>4
    <2> QED
      BY <1>2, <2>1, <2>2
  <1>7. Len(t) = p /\ t[p] = e /\ \A i \in 1 .. (p - 1) : t[i] = firmware[i]
    BY <1>2, <1>4, <1>5, <1>6, AppendProperties
  <1> QED
    BY <1>3, <1>4, <1>7 DEF Knows

(* ... an attribute goes on with it, ... *)
LEMMA HearMore ==
  ASSUME NEW d, NEW d1 \in BoardDescriptors, NEW p \in Nat \ {0}, NEW l \in 1 .. 4,
         NEW m \in 1 .. 4, NEW e, Knows(d, p, l), e = Begun(firmware[p], m),
         d1 = [board |-> d.board, ffs |-> [d.ffs EXCEPT ![Len(d.ffs)] = e]]
  PROVE  Knows(d1, p, m)
  <1>1. /\ d \in BoardDescriptors /\ d.board = Titles /\ Len(d.ffs) = p
        /\ \A i \in 1 .. (p - 1) : d.ffs[i] = firmware[i]
    BY DEF Knows
  <1>2. PICK s \in Seq(FieldFunctions) : s = d.ffs
    BY <1>1, ElementsSeq
  <1>3. PICK t : t = [s EXCEPT ![p] = e]
    OBVIOUS
  <1>4. d1.board = Titles /\ d1.ffs = t
    BY <1>1, <1>2, <1>3
  <1>5. Len(s) = p /\ \A i \in 1 .. (p - 1) : s[i] = firmware[i]
    BY <1>1, <1>2, Zenon
  <1>6. Len(t) = p /\ t[p] = e /\ \A i \in 1 .. (p - 1) : t[i] = firmware[i]
    BY <1>2, <1>3, <1>5
  <1> QED
    BY <1>4, <1>6 DEF Knows

(* ... and the last one completes it. *)
LEMMA HearLast ==
  ASSUME NEW d, NEW d1 \in BoardDescriptors, NEW p \in Nat \ {0}, NEW l \in 1 .. 4,
         Knows(d, p, l),
         d1 = [board |-> d.board, ffs |-> [d.ffs EXCEPT ![Len(d.ffs)] = firmware[p]]]
  PROVE  Knows(d1, p + 1, 0)
  <1>1. /\ d \in BoardDescriptors /\ d.board = Titles /\ Len(d.ffs) = p
        /\ \A i \in 1 .. (p - 1) : d.ffs[i] = firmware[i]
    BY DEF Knows
  <1>2. PICK s \in Seq(FieldFunctions) : s = d.ffs
    BY <1>1, ElementsSeq
  <1>3. PICK t : t = [s EXCEPT ![p] = firmware[p]]
    OBVIOUS
  <1>4. d1.board = Titles /\ d1.ffs = t
    BY <1>1, <1>2, <1>3
  <1>5. Len(s) = p /\ \A i \in 1 .. (p - 1) : s[i] = firmware[i]
    BY <1>1, <1>2, Zenon
  <1>6. Len(t) = p /\ \A i \in 1 .. p : t[i] = firmware[i]
    BY <1>2, <1>3, <1>5
  <1> QED
    BY <1>4, <1>6 DEF Knows

(* So, line by line, the handler gets to know the whole board. *)
LEMMA Heeds ==
  ASSUME TypeOK, Positioned, Telling, Knows(desc, told.part, told.line),
         NEW d1 \in BoardDescriptors, d1 = Applied
  PROVE  Knows(d1, ToldMore.part, ToldMore.line)
  <1> DEFINE Hears(tag, value, q, m) ==
               /\ Line.tag = tag /\ Line.value = value
               /\ ToldMore.part = q /\ ToldMore.line = m
  <1>1. \A tag, value, q, m : Says(tag, value, q, m) => Hears(tag, value, q, m)
    BY DEF Says
  <1>2. \A q, m : At(q, m) => told.part = q /\ told.line = m
    BY DEF At
  <1>3. CASE told.part = 0
    <2>1. CASE At(0, 0) /\ Says("BOARD_NAME", BoardName, 0, 1)
      <3>1. desc = NoDescriptor
        BY <1>2, <2>1 DEF Knows
      <3>2. d1 = ApplyInfo(NewDescriptor, "BOARD_NAME", BoardName)
        BY <1>1, <2>1, <3>1, Zenon DEF Applied
      <3>3. d1 = [board |-> Name, ffs |-> <<>>]
        BY <3>2, ApplyTitle, NewDescriptorTyped, TagFacts DEF Name
      <3> QED
        BY <1>1, <2>1, <3>3 DEF Knows
    <2>2. CASE At(0, 1) /\ Says("BOARD_VERSION", BoardVersion, 1, 0)
      <3>1. desc = [board |-> Name, ffs |-> <<>>]
        BY <1>2, <2>2 DEF Knows
      <3>2. desc # NoDescriptor
        <4>1. "ffs" \in DOMAIN desc /\ "ffs" \notin DOMAIN NoDescriptor
          BY <3>1 DEF NoDescriptor
        <4> QED
          BY <4>1, Zenon
      <3>3. d1 = ApplyInfo(desc, "BOARD_VERSION", BoardVersion)
        BY <1>1, <2>2, <3>2, Zenon DEF Applied
      <3>4. desc \in BoardDescriptors
        BY <3>2 DEF TypeOK
      <3>5. d1 = [board |-> [desc.board EXCEPT !["BOARD_VERSION"] = BoardVersion],
                  ffs |-> desc.ffs]
        BY <3>3, <3>4, ApplyTitle, TagFacts
      <3>6. d1.board = Titles /\ d1.ffs = <<>>
        BY <3>1, <3>5 DEF Titles
      <3>7. Knows(d1, 1, 0)
        BY <3>6 DEF Knows
      <3> QED
        BY <1>1, <2>2, <3>7, Zenon
    <2> QED
      BY <1>3, <2>1, <2>2, IntroductionSaid
  <1>4. CASE told.part # 0
    <2>1. PICK p \in Nat \ {0} : p = told.part /\ p \in 1 .. Len(firmware)
      BY <1>4, PositionFacts DEF Telling
    <2>2. PICK l \in 0 .. 4 : l = told.line
      BY PositionFacts
    <2>3. desc \in BoardDescriptors /\ Knows(desc, p, l)
      BY <2>1, <2>2 DEF Knows
    <2>4. d1 = ApplyInfo(desc, Line.tag, Line.value)
      BY <2>3, NoDescriptorApart, Zenon DEF Applied
    <2>5. PICK ff \in FieldFunctions : ff = firmware[p] /\ Tellable(ff)
      BY <2>1, FirmwareFacts DEF TypeOK
    <2>6. l > 0 => desc.ffs[Len(desc.ffs)] = Begun(ff, l)
      BY <2>1, <2>3, <2>5 DEF Knows
    <2>7. ASSUME NEW tag \in Attributes, NEW value, NEW m \in 1 .. 4, NEW n \in 1 .. 4,
                 At(p, m), Says(tag, value, p, n), Build(Begun(ff, m), tag, value) = Begun(ff, n)
          PROVE  Knows(d1, ToldMore.part, ToldMore.line)
      <3>1. l = m
        BY <1>2, <2>2, <2>7, Zenon
      <3>2. d1 = [board |-> desc.board,
                  ffs |-> [desc.ffs EXCEPT ![Len(desc.ffs)] =
                             Build(desc.ffs[Len(desc.ffs)], tag, value)]]
        <4>1. d1 = ApplyInfo(desc, tag, value)
          BY <1>1, <2>4, <2>7, Zenon
        <4> QED
          BY <2>3, <2>7, <4>1, ApplyAttribute
      <3>3. d1 = [board |-> desc.board,
                  ffs |-> [desc.ffs EXCEPT ![Len(desc.ffs)] = Begun(firmware[p], n)]]
        <4>1. desc.ffs[Len(desc.ffs)] = Begun(ff, m)
          BY <2>6, <3>1
        <4> QED
          BY <2>5, <2>7, <3>2, <4>1, Zenon
      <3>4. Knows(desc, p, m)
        BY <2>3, <3>1, Zenon
      <3>5. Knows(d1, p, n)
        BY <3>3, <3>4, HearMore
      <3> QED
        BY <1>1, <2>7, <3>5, Zenon
    <2>8. ASSUME NEW tag \in Attributes, NEW value, NEW m \in 1 .. 4, At(p, m),
                 Says(tag, value, p + 1, 0), Build(Begun(ff, m), tag, value) = ff
          PROVE  Knows(d1, ToldMore.part, ToldMore.line)
      <3>1. l = m
        BY <1>2, <2>2, <2>8, Zenon
      <3>2. d1 = [board |-> desc.board,
                  ffs |-> [desc.ffs EXCEPT ![Len(desc.ffs)] =
                             Build(desc.ffs[Len(desc.ffs)], tag, value)]]
        <4>1. d1 = ApplyInfo(desc, tag, value)
          BY <1>1, <2>4, <2>8, Zenon
        <4> QED
          BY <2>3, <2>8, <4>1, ApplyAttribute
      <3>3. d1 = [board |-> desc.board,
                  ffs |-> [desc.ffs EXCEPT ![Len(desc.ffs)] = firmware[p]]]
        <4>1. desc.ffs[Len(desc.ffs)] = Begun(ff, m)
          BY <2>6, <3>1
        <4> QED
          BY <2>5, <2>8, <3>2, <4>1, Zenon
      <3>4. Knows(desc, p, m)
        BY <2>3, <3>1, Zenon
      <3>5. Knows(d1, p + 1, 0)
        BY <3>3, <3>4, HearLast
      <3> QED
        BY <1>1, <2>8, <3>5, Zenon
    <2>9. ASSUME NEW tag, NEW e, At(p, 0), Says(tag, ff.name, p, 1), e = Begun(ff, 1),
                 \/ tag = "FIELD_NAME" /\ e = FieldDescriptor(ff.name)
                 \/ tag = "FUNC_NAME" /\ e = FunctionDescriptor(ff.name)
          PROVE  Knows(d1, ToldMore.part, ToldMore.line)
      <3>1. d1 = [board |-> desc.board, ffs |-> Append(desc.ffs, e)]
        <4>1. d1 = ApplyInfo(desc, tag, ff.name)
          BY <1>1, <2>4, <2>9, Zenon
        <4> QED
          BY <2>3, <2>9, <4>1, ApplyName
      <3>2. Knows(desc, p, 0)
        BY <1>2, <2>2, <2>3, <2>9, Zenon
      <3>3. Knows(d1, p, 1)
        BY <2>5, <2>9, <3>1, <3>2, HearName
      <3> QED
        BY <1>1, <2>9, <3>3, Zenon
    <2>10. 1 \in 1 .. 4 /\ 2 \in 1 .. 4 /\ 3 \in 1 .. 4 /\ 4 \in 1 .. 4
      OBVIOUS
    <2>11. CASE IsField(ff)
      <3>1. /\ FieldDescriptor(ff.name) = Begun(ff, 1)
            /\ Build(Begun(ff, 1), "FIELD_TYPE", ff.typecode) = Begun(ff, 2)
            /\ Build(Begun(ff, 2), "SUBFIELDS_C", "") = Begun(ff, 3)
            /\ Build(Begun(ff, 3), "FIELD_ACCESS", ff.access) = Begun(ff, 4)
            /\ ff.names = <<>> => Begun(ff, 4) = ff
            /\ Build(Begun(ff, 4), "SUBFIELDS", ff.names) = ff
        BY <2>5, <2>11, BegunField
      <3>2. {"FIELD_TYPE", "SUBFIELDS_C", "FIELD_ACCESS", "SUBFIELDS"} \subseteq Attributes
        BY DEF Attributes
      <3>3. CASE At(p, 0) /\ Says("FIELD_NAME", ff.name, p, 1)
        BY <2>9, <3>1, <3>3, Zenon
      <3>4. CASE At(p, 1) /\ Says("FIELD_TYPE", ff.typecode, p, 2)
        BY <2>7, <2>10, <3>1, <3>2, <3>4, Zenon
      <3>5. CASE At(p, 2) /\ Says("SUBFIELDS_C", "", p, 3)
        BY <2>7, <2>10, <3>1, <3>2, <3>5, Zenon
      <3>6. CASE At(p, 3) /\ ff.names = <<>> /\ Says("FIELD_ACCESS", ff.access, p + 1, 0)
        BY <2>8, <2>10, <3>1, <3>2, <3>6, Zenon
      <3>7. CASE At(p, 3) /\ ff.names # <<>> /\ Says("FIELD_ACCESS", ff.access, p, 4)
        BY <2>7, <2>10, <3>1, <3>2, <3>7, Zenon
      <3>8. CASE At(p, 4) /\ ff.names # <<>> /\ Says("SUBFIELDS", ff.names, p + 1, 0)
        BY <2>8, <2>10, <3>1, <3>2, <3>8, Zenon
      <3> QED
        BY <2>1, <2>5, <2>11, <3>3, <3>4, <3>5, <3>6, <3>7, <3>8, FieldSaid
    <2>12. CASE ~IsField(ff)
      <3>1. /\ FunctionDescriptor(ff.name) = Begun(ff, 1)
            /\ Build(Begun(ff, 1), "FUNC_OUT_TYPE", ff.out_typecode) = Begun(ff, 2)
            /\ Build(Begun(ff, 2), "FUNC_ARGS_TYPE", ff.typecode) = ff
        BY <2>5, <2>12, BegunFunction
      <3>2. {"FUNC_OUT_TYPE", "FUNC_ARGS_TYPE"} \subseteq Attributes
        BY DEF Attributes
      <3>3. CASE At(p, 0) /\ Says("FUNC_NAME", ff.name, p, 1)
        BY <2>9, <3>1, <3>3, Zenon
      <3>4. CASE At(p, 1) /\ Says("FUNC_OUT_TYPE", ff.out_typecode, p, 2)
        BY <2>7, <2>10, <3>1, <3>2, <3>4, Zenon
      <3>5. CASE At(p, 2) /\ Says("FUNC_ARGS_TYPE", ff.typecode, p + 1, 0)
        BY <2>8, <2>10, <3>1, <3>2, <3>5, Zenon
      <3> QED
        BY <2>1, <2>5, <2>12, <3>3, <3>4, <3>5, FunctionSaid
    <2> QED
      BY <2>11, <2>12
  <1> QED
    BY <1>3, <1>4

-----------------------------------------------------------------------------
(* Names.                                                                  *)

(* A line adds the name it says, or none. *)
LEMMA NamesApplied ==
  ASSUME NEW d \in BoardDescriptors, NEW tag, NEW value,
         Sayable(tag, value), InfoFaults(d, tag) = {},
         NEW n \in Nat, n = Len(d.ffs),
         NEW t, t = ApplyInfo(d, tag, value).ffs
  PROVE  /\ \A i \in 1 .. n : t[i].name = d.ffs[i].name
         /\ tag \notin NameTags => Len(t) = n
         /\ tag \in NameTags => Len(t) = n + 1 /\ t[n + 1].name = value
  <1>1. PICK s \in Seq(FieldFunctions) : s = d.ffs
    BY ElementsSeq
  <1>2. Len(s) = n
    BY <1>1
  <1>3. CASE tag \in BoardTags
    <2>1. ApplyInfo(d, tag, value) = [board |-> [d.board EXCEPT ![tag] = value], ffs |-> d.ffs]
      BY <1>3, ApplyTitle
    <2>2. t = s
      BY <1>1, <2>1
    <2> QED
      BY <1>1, <1>2, <1>3, <2>2, TagFacts, Zenon
  <1>4. CASE tag \in NameTags
    <2>1. value \in STRING
      BY <1>4, TagFacts DEF Sayable, Attributes, NameTags
    <2>2. PICK e \in FieldFunctions : t = Append(s, e) /\ e.name = value
      <3>1. CASE tag = "FIELD_NAME"
        <4>1. ApplyInfo(d, "FIELD_NAME", value) =
                [board |-> d.board, ffs |-> Append(d.ffs, FieldDescriptor(value))]
          BY ApplyName
        <4>2. t = Append(s, FieldDescriptor(value))
          BY <1>1, <3>1, <4>1
        <4> QED
          BY <2>1, <4>2, NewElements, Zenon
      <3>2. CASE tag = "FUNC_NAME"
        <4>1. ApplyInfo(d, "FUNC_NAME", value) =
                [board |-> d.board, ffs |-> Append(d.ffs, FunctionDescriptor(value))]
          BY ApplyName
        <4>2. t = Append(s, FunctionDescriptor(value))
          BY <1>1, <3>2, <4>1
        <4> QED
          BY <2>1, <4>2, NewElements, Zenon
      <3> QED
        BY <1>4, <3>1, <3>2 DEF NameTags
    <2>3. Len(t) = n + 1 /\ t[n + 1] = e /\ \A i \in 1 .. n : t[i] = s[i]
      BY <1>1, <1>2, <2>2, AppendProperties
    <2> QED
      BY <1>1, <1>4, <2>2, <2>3, Zenon
  <1>5. CASE tag \in Attributes
    <2>1. Fits(tag, value)
      BY <1>5 DEF Sayable, Attributes, NameTags
    <2>2. /\ d.ffs # <<>>
          /\ tag \in IF Newest(d.ffs).sort = "field" THEN FieldTags ELSE FuncTags
      BY <1>5, TagFacts DEF InfoFaults
    <2>3. n \in 1 .. Len(s) /\ s[n] \in FieldFunctions /\ Newest(d.ffs) = s[n]
      <3>1. n # 0
        BY <1>1, <1>2, <2>2, EmptySeq
      <3>2. n \in 1 .. Len(s)
        BY <1>2, <3>1
      <3> QED
        BY <1>1, <1>2, <3>2, ElementOfSeq DEF Newest
    <2>4. Build(s[n], tag, value) \in FieldFunctions /\ Build(s[n], tag, value).name = s[n].name
      BY <1>5, <2>1, <2>2, <2>3, BuildTyped
    <2>5. PICK e : e = Build(s[n], tag, value)
      OBVIOUS
    <2>6. t = [s EXCEPT ![n] = e]
      <3>1. ApplyInfo(d, tag, value) =
              [board |-> d.board,
               ffs |-> [d.ffs EXCEPT ![Len(d.ffs)] = Build(d.ffs[Len(d.ffs)], tag, value)]]
        BY <1>5, ApplyAttribute
      <3>2. t = [d.ffs EXCEPT ![Len(d.ffs)] = Build(d.ffs[Len(d.ffs)], tag, value)]
        BY <3>1
      <3> QED
        BY <1>1, <2>5, <3>2, Zenon
    <2>7. Len(t) = n /\ t[n] = e /\ \A i \in 1 .. n : i # n => t[i] = s[i]
      BY <1>1, <1>2, <2>3, <2>6
    <2> QED
      BY <1>1, <1>5, <2>4, <2>5, <2>7, TagFacts, Zenon
  <1> QED
    BY <1>3, <1>4, <1>5, TagFacts DEF Sayable

(* A name is said first, and once. *)
LEMMA NameSaid ==
  ASSUME TypeOK, Positioned, Telling, Line.tag \in NameTags
  PROVE  /\ told.part \in 1 .. Len(firmware) /\ told.line = 0
         /\ Line.value = firmware[told.part].name
         /\ ToldMore.part = told.part /\ ToldMore.line = 1
  <1> DEFINE Hears(tag, value, q, m) ==
               /\ Line.tag = tag /\ Line.value = value
               /\ ToldMore.part = q /\ ToldMore.line = m
  <1>1. \A tag, value, q, m : Says(tag, value, q, m) => Hears(tag, value, q, m)
    BY DEF Says
  <1>2. \A q, m : At(q, m) => told.part = q /\ told.line = m
    BY DEF At
  <1>3. \A tag \in {"BOARD_NAME", "BOARD_VERSION"} \cup Attributes : tag \notin NameTags
    BY DEF Attributes, NameTags
  <1>4. "FIELD_TYPE" \in Attributes /\ "SUBFIELDS_C" \in Attributes /\
        "FIELD_ACCESS" \in Attributes /\ "SUBFIELDS" \in Attributes /\
        "FUNC_OUT_TYPE" \in Attributes /\ "FUNC_ARGS_TYPE" \in Attributes
    BY DEF Attributes
  <1>5. told.part # 0
    <2>1. Line.tag # "BOARD_NAME" /\ Line.tag # "BOARD_VERSION"
      BY <1>3
    <2> QED
      BY <1>1, <2>1, IntroductionSaid, Zenon
  <1>6. PICK p \in 1 .. Len(firmware) : p = told.part
    BY <1>5, PositionFacts DEF Telling
  <1>7. p # 0
    BY <1>6
  <1>8. PICK ff : ff = firmware[p]
    OBVIOUS
  <1>9. CASE IsField(ff)
    <2>1. At(p, 0) /\ Says("FIELD_NAME", ff.name, p, 1)
      <3>1. /\ Line.tag # "FIELD_TYPE" /\ Line.tag # "SUBFIELDS_C"
            /\ Line.tag # "FIELD_ACCESS" /\ Line.tag # "SUBFIELDS"
        BY <1>3, <1>4, Zenon
      <3>2. \A tag, value, q, m : Says(tag, value, q, m) => Line.tag = tag
        BY <1>1, Zenon
      <3>3. \/ At(p, 0) /\ Says("FIELD_NAME", ff.name, p, 1)
            \/ At(p, 1) /\ Says("FIELD_TYPE", ff.typecode, p, 2)
            \/ At(p, 2) /\ Says("SUBFIELDS_C", "", p, 3)
            \/ At(p, 3) /\ ff.names = <<>> /\ Says("FIELD_ACCESS", ff.access, p + 1, 0)
            \/ At(p, 3) /\ ff.names # <<>> /\ Says("FIELD_ACCESS", ff.access, p, 4)
            \/ At(p, 4) /\ ff.names # <<>> /\ Says("SUBFIELDS", ff.names, p + 1, 0)
        BY <1>6, <1>7, <1>8, <1>9, FieldSaid
      <3> QED
        BY <3>1, <3>2, <3>3, Zenon
    <2> QED
      BY <1>1, <1>2, <1>6, <1>8, <2>1, Zenon
  <1>10. CASE ~IsField(ff)
    <2>1. At(p, 0) /\ Says("FUNC_NAME", ff.name, p, 1)
      <3>1. Line.tag # "FUNC_OUT_TYPE" /\ Line.tag # "FUNC_ARGS_TYPE"
        BY <1>3, <1>4, Zenon
      <3>2. \A tag, value, q, m : Says(tag, value, q, m) => Line.tag = tag
        BY <1>1, Zenon
      <3>3. \/ At(p, 0) /\ Says("FUNC_NAME", ff.name, p, 1)
            \/ At(p, 1) /\ Says("FUNC_OUT_TYPE", ff.out_typecode, p, 2)
            \/ At(p, 2) /\ Says("FUNC_ARGS_TYPE", ff.typecode, p + 1, 0)
        BY <1>6, <1>7, <1>8, <1>10, FunctionSaid
      <3> QED
        BY <3>1, <3>2, <3>3, Zenon
    <2> QED
      BY <1>1, <1>2, <1>6, <1>8, <2>1, Zenon
  <1> QED
    BY <1>9, <1>10

LEMMA HeardMore ==
  ASSUME TypeOK, Positioned, Telling, told' = ToldMore, NEW j \in Nat, Heard(j)
  PROVE  Heard(j)'
  <1>1. PICK p \in Nat, l \in Nat : p = told.part /\ l = told.line
    BY PositionFacts
  <1>2. \/ told' = [part |-> p, line |-> l + 1]
        \/ told' = [part |-> p + 1, line |-> 0]
    <2>1. Len(Part(told.part)) \in Nat
      BY PartLength, PositionFacts DEF Telling
    <2>2. told.line + 1 < Len(Part(told.part)) \/ told.line + 1 = Len(Part(told.part))
      BY <1>1, <2>1, NextLine
    <2> QED
      BY <1>1, <2>1, <2>2, NextLine
  <1>3. j < p \/ (j = p /\ l > 0)
    BY <1>1 DEF Heard
  <1>4. (told'.part = p /\ told'.line = l + 1) \/ (told'.part = p + 1 /\ told'.line = 0)
    BY <1>2
  <1> QED
    BY <1>1, <1>3, <1>4 DEF Heard

(* What a line is applied to. *)
LEMMA AppliedTo ==
  ASSUME TypeOK, DescriptionFaults = {}
  PROVE  \E d \in BoardDescriptors :
           /\ d = IF desc = NoDescriptor THEN NewDescriptor ELSE desc
           /\ Applied = ApplyInfo(d, Line.tag, Line.value) /\ InfoFaults(d, Line.tag) = {}
  <1>1. CASE desc = NoDescriptor
    <2>1. Line.tag = "BOARD_NAME"
      BY <1>1 DEF DescriptionFaults
    <2>2. InfoFaults(NewDescriptor, "BOARD_NAME") = {}
      BY BoardLineFaults DEF BoardTags
    <2> QED
      BY <1>1, <2>1, <2>2, NewDescriptorTyped, Zenon DEF Applied
  <1>2. CASE desc # NoDescriptor
    <2>1. desc \in BoardDescriptors
      BY <1>2 DEF TypeOK
    <2>2. InfoFaults(desc, Line.tag) = {}
      BY <1>2 DEF DescriptionFaults
    <2> QED
      BY <1>2, <2>1, <2>2, Zenon DEF Applied
  <1> QED
    BY <1>1, <1>2

(* No name is heard twice. *)
LEMMA NamesHeard ==
  ASSUME NamesDiffer, TypeOK, Positioned, Telling, DescriptionFaults = {}, NamesOnce,
         told' = ToldMore, firmware' = firmware, NEW d1, d1 = Applied
  PROVE  Named(d1)'
  <1>1. PICK d \in BoardDescriptors :
          /\ d = IF desc = NoDescriptor THEN NewDescriptor ELSE desc
          /\ Applied = ApplyInfo(d, Line.tag, Line.value) /\ InfoFaults(d, Line.tag) = {}
    BY AppliedTo
  <1>2. PICK s \in Seq(FieldFunctions) : s = d.ffs
    BY ElementsSeq
  <1>3. PICK n \in Nat : n = Len(s) /\ DOMAIN s = 1 .. n
    BY <1>2
  <1>4. /\ \A i, j \in 1 .. n : s[i].name = s[j].name => i = j
        /\ \A i \in 1 .. n : \E j \in DOMAIN firmware : Heard(j) /\ s[i].name = firmware[j].name
    <2>1. CASE desc = NoDescriptor
      <3>1. n = 0
        BY <1>1, <1>2, <1>3, <2>1, NewDescriptorTyped
      <3> QED
        BY <3>1
    <2>2. CASE desc # NoDescriptor
      <3>1. Named(d)
        BY <1>1, <2>2, Zenon DEF NamesOnce
      <3> QED
        BY <1>2, <1>3, <3>1, Zenon DEF Named, Distinct
    <2> QED
      BY <2>1, <2>2
  <1>5. PICK t \in Seq(FieldFunctions) : t = d1.ffs
    BY AppliedTyped, ElementsSeq
  <1>6. Sayable(Line.tag, Line.value)
    BY LineSayable
  <1>7. /\ \A i \in 1 .. n : t[i].name = s[i].name
        /\ Line.tag \notin NameTags => Len(t) = n
        /\ Line.tag \in NameTags => Len(t) = n + 1 /\ t[n + 1].name = Line.value
    <2>1. PICK tag, value : tag = Line.tag /\ value = Line.value
      OBVIOUS
    <2>2. t = ApplyInfo(d, tag, value).ffs /\ n = Len(d.ffs)
      BY <1>1, <1>2, <1>3, <1>5, <2>1, Zenon
    <2>3. Sayable(tag, value) /\ InfoFaults(d, tag) = {}
      BY <1>1, <1>6, <2>1, Zenon
    <2>4. /\ \A i \in 1 .. n : t[i].name = d.ffs[i].name
          /\ tag \notin NameTags => Len(t) = n
          /\ tag \in NameTags => Len(t) = n + 1 /\ t[n + 1].name = value
      BY <2>2, <2>3, NamesApplied
    <2> QED
      BY <1>2, <2>1, <2>4, Zenon
  <1>8. DOMAIN t = 1 .. Len(t) /\ Len(t) \in Nat
    BY <1>5
  <1>9. DOMAIN firmware = 1 .. Len(firmware) /\ Len(firmware) \in Nat
    BY FirmwareFacts DEF TypeOK
  <1>10. \A j \in DOMAIN firmware : Heard(j) => Heard(j)'
    BY <1>9, HeardMore
  <1>11. CASE Line.tag \notin NameTags
    <2>1. Len(t) = n
      BY <1>7, <1>11
    <2>2. \A i, j \in 1 .. n : t[i].name = t[j].name => i = j
      BY <1>4, <1>7
    <2>3. \A i \in 1 .. n : \E j \in DOMAIN firmware : Heard(j)' /\ t[i].name = firmware[j].name
      BY <1>4, <1>7, <1>10
    <2>4. Distinct(t)
      BY <1>8, <2>1, <2>2, Zenon DEF Distinct
    <2>5. \A i \in DOMAIN t : \E j \in DOMAIN firmware' :
            Heard(j)' /\ t[i].name = firmware'[j].name
      BY <1>8, <2>1, <2>3, Zenon
    <2> QED
      BY <1>5, <2>4, <2>5, Zenon DEF Named
  <1>12. CASE Line.tag \in NameTags
    <2>1. PICK p \in 1 .. Len(firmware) :
            p = told.part /\ told.line = 0 /\ Line.value = firmware[p].name
              /\ told'.part = p /\ told'.line = 1
      BY <1>12, NameSaid
    <2>2. Heard(p)'
      BY <2>1 DEF Heard
    <2>3. \A j \in DOMAIN firmware : Heard(j) => j < p
      BY <2>1 DEF Heard
    <2>4. Len(t) = n + 1 /\ t[n + 1].name = firmware[p].name
      BY <1>7, <1>12, <2>1
    <2>5. \A i, j \in DOMAIN firmware : firmware[i].name = firmware[j].name => i = j
      BY Zenon DEF NamesDiffer, TypeOK
    <2>6. \A i \in 1 .. n : t[i].name # firmware[p].name
      <3> SUFFICES ASSUME NEW i \in 1 .. n PROVE t[i].name # firmware[p].name
        OBVIOUS
      <3>1. PICK j \in DOMAIN firmware : Heard(j) /\ s[i].name = firmware[j].name
        BY <1>4
      <3>2. j # p
        BY <1>9, <2>1, <2>3, <3>1
      <3> QED
        BY <1>7, <1>9, <2>5, <3>1, <3>2
    <2>7. \A i, j \in 1 .. (n + 1) : t[i].name = t[j].name => i = j
      <3>1. \A i, j \in 1 .. n : t[i].name = t[j].name => i = j
        BY <1>4, <1>7
      <3> QED
        BY <2>4, <2>6, <3>1
    <2>8. \A i \in 1 .. (n + 1) : \E j \in DOMAIN firmware :
            Heard(j)' /\ t[i].name = firmware[j].name
      <3>1. \A i \in 1 .. n : \E j \in DOMAIN firmware : Heard(j)' /\ t[i].name = firmware[j].name
        BY <1>4, <1>7, <1>10
      <3>2. p \in DOMAIN firmware
        BY <1>9
      <3>3. \A i \in 1 .. (n + 1) : i \in 1 .. n \/ i = n + 1
        OBVIOUS
      <3> QED
        BY <2>2, <2>4, <3>1, <3>2, <3>3, Zenon
    <2>9. Distinct(t)
      BY <1>8, <2>4, <2>7, Zenon DEF Distinct
    <2>10. \A i \in DOMAIN t : \E j \in DOMAIN firmware' :
            Heard(j)' /\ t[i].name = firmware'[j].name
      BY <1>8, <2>4, <2>8, Zenon
    <2> QED
      BY <1>5, <2>9, <2>10, Zenon DEF Named
  <1> QED
    BY <1>11, <1>12

-----------------------------------------------------------------------------
(* The tables of a front end.  A description with a function has none, so   *)
(* ffids and places among the fields are the same.                          *)

LEMMA AllFields ==
  ASSUME NEW ffs, Len(ffs) \in Nat, DOMAIN ffs = 1 .. Len(ffs),
         \A i \in DOMAIN ffs : IsField(ffs[i])
  PROVE  /\ \A i \in 0 .. Len(ffs) : FieldCount(ffs, i) = i
         /\ Fields(ffs) = [k \in 1 .. Len(ffs) |-> k]
  <1>1. ASSUME NEW i \in 0 .. Len(ffs)
        PROVE  FieldCount(ffs, i) = i
    <2>1. {j \in 1 .. i : IsField(ffs[j])} = 1 .. i
      OBVIOUS
    <2>2. Cardinality(1 .. i) = i
      BY FS_Interval
    <2> QED
      BY <2>1, <2>2 DEF FieldCount
  <1>2. ASSUME NEW k \in 1 .. Len(ffs)
        PROVE  (CHOOSE i \in DOMAIN ffs : IsField(ffs[i]) /\ FieldCount(ffs, i) = k) = k
    <2>1. \A i \in DOMAIN ffs : FieldCount(ffs, i) = i
      BY <1>1
    <2> QED
      BY <2>1
  <1>3. FieldCount(ffs, Len(ffs)) = Len(ffs)
    BY <1>1
  <1> QED
    BY <1>1, <1>2, <1>3 DEF Fields

Tables(f, ffs, n) ==
  /\ \A i \in 1 .. n : IsField(ffs[i]) /\ ffs[i].typecode \in DOMAIN Message
  /\ f.fftable = [i \in 1 .. n |-> i] /\ f.fieldtable = [k \in 1 .. n |-> k]
  /\ f.publishers = [k \in 1 .. n |-> IF FromBoard(ffs[k]) THEN Topic(ffs[k]) ELSE NoTopic]
  /\ f.subscribers = [k \in {j \in 1 .. n : ToBoard(ffs[j])} |-> Topic(ffs[k])]

(* Init, for a description it accepts. *)
LEMMA FrontEndFacts ==
  ASSUME NEW d, NEW ffs, ffs = d.ffs, NEW n \in Nat, n = Len(ffs), DOMAIN ffs = 1 .. n,
         \A i \in DOMAIN ffs : ffs[i].sort \in {"field", "function"},
         NewBoardFaults(d) = {}
  PROVE  FrontEnd(d).desc = d /\ Tables(FrontEnd(d), ffs, n)
  <1>1. Len(ffs) \in Nat /\ DOMAIN ffs = 1 .. n /\ DOMAIN ffs = 1 .. Len(ffs)
    OBVIOUS
  <1>2. ~\E i \in DOMAIN ffs : IsField(ffs[i]) /\ ffs[i].typecode \notin DOMAIN Message
    BY Zenon DEF NewBoardFaults
  <1>3. "function" \notin {ffs[i].sort : i \in DOMAIN ffs}
    BY <1>2, Zenon DEF NewBoardFaults
  <1>4. \A i \in 1 .. n : IsField(ffs[i])
    BY <1>1, <1>3 DEF IsField
  <1>5. \A i \in 1 .. n : ffs[i].typecode \in DOMAIN Message
    BY <1>1, <1>2, <1>4, Zenon
  <1>6. /\ \A i \in 1 .. n : FieldCount(ffs, i) = i
        /\ Fields(ffs) = [k \in 1 .. n |-> k]
    BY <1>1, <1>4, AllFields
  <1>7. DOMAIN Fields(ffs) = 1 .. n /\ \A k \in 1 .. n : Fields(ffs)[k] = k
    BY <1>6
  <1>8. FrontEnd(d).fftable = [i \in 1 .. n |-> i]
    <2>1. FrontEnd(d).fftable =
            [i \in DOMAIN ffs |-> IF IsField(ffs[i]) THEN FieldCount(ffs, i) ELSE 0]
      BY Zenon DEF FrontEnd
    <2> QED
      BY <1>1, <1>4, <1>6, <2>1
  <1>9. FrontEnd(d).publishers =
          [k \in 1 .. n |-> IF FromBoard(ffs[k]) THEN Topic(ffs[k]) ELSE NoTopic]
    <2>1. FrontEnd(d).publishers = Publishers(ffs)
      BY DEF FrontEnd
    <2> QED
      BY <1>7, <2>1 DEF Publishers
  <1>10. FrontEnd(d).subscribers =
           [k \in {j \in 1 .. n : ToBoard(ffs[j])} |-> Topic(ffs[k])]
    <2>1. FrontEnd(d).subscribers = Subscribers(ffs)
      BY DEF FrontEnd
    <2> QED
      BY <1>7, <2>1 DEF Subscribers
  <1>11. FrontEnd(d).desc = d /\ FrontEnd(d).fieldtable = Fields(ffs)
    BY DEF FrontEnd
  <1> QED
    BY <1>4, <1>5, <1>6, <1>8, <1>9, <1>10, <1>11 DEF Tables

-----------------------------------------------------------------------------
(* The steps.                                                              *)

LEMMA PositionedFrame ==
  ASSUME Positioned, UNCHANGED <<firmware, told>>
  PROVE  Positioned'
  BY Zenon DEF Positioned, Part

LEMMA FaithfulFrame ==
  ASSUME Faithful, UNCHANGED <<firmware, told, desc>>, gaps'.now = gaps.now
  PROVE  Faithful'
  BY Zenon DEF Faithful, Knows

LEMMA MappedFrame ==
  ASSUME Mapped, UNCHANGED <<known, front>>
  PROVE  Mapped'
  BY Zenon DEF Mapped

LEMMA SettledFrame ==
  ASSUME Settled, UNCHANGED <<firmware, told, desc, link, known>>
  PROVE  Settled'
  BY Zenon DEF Settled

(* What a step does that neither describes nor registers a board. *)
LEMMA OtherStep ==
  ASSUME FieldsInv, UNCHANGED <<firmware, told, desc, link, known, front, gaps, flashes>>,
         awake' \in BOOLEAN, wake' \in BOOLEAN, fault' = fault \/ fault' \in Faults,
         \/ exchange' = exchange
         \/ exchange'.from \in {"board", "ros"} /\ link = "up"
         \/ exchange'.from = "refused" /\ fault' \in Faults
  PROVE  FieldsInv'
  <1>1. TypeOK /\ Positioned /\ Faithful /\ Mapped /\ Settled /\ Remembered /\ Accounted
          /\ Connected
    BY DEF FieldsInv
  <1>2. TypeOK'
    BY <1>1 DEF TypeOK
  <1>3. Positioned' /\ Faithful' /\ Mapped' /\ Settled'
    BY <1>1, PositionedFrame, FaithfulFrame, MappedFrame, SettledFrame
  <1>4. Remembered' /\ Accounted'
    BY <1>1, Zenon DEF Remembered, Accounted
  <1>5. Connected'
    BY <1>1 DEF Connected, Alive, Faults
  <1> QED
    BY <1>2, <1>3, <1>4, <1>5 DEF FieldsInv

(* Only a message to a board can have the wrong length. *)
BoardFaults == Faults \ {"wrong_length"}

LEMMA FaultFacts ==
  /\ \A d, tag : InfoFaults(d, tag) \subseteq BoardFaults
  /\ \A d : NewBoardFaults(d) \subseteq {"no_message_type", "function"}
  /\ \A f, i, data : InboundFaults(f, i, data) \subseteq BoardFaults
  <1>1. \A d, tag : InfoFaults(d, tag) \subseteq {"incomplete", "no_element", "wrong_attribute"}
    BY TagFacts, Zenon DEF InfoFaults
  <1>2. \A d : NewBoardFaults(d) \subseteq {"no_message_type", "function"}
    BY DEF NewBoardFaults
  <1>3. \A f, i, data : InboundFaults(f, i, data) \subseteq {"no_field", "size", "no_publisher"}
    BY DEF InboundFaults
  <1> QED
    BY <1>1, <1>2, <1>3 DEF Faults, BoardFaults

LEMMA DescriptionStep ==
  ASSUME FieldsInv, DescriptionDataInbound
  PROVE  FieldsInv'
  <1>1. TypeOK /\ Positioned /\ Faithful /\ Mapped /\ Settled /\ Remembered /\ Accounted
          /\ Connected
    BY DEF FieldsInv
  <1>2. /\ Telling /\ DescriptionFaults = {} /\ told' = ToldMore /\ desc' = Applied
        /\ UNCHANGED <<firmware, awake, link, wake, known, front, fault, exchange, gaps, flashes>>
    BY DEF DescriptionDataInbound, Applied
  <1>3. told' \in [part : 0 .. Len(firmware) + 1, line : 0 .. 4] /\ Positioned'
    BY <1>1, <1>2, Advances
  <1>4. desc' \in BoardDescriptors
    BY <1>1, <1>2, AppliedTyped
  <1>5. TypeOK'
    BY <1>1, <1>2, <1>3, <1>4 DEF TypeOK
  <1>6. Faithful'
    <2>1. SUFFICES ASSUME ~gaps.now PROVE Knows(desc, told.part, told.line)'
      BY <1>2 DEF Faithful
    <2>2. Knows(desc, told.part, told.line)
      BY <1>1, <2>1 DEF Faithful
    <2>3. PICK d1, p, l : /\ d1 \in BoardDescriptors /\ d1 = Applied
                          /\ p = ToldMore.part /\ l = ToldMore.line
      BY <1>2, <1>4
    <2>4. Knows(d1, p, l)
      BY <1>1, <1>2, <2>2, <2>3, Heeds
    <2> QED
      BY <1>2, <2>3, <2>4, Zenon DEF Knows
  <1>7. Mapped'
    BY <1>1, <1>2, MappedFrame
  <1>8. Settled' /\ Remembered' /\ Accounted' /\ Connected'
    BY <1>1, <1>2, Zenon DEF Telling, Settled, Remembered, Accounted, Connected
  <1> QED
    BY <1>3, <1>5, <1>6, <1>7, <1>8 DEF FieldsInv

LEMMA LoseStep ==
  ASSUME FieldsInv, LoseLine
  PROVE  FieldsInv'
  <1>1. TypeOK /\ Positioned /\ Faithful /\ Mapped /\ Settled /\ Remembered /\ Accounted
          /\ Connected
    BY DEF FieldsInv
  <1>2. /\ Telling /\ told' = ToldMore /\ gaps.count < MaxLost
        /\ UNCHANGED <<firmware, awake, desc, link, wake, known, front, fault, exchange, flashes>>
    BY DEF LoseLine
  <1>3. told' \in [part : 0 .. Len(firmware) + 1, line : 0 .. 4] /\ Positioned'
    BY <1>1, <1>2, Advances
  <1>4. /\ gaps'.now = TRUE /\ gaps'.count = gaps.count + 1
        /\ gaps'.first = gaps.first /\ gaps'.origin = gaps.origin
        /\ gaps' \in [now : BOOLEAN, first : BOOLEAN, count : 0 .. MaxLost, origin : Firmwares]
    <2>1. gaps \in [now : BOOLEAN, first : BOOLEAN, count : 0 .. MaxLost, origin : Firmwares]
      BY <1>1 DEF TypeOK
    <2>2. gaps' = [gaps EXCEPT !.now = TRUE, !.count = gaps.count + 1]
      BY DEF LoseLine
    <2>3. gaps.count + 1 \in 0 .. MaxLost
      BY <1>2, <2>1, RosFieldsAssumption
    <2> QED
      BY <2>1, <2>2, <2>3
  <1>5. TypeOK'
    BY <1>1, <1>2, <1>3, <1>4 DEF TypeOK
  <1>6. Faithful'
    BY <1>4 DEF Faithful
  <1>7. Mapped'
    BY <1>1, <1>2, MappedFrame
  <1>8. Settled' /\ Remembered' /\ Connected'
    BY <1>1, <1>2, <1>4, Zenon DEF Telling, Settled, Remembered, Connected
  <1>9. Accounted'
    BY <1>1, <1>2, <1>4 DEF Accounted, TypeOK
  <1> QED
    BY <1>3, <1>5, <1>6, <1>7, <1>8, <1>9 DEF FieldsInv

(* Who has said everything, and was heard, is known. *)
LEMMA Described ==
  ASSUME TypeOK, Positioned, Faithful, ~gaps.now, told.part > Len(firmware)
  PROVE  desc \in BoardDescriptors /\ desc = Whole(firmware)
  <1>1. PICK n \in Nat : n = Len(firmware) /\ DOMAIN firmware = 1 .. n
                          /\ firmware \in Seq(FieldFunctions)
    BY FirmwareFacts DEF TypeOK
  <1>2. told.part = n + 1 /\ told.line = 0
    BY <1>1, PositionFacts DEF Positioned
  <1>3. Knows(desc, n + 1, 0)
    BY <1>2 DEF Faithful
  <1>4. /\ desc \in BoardDescriptors /\ desc.board = Titles /\ Len(desc.ffs) = n
        /\ \A i \in 1 .. n : desc.ffs[i] = firmware[i]
    BY <1>1, <1>3 DEF Knows
  <1>5. PICK s \in Seq(FieldFunctions) : s = desc.ffs
    BY <1>4, ElementsSeq
  <1>6. s = firmware
    BY <1>1, <1>4, <1>5, SeqEqual
  <1>7. desc = [board |-> desc.board, ffs |-> desc.ffs]
    BY <1>4 DEF BoardDescriptors
  <1> QED
    BY <1>4, <1>5, <1>6, <1>7 DEF Whole

LEMMA NewStep ==
  ASSUME FieldsInv, RegisterNew
  PROVE  FieldsInv'
  <1>1. TypeOK /\ Positioned /\ Faithful /\ Mapped /\ Settled /\ Remembered /\ Accounted
          /\ Connected
    BY DEF FieldsInv
  <1>2. /\ InitComplete /\ desc # NoDescriptor /\ known = NoDescriptor
        /\ NewBoardFaults(desc) = {}
        /\ known' = desc /\ front' = FrontEnd(desc) /\ link' = "up"
        /\ gaps' = [gaps EXCEPT !.first = gaps.now, !.origin = firmware]
        /\ UNCHANGED <<firmware, awake, told, desc, wake, fault, exchange, flashes>>
    BY DEF RegisterNew
  <1>3. /\ gaps'.now = gaps.now /\ gaps'.first = gaps.now /\ gaps'.origin = firmware
        /\ gaps'.count = gaps.count
        /\ gaps' \in [now : BOOLEAN, first : BOOLEAN, count : 0 .. MaxLost, origin : Firmwares]
    BY <1>1, <1>2 DEF TypeOK
  <1>4. front'.desc = desc
    BY <1>2 DEF FrontEnd
  <1>5. TypeOK'
    BY <1>1, <1>2, <1>3, <1>4 DEF TypeOK
  <1>6. Positioned' /\ Faithful'
    BY <1>1, <1>2, <1>3, PositionedFrame, FaithfulFrame
  <1>7. Mapped'
    BY <1>2, Zenon DEF Mapped
  <1>8. Settled'
    BY <1>2, Zenon DEF Settled, InitComplete
  <1>9. Remembered'
    <2>1. ~gaps.now => desc = Whole(firmware)
      BY <1>1, <1>2, Described DEF InitComplete
    <2> QED
      BY <1>2, <1>3, <2>1, Zenon DEF Remembered
  <1>10. Accounted' /\ Connected'
    BY <1>1, <1>2, <1>3, Zenon DEF Accounted, Connected
  <1> QED
    BY <1>5, <1>6, <1>7, <1>8, <1>9, <1>10 DEF FieldsInv

LEMMA AgainStep ==
  ASSUME FieldsInv, RegisterAgain
  PROVE  FieldsInv'
  <1>1. TypeOK /\ Positioned /\ Faithful /\ Mapped /\ Settled /\ Remembered /\ Accounted
          /\ Connected
    BY DEF FieldsInv
  <1>2. /\ InitComplete /\ desc # NoDescriptor /\ known # NoDescriptor /\ known = desc
        /\ link' \in {"up", "held"}
        /\ UNCHANGED <<firmware, awake, told, desc, wake, known, front, fault, exchange, gaps,
                       flashes>>
    BY DEF RegisterAgain, SameDescription
  <1>3. front.desc = known
    BY <1>1, <1>2 DEF Mapped, FrontEnd
  <1>4. TypeOK'
    BY <1>1, <1>2, <1>3 DEF TypeOK
  <1>5. Positioned' /\ Faithful' /\ Mapped'
    BY <1>1, <1>2, PositionedFrame, FaithfulFrame, MappedFrame
  <1>6. Settled'
    BY <1>2, Zenon DEF Settled, InitComplete
  <1>7. Remembered' /\ Accounted'
    BY <1>1, <1>2, Zenon DEF Remembered, Accounted
  <1>8. Connected'
    BY <1>1, <1>2 DEF Connected, InitComplete
  <1> QED
    BY <1>4, <1>5, <1>6, <1>7, <1>8 DEF FieldsInv

LEMMA TakeOverStep ==
  ASSUME FieldsInv, TakeOver
  PROVE  FieldsInv'
  <1>1. TypeOK /\ Positioned /\ Faithful /\ Mapped /\ Settled /\ Remembered /\ Accounted
          /\ Connected
    BY DEF FieldsInv
  <1>2. /\ link = "held" /\ link' = "up"
        /\ UNCHANGED <<firmware, awake, told, desc, wake, known, front, fault, exchange, gaps,
                       flashes>>
    BY DEF TakeOver
  <1>3. TypeOK'
    BY <1>1, <1>2 DEF TypeOK
  <1>4. Positioned' /\ Faithful' /\ Mapped'
    BY <1>1, <1>2, PositionedFrame, FaithfulFrame, MappedFrame
  <1>5. Settled' /\ Connected'
    BY <1>1, <1>2 DEF Settled, Connected
  <1>6. Remembered' /\ Accounted'
    BY <1>1, <1>2, Zenon DEF Remembered, Accounted
  <1> QED
    BY <1>3, <1>4, <1>5, <1>6 DEF FieldsInv

LEMMA RejoinStep ==
  ASSUME FieldsInv, Rejoin
  PROVE  FieldsInv'
  <1>1. TypeOK /\ Positioned /\ Faithful /\ Mapped /\ Settled /\ Remembered /\ Accounted
          /\ Connected
    BY DEF FieldsInv
  <1>2. /\ \/ UNCHANGED <<firmware, flashes>>
           \/ flashes < MaxFlashes /\ flashes' = flashes + 1 /\ firmware' \in Firmwares
        /\ awake' \in BOOLEAN /\ told' = Nothing /\ desc' = NoDescriptor
        /\ link' = "joining" /\ wake' = FALSE /\ gaps' = [gaps EXCEPT !.now = FALSE]
        /\ exchange' = Quiet /\ UNCHANGED <<known, front, fault>>
    BY DEF Rejoin
  <1>3. flashes \in 0 .. MaxFlashes /\ MaxFlashes \in Nat
    BY <1>1, RosFieldsAssumption DEF TypeOK
  <1>4. firmware' \in Firmwares /\ flashes' \in 0 .. MaxFlashes
    BY <1>1, <1>2, <1>3 DEF TypeOK
  <1>5. Len(firmware') \in Nat
    BY <1>4, FirmwareFacts
  <1>6. told'.part = 0 /\ told'.line = 0
        /\ told' \in [part : 0 .. Len(firmware') + 1, line : 0 .. 4]
    BY <1>2, <1>5 DEF Nothing
  <1>7. /\ gaps'.now = FALSE /\ gaps'.first = gaps.first /\ gaps'.origin = gaps.origin
        /\ gaps'.count = gaps.count
        /\ gaps' \in [now : BOOLEAN, first : BOOLEAN, count : 0 .. MaxLost, origin : Firmwares]
    BY <1>1, <1>2 DEF TypeOK
  <1>8. TypeOK'
    BY <1>1, <1>2, <1>4, <1>6, <1>7 DEF TypeOK, Quiet
  <1>9. Positioned'
    BY <1>5, <1>6, IntroductionLines DEF Positioned, Part
  <1>10. Faithful'
    BY <1>2, <1>6, Zenon DEF Faithful, Knows
  <1>11. Mapped'
    BY <1>1, <1>2, MappedFrame
  <1>12. Settled' /\ Connected' /\ Remembered'
    BY <1>1, <1>2, <1>7 DEF Settled, Connected, Remembered, Quiet
  <1>13. Accounted'
    <2>1. flashes' = 0 => firmware' = firmware /\ flashes = 0
      BY <1>2, <1>3
    <2> QED
      BY <1>1, <1>7, <2>1 DEF Accounted
  <1> QED
    BY <1>8, <1>9, <1>10, <1>11, <1>12, <1>13 DEF FieldsInv

LEMMA FirstState ==
  ASSUME Init
  PROVE  FieldsInv
  <1>1. /\ firmware \in Firmwares /\ awake \in BOOLEAN /\ told = Nothing
        /\ desc = NoDescriptor /\ link = "joining" /\ wake = FALSE
        /\ known = NoDescriptor /\ front = NoFrontEnd /\ fault = "none" /\ exchange = Quiet
        /\ gaps = [now |-> FALSE, first |-> FALSE, count |-> 0, origin |-> firmware]
        /\ flashes = 0
    BY DEF Init
  <1>2. Len(firmware) \in Nat
    BY <1>1, FirmwareFacts
  <1>3. /\ told.part = 0 /\ told.line = 0
        /\ told \in [part : 0 .. Len(firmware) + 1, line : 0 .. 4]
    BY <1>1, <1>2 DEF Nothing
  <1>4. 0 \in 0 .. MaxLost /\ 0 \in 0 .. MaxFlashes
    BY RosFieldsAssumption
  <1>5. front.desc = NoDescriptor
    BY <1>1 DEF NoFrontEnd
  <1>6. /\ gaps.now = FALSE /\ gaps.first = FALSE /\ gaps.count = 0 /\ gaps.origin = firmware
        /\ gaps \in [now : BOOLEAN, first : BOOLEAN, count : 0 .. MaxLost, origin : Firmwares]
    BY <1>1, <1>4
  <1>7. TypeOK
    BY <1>1, <1>3, <1>4, <1>5, <1>6 DEF TypeOK, Quiet
  <1>8. Positioned
    BY <1>2, <1>3, IntroductionLines DEF Positioned, Part
  <1>9. Faithful
    BY <1>1, <1>3, Zenon DEF Faithful, Knows
  <1>10. Mapped /\ Settled /\ Remembered /\ Connected
    BY <1>1 DEF Mapped, Settled, Remembered, Connected, Quiet
  <1>11. Accounted
    BY <1>1, <1>6 DEF Accounted
  <1> QED
    BY <1>7, <1>8, <1>9, <1>10, <1>11 DEF FieldsInv

LEMMA DyingStep ==
  ASSUME FieldsInv, NEW why \in BoardFaults, Dies(why)
  PROVE  FieldsInv'
  <1>1. awake \in BOOLEAN /\ wake \in BOOLEAN
    BY DEF FieldsInv, TypeOK
  <1>2. UNCHANGED <<firmware, awake, told, desc, link, wake, known, front, exchange, gaps,
                    flashes>>
    BY DEF Dies, connection
  <1>3. fault' \in Faults
    BY DEF Dies, BoardFaults
  <1> QED
    BY <1>1, <1>2, <1>3, OtherStep

(* What the server may die of in each step. *)
LEMMA DeadlySteps ==
  /\ BadLine => \E why \in BoardFaults : Dies(why)
  /\ BadHandshake => \E why \in BoardFaults : Dies(why)
  /\ \A i, words : BadData(i, words) => \E why \in BoardFaults : Dies(why)
  <1>1. BadLine => \E why \in BoardFaults : Dies(why)
    <2>1. DescriptionFaults \subseteq BoardFaults
      BY FaultFacts DEF DescriptionFaults, Faults, BoardFaults
    <2> QED
      BY <2>1 DEF BadLine
  <1>2. BadHandshake => \E why \in BoardFaults : Dies(why)
    <2>1. NewBoardFaults(desc) \subseteq BoardFaults
      BY FaultFacts DEF Faults, BoardFaults
    <2>2. {"no_descriptor", "function", "descriptor_conflict"} \subseteq BoardFaults
      BY DEF Faults, BoardFaults
    <2> QED
      BY <2>1, <2>2, Zenon DEF BadHandshake
  <1>3. ASSUME NEW i, NEW words, BadData(i, words)
        PROVE  \E why \in BoardFaults : Dies(why)
    BY <1>3, FaultFacts, Zenon DEF BadData
  <1> QED
    BY <1>1, <1>2, <1>3

(* A message the server dies of. *)
LEMMA Refused ==
  ASSUME NEW k, NEW words, BadMessage(k, words)
  PROVE  /\ Alive /\ fault' \in {"wrong_length", "too_long"}
         /\ exchange'.from = "refused"
         /\ exchange'.sent.topic = front.subscribers[k] /\ exchange'.sent.words = words
         /\ UNCHANGED <<firmware, awake, told, desc, link, wake, known, front, gaps, flashes>>
  <1>1. \A flag : OutboundFaults(front, k, words, flag) \subseteq {"wrong_length", "too_long"}
    BY DEF OutboundFaults
  <1>2. \E flag \in BOOLEAN : \E why \in OutboundFaults(front, k, words, flag) : fault' = why
    BY Zenon DEF BadMessage
  <1>3. fault' \in {"wrong_length", "too_long"}
    BY <1>1, <1>2
  <1>4. /\ exchange' = [from |-> "refused",
                        sent |-> [topic |-> front.subscribers[k], words |-> words]]
        /\ UNCHANGED <<firmware, awake, connection, known, front, gaps, flashes>>
        /\ Alive
    BY Zenon DEF BadMessage
  <1> QED
    BY <1>3, <1>4 DEF connection

LEMMA ExchangeStep ==
  ASSUME FieldsInv, Exchange
  PROVE  FieldsInv'
  <1>1. awake \in BOOLEAN /\ wake \in BOOLEAN /\ fault \in Faults \cup {"none"}
    BY DEF FieldsInv, TypeOK
  <1>2. ASSUME NEW i, NEW words, FFDataInbound(i, words)
        PROVE  FieldsInv'
    <2>1. /\ UNCHANGED <<firmware, awake, told, desc, link, wake, known, front, fault, gaps,
                         flashes>>
          /\ link = "up" /\ exchange'.from = "board"
      BY <1>2 DEF FFDataInbound, MaySend, connection
    <2> QED
      BY <1>1, <2>1, OtherStep
  <1>3. ASSUME NEW k, NEW words, FFDataOutbound(k, words)
        PROVE  FieldsInv'
    <2>1. /\ UNCHANGED <<firmware, awake, told, desc, link, wake, known, front, fault, gaps,
                         flashes>>
          /\ link = "up" /\ exchange'.from = "ros"
      BY <1>3 DEF FFDataOutbound, connection
    <2> QED
      BY <1>1, <2>1, OtherStep
  <1>4. ASSUME NEW i, NEW words, BadData(i, words)
        PROVE  FieldsInv'
    BY <1>4, DeadlySteps, DyingStep
  <1>5. ASSUME NEW k, NEW words, BadMessage(k, words)
        PROVE  FieldsInv'
    <2>1. /\ fault' \in Faults /\ exchange'.from = "refused"
          /\ UNCHANGED <<firmware, awake, told, desc, link, wake, known, front, gaps, flashes>>
      BY <1>5, Refused DEF Faults
    <2> QED
      BY <1>1, <2>1, OtherStep
  <1> QED
    BY <1>2, <1>3, <1>4, <1>5, Zenon DEF Exchange

LEMMA FieldsStep ==
  ASSUME FieldsInv, [Next]_vars
  PROVE  FieldsInv'
  <1>1. awake \in BOOLEAN /\ wake \in BOOLEAN /\ fault \in Faults \cup {"none"}
    BY DEF FieldsInv, TypeOK
  <1>2. CASE BadLine
    BY <1>2, DeadlySteps, DyingStep
  <1>3. CASE BadHandshake
    BY <1>3, DeadlySteps, DyingStep
  <1>4. CASE KeepAlive
    BY <1>1, <1>4, OtherStep DEF KeepAlive
  <1>5. CASE \E b \in BOOLEAN : WakeOrSleep(b)
    BY <1>1, <1>5, OtherStep DEF WakeOrSleep, connection
  <1>6. CASE UNCHANGED vars
    BY <1>1, <1>6, OtherStep DEF vars, connection
  <1> QED
    BY <1>2, <1>3, <1>4, <1>5, <1>6, DescriptionStep, LoseStep, NewStep, AgainStep,
       TakeOverStep, RejoinStep, ExchangeStep, Zenon DEF Next

(* The inductive invariant: a description is what was heard of the board, a *)
(* front end is made of the first of them, and who is connected has said    *)
(* all of his, and said the same.                                           *)
THEOREM FieldsInvariant == Spec => []FieldsInv
  <1>1. Init => FieldsInv
    BY FirstState
  <1>2. FieldsInv /\ [Next]_vars => FieldsInv'
    BY FieldsStep
  <1> QED
    BY <1>1, <1>2, PTL DEF Spec

(* The fields, the front end and the positions in a description have their  *)
(* types: every line of a description is applied to one that can take it.   *)
THEOREM TypeCorrect == Spec => []TypeOK
  <1>1. FieldsInv => TypeOK
    BY DEF FieldsInv
  <1> QED
    BY <1>1, FieldsInvariant, PTL

(* A front end is never connected to a board with other fields than its     *)
(* own, as long as one of the two descriptions is whole: HandshakeComplete  *)
(* and BoardManager find out everything else by comparing them.             *)
LEMMA OneLanguage ==
  ASSUME FieldsInv
  PROVE  SpeaksTheSameLanguage
  <1>1. TypeOK /\ Positioned /\ Faithful /\ Mapped /\ Settled /\ Remembered
    BY DEF FieldsInv
  <1> SUFFICES ASSUME link = "up", Trusted PROVE front.desc.ffs = firmware
    BY DEF SpeaksTheSameLanguage
  <1>2. told.part > Len(firmware) /\ desc = known /\ known # NoDescriptor
    BY <1>1 DEF Settled
  <1>3. front.desc = known
    BY <1>1, <1>2 DEF Mapped, FrontEnd
  <1>4. CASE ~gaps.now
    BY <1>1, <1>2, <1>3, <1>4, Described DEF Whole
  <1>5. CASE ~gaps.first /\ gaps.origin = firmware
    BY <1>1, <1>2, <1>3, <1>5 DEF Remembered, Whole
  <1> QED
    BY <1>4, <1>5 DEF Trusted

THEOREM NeverAnotherLanguage == Spec => []SpeaksTheSameLanguage
  <1>1. FieldsInv => SpeaksTheSameLanguage
    BY OneLanguage
  <1> QED
    BY <1>1, FieldsInvariant, PTL

-----------------------------------------------------------------------------
(* What is served.                                                         *)

(* The tables of a front end are those of a description of fields only. *)
LEMMA Served ==
  ASSUME FieldsInv, known # NoDescriptor, NEW ffs, ffs = known.ffs, NEW n, n = Len(ffs)
  PROVE  /\ ffs \in Seq(FieldFunctions) /\ n \in Nat /\ DOMAIN ffs = 1 .. n
         /\ front.desc = known /\ Tables(front, ffs, n)
  <1>1. known \in BoardDescriptors /\ front = FrontEnd(known) /\ NewBoardFaults(known) = {}
    BY DEF FieldsInv, TypeOK, Mapped
  <1>2. ffs \in Seq(FieldFunctions) /\ n \in Nat /\ DOMAIN ffs = 1 .. n
    <2>1. ffs \in Seq(FieldFunctions)
      BY <1>1, ElementsSeq
    <2> QED
      BY <2>1
  <1>3. \A i \in DOMAIN ffs : ffs[i].sort \in {"field", "function"}
    <2>1. \A ff \in FieldFunctions : ff.sort \in {"field", "function"}
      BY DEF FieldFunctions, FieldDescriptors, FunctionDescriptors
    <2> QED
      BY <1>2, <2>1
  <1>4. FrontEnd(known).desc = known /\ Tables(FrontEnd(known), ffs, n)
    BY <1>1, <1>2, <1>3, FrontEndFacts
  <1> QED
    BY <1>1, <1>2, <1>4, Zenon

LEMMA MessageFacts ==
  ASSUME NEW code \in DOMAIN Message
  PROVE  /\ Message[code] # "" /\ code \in DOMAIN TypeSize /\ TypeSize[code] \in 1 .. 255
  <1>1. code \in {"int32_t", "int16_t", "int8_t", "uint32_t", "uint16_t", "uint8_t",
                  "bool", "float", "shortstring", "longstring"}
    BY DEF Message
  <1>2. Message[code] \in {"RubiInt", "RubiUnsignedInt", "RubiBool", "RubiFloat", "RubiString"}
    BY <1>1 DEF Message
  <1>3. code \in DOMAIN TypeSize /\ TypeSize[code] \in 1 .. 255
    BY <1>1 DEF TypeSize
  <1> QED
    BY <1>2, <1>3

(* The size of a field, in the frames of both directions. *)
LEMMA SizeFacts ==
  ASSUME NEW ff \in FieldFunctions, ff.typecode \in DOMAIN Message
  PROVE  Elements(ff) \in Nat /\ GetFFSize(ff) \in Nat
  <1>1. TypeSize[ff.typecode] \in Nat
    <2>1. TypeSize[ff.typecode] \in 1 .. 255
      BY MessageFacts
    <2> QED
      BY <2>1
  <1>2. ff.names \in Seq(STRING)
    BY DEF FieldFunctions, FieldDescriptors, FunctionDescriptors
  <1>3. Elements(ff) \in Nat
    BY <1>2, LenProperties DEF Elements
  <1>4. \A x, y \in Nat : x * y \in Nat
    OBVIOUS
  <1> QED
    BY <1>1, <1>3, <1>4 DEF GetFFSize
-----------------------------------------------------------------------------
(* What kills the server.                                                  *)

(* While it knows what was said, the next line is no surprise. *)
LEMMA NothingWrong ==
  ASSUME TypeOK, Positioned, Telling, Knows(desc, told.part, told.line)
  PROVE  DescriptionFaults = {}
  <1>1. \A tag, value, q, m : Says(tag, value, q, m) => Line.tag = tag
    BY DEF Says
  <1>2. \A q, m : At(q, m) => told.part = q /\ told.line = m
    BY DEF At
  <1>3. CASE told.part = 0
    <2>1. CASE At(0, 0) /\ Says("BOARD_NAME", BoardName, 0, 1)
      <3>1. desc = NoDescriptor
        BY <1>2, <2>1 DEF Knows
      <3>2. Line.tag = "BOARD_NAME"
        BY <1>1, <2>1, Zenon
      <3> QED
        BY <3>1, <3>2 DEF DescriptionFaults
    <2>2. CASE At(0, 1) /\ Says("BOARD_VERSION", BoardVersion, 1, 0)
      <3>1. Line.tag = "BOARD_VERSION"
        BY <1>1, <2>2, Zenon
      <3>2. InfoFaults(desc, "BOARD_VERSION") = {}
        BY BoardLineFaults, TagFacts
      <3>3. desc # NoDescriptor
        <4>1. desc = [board |-> Name, ffs |-> <<>>]
          BY <1>2, <2>2 DEF Knows
        <4>2. "ffs" \in DOMAIN desc /\ "ffs" \notin DOMAIN NoDescriptor
          BY <4>1 DEF NoDescriptor
        <4> QED
          BY <4>2, Zenon
      <3> QED
        BY <3>1, <3>2, <3>3 DEF DescriptionFaults
    <2> QED
      BY <1>3, <2>1, <2>2, IntroductionSaid
  <1>4. CASE told.part # 0
    <2>1. PICK p \in Nat \ {0} : p = told.part /\ p \in 1 .. Len(firmware)
      BY <1>4, PositionFacts DEF Telling
    <2>2. PICK l \in 0 .. 4 : l = told.line
      BY PositionFacts
    <2>3. /\ desc \in BoardDescriptors /\ Len(desc.ffs) = IF l = 0 THEN p - 1 ELSE p
          /\ \A i \in 1 .. (p - 1) : desc.ffs[i] = firmware[i]
          /\ l > 0 => desc.ffs[p] = Begun(firmware[p], l)
      BY <2>1, <2>2 DEF Knows
    <2>4. PICK s \in Seq(FieldFunctions) : s = desc.ffs
      BY <2>3, ElementsSeq
    <2>5. DescriptionFaults = InfoFaults(desc, Line.tag)
      BY <2>3, NoDescriptorApart DEF DescriptionFaults
    <2>6. CASE Line.tag \in NameTags
      <3>1. l = 0
        BY <2>2, <2>6, NameSaid
      <3>2. s = <<>> \/ CheckCompleteness(Newest(s))
        <4>1. CASE p = 1
          <5>1. Len(s) = 0
            BY <2>3, <2>4, <3>1, <4>1
          <5> QED
            BY <2>4, <5>1, EmptySeq
        <4>2. CASE p # 1
          <5>1. PICK q \in 1 .. Len(firmware) : q = p - 1
            BY <2>1, <4>2
          <5>2. Len(s) = q /\ s[q] = firmware[q]
            BY <2>1, <2>3, <2>4, <3>1, <5>1
          <5>3. Tellable(firmware[q])
            BY <5>1, FirmwareFacts DEF TypeOK
          <5> QED
            BY <5>2, <5>3 DEF Newest, Tellable
        <4> QED
          BY <4>1, <4>2
      <3>3. Line.tag \notin BoardTags
        BY <2>6, TagFacts
      <3> QED
        BY <2>4, <2>5, <2>6, <3>2, <3>3, Zenon DEF InfoFaults
    <2>7. CASE Line.tag \notin NameTags
      <3>1. PICK ff \in FieldFunctions : ff = firmware[p] /\ Tellable(ff)
        BY <2>1, FirmwareFacts DEF TypeOK
      <3>2. /\ l > 0 /\ Line.tag \in (IF IsField(ff) THEN FieldTags ELSE FuncTags) \ NameTags
        <4>1. \A q, m : At(q, m) => l = m
          BY <1>2, <2>2, Zenon
        <4>2. CASE IsField(ff)
          <5>1. \/ At(p, 0) /\ Says("FIELD_NAME", ff.name, p, 1)
                \/ At(p, 1) /\ Says("FIELD_TYPE", ff.typecode, p, 2)
                \/ At(p, 2) /\ Says("SUBFIELDS_C", "", p, 3)
                \/ At(p, 3) /\ ff.names = <<>> /\ Says("FIELD_ACCESS", ff.access, p + 1, 0)
                \/ At(p, 3) /\ ff.names # <<>> /\ Says("FIELD_ACCESS", ff.access, p, 4)
                \/ At(p, 4) /\ ff.names # <<>> /\ Says("SUBFIELDS", ff.names, p + 1, 0)
            BY <2>1, <3>1, <4>2, FieldSaid
          <5>2. \/ Line.tag = "FIELD_NAME"
                \/ l = 1 /\ Line.tag = "FIELD_TYPE"
                \/ l = 2 /\ Line.tag = "SUBFIELDS_C"
                \/ l = 3 /\ Line.tag = "FIELD_ACCESS"
                \/ l = 4 /\ Line.tag = "SUBFIELDS"
            BY <1>1, <4>1, <5>1, Zenon
          <5> QED
            BY <2>7, <4>2, <5>2 DEF NameTags, FieldTags
        <4>3. CASE ~IsField(ff)
          <5>1. \/ At(p, 0) /\ Says("FUNC_NAME", ff.name, p, 1)
                \/ At(p, 1) /\ Says("FUNC_OUT_TYPE", ff.out_typecode, p, 2)
                \/ At(p, 2) /\ Says("FUNC_ARGS_TYPE", ff.typecode, p + 1, 0)
            BY <2>1, <3>1, <4>3, FunctionSaid
          <5>2. \/ Line.tag = "FUNC_NAME"
                \/ l = 1 /\ Line.tag = "FUNC_OUT_TYPE"
                \/ l = 2 /\ Line.tag = "FUNC_ARGS_TYPE"
            BY <1>1, <4>1, <5>1, Zenon
          <5> QED
            BY <2>7, <4>3, <5>2 DEF NameTags, FuncTags
        <4> QED
          BY <4>2, <4>3
      <3>3. Len(s) = p /\ s[p] = Begun(ff, l)
        BY <2>3, <2>4, <3>1, <3>2
      <3>4. s # <<>>
        BY <2>1, <3>3, EmptySeq
      <3>5. Newest(s).sort = "field" <=> IsField(ff)
        <4>1. IsField(ff) => Begun(ff, l).sort = "field"
          BY DEF Begun, FieldDescriptor
        <4>2. ~IsField(ff) => Begun(ff, l).sort = "function"
          BY DEF Begun, FunctionDescriptor
        <4> QED
          BY <3>3, <4>1, <4>2 DEF Newest
      <3>6. Line.tag \in IF Newest(s).sort = "field" THEN FieldTags ELSE FuncTags
        BY <3>2, <3>5, Zenon
      <3>7. Line.tag \notin BoardTags
        BY <3>2 DEF FieldTags, FuncTags, BoardTags
      <3> QED
        BY <2>4, <2>5, <2>7, <3>4, <3>6, <3>7, Zenon DEF InfoFaults
    <2> QED
      BY <2>6, <2>7
  <1> QED
    BY <1>3, <1>4

(* Nothing was lost, and the board has the firmware it had. *)
Undamaged == gaps.count = 0 /\ flashes = 0

Unsound == \E i \in DOMAIN firmware : ~Sound(firmware[i])

LEMMA UndamagedFacts ==
  ASSUME FieldsInv, Undamaged
  PROVE  /\ ~gaps.now
         /\ known # NoDescriptor => known.ffs = firmware /\ known = Whole(firmware)
         /\ InitComplete => desc # NoDescriptor /\ desc.ffs = firmware /\ desc = Whole(firmware)
  <1>1. ~gaps.now /\ ~gaps.first /\ gaps.origin = firmware
    BY DEF FieldsInv, Accounted, Undamaged
  <1>2. known # NoDescriptor => known = Whole(firmware)
    BY <1>1 DEF FieldsInv, Remembered
  <1>3. InitComplete => desc # NoDescriptor /\ desc = Whole(firmware)
    BY <1>1, Described, NoDescriptorApart DEF FieldsInv, InitComplete
  <1>4. Whole(firmware).ffs = firmware
    BY DEF Whole
  <1> QED
    BY <1>1, <1>2, <1>3, <1>4, Zenon

LEMMA LineKills ==
  ASSUME FieldsInv, Undamaged
  PROVE  ~BadLine
  <1>1. ~gaps.now
    BY UndamagedFacts
  <1>2. TypeOK /\ Positioned /\ Knows(desc, told.part, told.line)
    BY <1>1 DEF FieldsInv, Faithful
  <1>3. Telling => DescriptionFaults = {}
    BY <1>2, NothingWrong
  <1> QED
    BY <1>3, Zenon DEF BadLine

LEMMA HandshakeKills ==
  ASSUME FieldsInv, Undamaged, BadHandshake
  PROVE  fault' \in {"function", "no_message_type"} /\ Unsound
  <1>1. InitComplete
    BY DEF BadHandshake
  <1>2. desc # NoDescriptor /\ desc.ffs = firmware /\ (known # NoDescriptor => known = desc)
    BY <1>1, UndamagedFacts, Zenon
  <1>3. \A w : Dies(w) => fault' = w
    BY DEF Dies
  <1>4. CASE known = NoDescriptor
    <2>1. PICK w \in NewBoardFaults(desc) : fault' = w
      BY <1>2, <1>3, <1>4, Zenon DEF BadHandshake
    <2>2. fault' \in {"function", "no_message_type"}
      BY <2>1, FaultFacts
    <2>3. Unsound
      <3>1. NewBoardFaults(desc) # {}
        BY <2>1
      <3>2. \/ \E i \in DOMAIN firmware :
                 IsField(firmware[i]) /\ firmware[i].typecode \notin DOMAIN Message
            \/ "function" \in {firmware[i].sort : i \in DOMAIN firmware}
        BY <1>2, <3>1, Zenon DEF NewBoardFaults
      <3>3. ASSUME NEW i \in DOMAIN firmware,
                   IsField(firmware[i]) /\ firmware[i].typecode \notin DOMAIN Message
            PROVE  Unsound
        BY <3>3, Zenon DEF Unsound, Sound
      <3>4. ASSUME NEW i \in DOMAIN firmware, firmware[i].sort = "function"
            PROVE  Unsound
        BY <3>4 DEF Unsound, Sound, IsField
      <3> QED
        BY <3>2, <3>3, <3>4
    <2> QED
      BY <2>2, <2>3
  <1>5. CASE known # NoDescriptor
    <2>1. known = desc /\ SameDescription(known, desc)
      BY <1>2, <1>5 DEF SameDescription
    <2>2. Incomparable(known, desc) /\ fault' = "function"
      BY <1>2, <1>3, <1>5, <2>1, Zenon DEF BadHandshake
    <2>3. PICK i \in DOMAIN firmware : firmware[i].sort = "function"
      BY <1>2, <2>2, Zenon DEF Incomparable
    <2>4. Unsound
      BY <2>3 DEF Unsound, Sound, IsField
    <2> QED
      BY <2>2, <2>4
  <1> QED
    BY <1>4, <1>5

(* The size of what the board sends of a field is the size of the field. *)
LEMMA SentSize ==
  ASSUME NEW ff \in FieldFunctions, ff.typecode \in DOMAIN Message,
         NEW i, ff = firmware[i], NEW words \in Words(ff)
  PROVE  DataSize(Sent(i, words)) = GetFFSize(ff) /\ DOMAIN words = 1 .. Elements(ff)
  <1>1. Elements(ff) \in Nat /\ DOMAIN words = 1 .. Elements(ff)
    BY SizeFacts DEF Words
  <1>2. PICK V : words \in [1 .. Elements(ff) -> V]
    BY DEF Words
  <1>3. Len(words) = Elements(ff)
    BY <1>1, <1>2
  <1>4. Sent(i, words).size = TypeSize[ff.typecode] /\ Sent(i, words).words = words
    BY DEF Sent
  <1> QED
    BY <1>1, <1>3, <1>4, Zenon DEF DataSize, GetFFSize

LEMMA NoTopicApart ==
  ASSUME NEW ff, ff.typecode \in DOMAIN Message
  PROVE  Topic(ff) # NoTopic
  <1>1. Message[ff.typecode] # ""
    BY MessageFacts
  <1>2. Topic(ff).message = Message[ff.typecode] /\ NoTopic.message = ""
    BY DEF Topic, NoTopic
  <1> QED
    BY <1>1, <1>2

(* A front end has room for all the board sends. *)
LEMMA DataArrives ==
  ASSUME FieldsInv, known # NoDescriptor, known.ffs = firmware,
         NEW i \in DOMAIN firmware, FromBoard(firmware[i]), NEW words \in Words(firmware[i])
  PROVE  InboundFaults(front, i, Sent(i, words)) =
           IF GetFFSize(firmware[i]) < 256 THEN {} ELSE {"size"}
  <1>1. PICK n : n = Len(firmware)
    OBVIOUS
  <1>2. /\ firmware \in Seq(FieldFunctions) /\ n \in Nat /\ DOMAIN firmware = 1 .. n
        /\ front.desc = known /\ Tables(front, firmware, n)
    BY <1>1, Served
  <1>3. i \in 1 .. n /\ front.desc.ffs = firmware
    BY <1>2
  <1>4. PICK ff \in FieldFunctions : ff = firmware[i] /\ ff.typecode \in DOMAIN Message
    BY <1>2, <1>3 DEF Tables
  <1>5. front.fftable[i] = i /\ DOMAIN front.publishers = 1 .. n
          /\ front.publishers[i] = Topic(ff)
    BY <1>2, <1>3, <1>4 DEF Tables
  <1>6. Topic(ff) # NoTopic
    BY <1>4, NoTopicApart
  <1>7. PICK g \in Nat : g = GetFFSize(ff) /\ DataSize(Sent(i, words)) = g
    BY <1>4, SizeFacts, SentSize
  <1>8. g = g % 256 <=> g < 256
    OBVIOUS
  <1> QED
    BY <1>3, <1>4, <1>5, <1>6, <1>7, <1>8, Zenon DEF InboundFaults

LEMMA DataKills ==
  ASSUME FieldsInv, Undamaged, NEW i \in DOMAIN firmware, IsField(firmware[i]),
         NEW words \in Words(firmware[i]), BadData(i, words)
  PROVE  fault' = "size" /\ Unsound
  <1>1. link = "up" /\ FromBoard(firmware[i])
    BY DEF BadData, MaySend
  <1>2. known # NoDescriptor /\ known.ffs = firmware
    BY <1>1, UndamagedFacts DEF FieldsInv, Settled
  <1>3. InboundFaults(front, i, Sent(i, words)) =
          IF GetFFSize(firmware[i]) < 256 THEN {} ELSE {"size"}
    BY <1>1, <1>2, DataArrives
  <1>4. PICK w \in InboundFaults(front, i, Sent(i, words)) : fault' = w
    BY Zenon DEF BadData, Dies
  <1>5. fault' = "size" /\ ~(GetFFSize(firmware[i]) < 256)
    BY <1>3, <1>4
  <1> QED
    BY <1>5, Zenon DEF Unsound, Sound

(* The length the callback asks for is the number of values of the field. *)
LEMMA LengthAsked ==
  ASSUME NEW ff \in FieldFunctions, ff.typecode \in DOMAIN Message
  PROVE  GetFFSize(ff) \div TypeSize[ff.typecode] = Elements(ff)
  <1>1. PICK e \in Nat : e = Elements(ff)
    BY SizeFacts
  <1>2. PICK t : t = TypeSize[ff.typecode]
    OBVIOUS
  <1>3. t \in {1, 2, 4, 32, 255}
    BY <1>2 DEF Message, TypeSize
  <1>4. GetFFSize(ff) = t * e
    BY <1>1, <1>2, Zenon DEF GetFFSize
  <1>5. (t * e) \div t = e
    BY <1>1, <1>3
  <1> QED
    BY <1>1, <1>2, <1>4, <1>5, Zenon

(* A message is for the field of its topic; if it is too short or too long, *)
(* there is a field it does not fit, and if it cannot be carried, one too   *)
(* big for a frame.                                                         *)
LEMMA MessageKills ==
  ASSUME FieldsInv, front # NoFrontEnd, NEW k \in DOMAIN front.subscribers,
         NEW words, BadMessage(k, words)
  PROVE  \/ /\ fault' = "wrong_length"
            /\ \E i \in DOMAIN front.desc.ffs :
                 /\ Topic(front.desc.ffs[i]) = exchange'.sent.topic
                 /\ Elements(front.desc.ffs[i]) # Len(exchange'.sent.words)
         \/ fault' = "too_long" /\ (Undamaged => Unsound)
  <1>1. known # NoDescriptor
    BY DEF FieldsInv, Mapped
  <1>2. PICK ffs, n : ffs = known.ffs /\ n = Len(ffs)
    OBVIOUS
  <1>3. /\ ffs \in Seq(FieldFunctions) /\ n \in Nat /\ DOMAIN ffs = 1 .. n
        /\ front.desc = known /\ Tables(front, ffs, n)
    BY <1>1, <1>2, Served
  <1>4. /\ k \in 1 .. n /\ front.fieldtable[k] = k
        /\ front.subscribers[k] = Topic(ffs[k])
    BY <1>3 DEF Tables
  <1>5. PICK ff \in FieldFunctions : ff = ffs[k] /\ ff.typecode \in DOMAIN Message
    BY <1>3, <1>4 DEF Tables
  <1>6. front.desc.ffs[GetFieldFfid(front, k)] = ff
    BY <1>2, <1>3, <1>4, <1>5, Zenon DEF GetFieldFfid
  <1>7. PICK flag : fault' \in OutboundFaults(front, k, words, flag)
    BY Zenon DEF BadMessage
  <1>8. \/ fault' = "wrong_length" /\ GetFFSize(ff) \div TypeSize[ff.typecode] # Len(words)
        \/ fault' = "too_long" /\ GetFFSize(ff) >= 256
    BY <1>6, <1>7 DEF OutboundFaults
  <1>9. CASE fault' = "wrong_length" /\ GetFFSize(ff) \div TypeSize[ff.typecode] # Len(words)
    <2>1. Elements(ff) # Len(words)
      BY <1>5, <1>9, LengthAsked
    <2>2. exchange'.sent.topic = Topic(ff) /\ exchange'.sent.words = words
      BY <1>4, <1>5, Refused
    <2>3. k \in DOMAIN front.desc.ffs /\ front.desc.ffs[k] = ff
      BY <1>2, <1>3, <1>4, <1>5
    <2> QED
      BY <1>9, <2>1, <2>2, <2>3, Zenon
  <1>10. CASE fault' = "too_long" /\ GetFFSize(ff) >= 256
    <2>1. ~(GetFFSize(ff) < 256)
      BY <1>5, <1>10, SizeFacts
    <2>2. Undamaged => ffs = firmware
      BY <1>1, <1>2, UndamagedFacts
    <2> QED
      BY <1>3, <1>4, <1>5, <1>10, <2>1, <2>2, Zenon DEF Unsound, Sound
  <1> QED
    BY <1>8, <1>9, <1>10

(* After its end the server does nothing. *)
LEMMA OnlyTheLiving ==
  ASSUME [Next]_vars
  PROVE  Alive \/ UNCHANGED vars
  <1>1. ASSUME NEW i, NEW words, FFDataInbound(i, words) \/ BadData(i, words)
        PROVE  Alive
    BY <1>1 DEF FFDataInbound, BadData, MaySend
  <1>2. ASSUME NEW k, NEW words, FFDataOutbound(k, words) \/ BadMessage(k, words)
        PROVE  Alive
    BY <1>2, Zenon DEF FFDataOutbound, BadMessage
  <1>3. Exchange => Alive
    BY <1>1, <1>2, Zenon DEF Exchange
  <1> QED
    BY <1>3 DEF Next, DescriptionDataInbound, LoseLine, BadLine, Telling, RegisterNew,
       RegisterAgain, TakeOver, BadHandshake, InitComplete, Rejoin, KeepAlive, WakeOrSleep

LEMMA DeathStep ==
  ASSUME FieldsInv, OnlyDamageKills, [Next]_vars
  PROVE  OnlyDamageKills'
  <1>1. CASE UNCHANGED vars
    BY <1>1, Zenon DEF OnlyDamageKills, Misfit, vars, connection
  <1>2. CASE fault' = fault /\ Alive
    BY <1>2 DEF OnlyDamageKills, Alive
  <1>3. ASSUME fault' # "wrong_length", UNCHANGED <<firmware, gaps, flashes>>,
               Undamaged =>
                 fault' \in {"function", "no_message_type", "size", "too_long"} /\ Unsound
        PROVE  OnlyDamageKills'
    <2>1. ~Undamaged => gaps.count > 0 \/ flashes > 0
      BY DEF Undamaged, FieldsInv, TypeOK
    <2>2. Unsound => \E i \in DOMAIN firmware' : ~Sound(firmware'[i])
      BY <1>3, Zenon DEF Unsound
    <2> QED
      BY <1>3, <2>1, <2>2, Zenon DEF OnlyDamageKills
  <1>4. ASSUME NEW why \in BoardFaults, Dies(why),
               Undamaged =>
                 fault' \in {"function", "no_message_type", "size", "too_long"} /\ Unsound
        PROVE  OnlyDamageKills'
    BY <1>3, <1>4 DEF Dies, BoardFaults
  <1>5. CASE BadLine
    <2>1. PICK why \in BoardFaults : Dies(why)
      BY <1>5, DeadlySteps
    <2>2. ~Undamaged
      BY <1>5, LineKills
    <2> QED
      BY <1>4, <2>1, <2>2, Zenon
  <1>6. CASE BadHandshake
    <2>1. PICK why \in BoardFaults : Dies(why)
      BY <1>6, DeadlySteps
    <2>2. Undamaged =>
            fault' \in {"function", "no_message_type", "size", "too_long"} /\ Unsound
      BY <1>6, HandshakeKills
    <2> QED
      BY <1>4, <2>1, <2>2, Zenon
  <1>7. ASSUME NEW i \in DOMAIN firmware, IsField(firmware[i]),
               NEW words \in Words(firmware[i]), BadData(i, words)
        PROVE  OnlyDamageKills'
    <2>1. PICK why \in BoardFaults : Dies(why)
      BY <1>7, DeadlySteps
    <2>2. Undamaged =>
            fault' \in {"function", "no_message_type", "size", "too_long"} /\ Unsound
      BY <1>7, DataKills
    <2> QED
      BY <1>4, <2>1, <2>2, Zenon
  <1>8. ASSUME front # NoFrontEnd, NEW k \in DOMAIN front.subscribers, NEW words,
               BadMessage(k, words)
        PROVE  OnlyDamageKills'
    <2>1. UNCHANGED <<firmware, front, gaps, flashes>>
      BY <1>8, Refused
    <2>2. CASE /\ fault' = "wrong_length"
               /\ \E i \in DOMAIN front.desc.ffs :
                    /\ Topic(front.desc.ffs[i]) = exchange'.sent.topic
                    /\ Elements(front.desc.ffs[i]) # Len(exchange'.sent.words)
      BY <2>1, <2>2, Zenon DEF OnlyDamageKills, Misfit
    <2>3. CASE fault' = "too_long" /\ (Undamaged => Unsound)
      BY <1>3, <2>1, <2>3
    <2> QED
      BY <1>8, <2>2, <2>3, MessageKills
  <1>9. CASE Alive /\ Exchange
    <2>1. ASSUME NEW i, NEW words, FFDataInbound(i, words)
          PROVE  fault' = fault
      BY <2>1 DEF FFDataInbound
    <2>2. ASSUME NEW k, NEW words, FFDataOutbound(k, words)
          PROVE  fault' = fault
      BY <2>2 DEF FFDataOutbound
    <2> QED
      BY <1>2, <1>7, <1>8, <1>9, <2>1, <2>2, ZenonT(60) DEF Exchange
  <1>10. CASE Alive /\ fault' # fault /\ Next /\ ~BadLine /\ ~BadHandshake /\ ~Exchange
    BY <1>10 DEF Next, DescriptionDataInbound, LoseLine, RegisterNew, RegisterAgain, TakeOver,
       Rejoin, KeepAlive, WakeOrSleep
  <1> QED
    BY <1>1, <1>2, <1>5, <1>6, <1>9, <1>10, OnlyTheLiving, Zenon

(* The server dies of a line that was lost, of new firmware under an old    *)
(* name, of a message with more or fewer values than the field of its       *)
(* topic, or of a field or function it cannot serve; no assertion and no    *)
(* exception of the description builder, of HandshakeComplete or of the     *)
(* front end meets a board that says all it has and has only fields that    *)
(* fit in a frame, or a message with as many values as its field.           *)
THEOREM DamageAlone == Spec => []OnlyDamageKills
  <1>1. Init => OnlyDamageKills
    BY DEF Init, OnlyDamageKills
  <1>2. FieldsInv /\ OnlyDamageKills /\ [Next]_vars => OnlyDamageKills'
    BY DeathStep
  <1> QED
    BY <1>1, <1>2, FieldsInvariant, PTL DEF Spec

-----------------------------------------------------------------------------
(* Field data.                                                             *)

(* Data comes of an exchange, and stays until the board starts again. *)
LEMMA ExchangeKept ==
  ASSUME FieldsInv, [Next]_vars
  PROVE  \/ exchange'.from = "nobody"
         \/ UNCHANGED <<exchange, gaps, firmware>>
         \/ \E i \in DOMAIN firmware : IsField(firmware[i]) /\
              \E words \in Words(firmware[i]) : FFDataInbound(i, words)
         \/ front # NoFrontEnd /\ \E k \in DOMAIN front.subscribers :
              \E words : FFDataOutbound(k, words)
         \/ exchange'.from = "refused"
  <1>1. ASSUME Telling \/ InitComplete, UNCHANGED exchange
        PROVE  exchange'.from = "nobody"
    BY <1>1, Zenon DEF FieldsInv, Connected, Telling, InitComplete
  <1>2. \A why : Dies(why) => UNCHANGED <<exchange, gaps, firmware>>
    BY DEF Dies
  <1>3. CASE DescriptionDataInbound \/ LoseLine \/ RegisterNew \/ RegisterAgain
    BY <1>1, <1>3 DEF DescriptionDataInbound, LoseLine, RegisterNew, RegisterAgain
  <1>4. CASE BadLine \/ BadHandshake
    BY <1>2, <1>4, DeadlySteps, Zenon
  <1>5. CASE Rejoin
    BY <1>5 DEF Rejoin, Quiet
  <1>6. CASE TakeOver \/ KeepAlive \/ (\E b \in BOOLEAN : WakeOrSleep(b)) \/ UNCHANGED vars
    BY <1>6 DEF TakeOver, KeepAlive, WakeOrSleep, vars
  <1>7. CASE Exchange
    BY <1>2, <1>7, DeadlySteps, Refused, ZenonT(60) DEF Exchange
  <1> QED
    BY <1>3, <1>4, <1>5, <1>6, <1>7, Zenon DEF Next

LEMMA TrustFrame ==
  ASSUME UNCHANGED <<gaps, firmware>>
  PROVE  Trusted' <=> Trusted
  BY Zenon DEF Trusted

(* Connected, both mean the same by every field. *)
LEMMA Agreed ==
  ASSUME FieldsInv, link = "up", Trusted
  PROVE  known # NoDescriptor /\ known.ffs = firmware
  <1>1. front.desc.ffs = firmware
    BY OneLanguage DEF SpeaksTheSameLanguage
  <1>2. known # NoDescriptor
    BY DEF FieldsInv, Settled
  <1>3. front.desc = known
    BY <1>2 DEF FieldsInv, Mapped, FrontEnd
  <1> QED
    BY <1>1, <1>2, <1>3

LEMMA TopicStep ==
  ASSUME FieldsInv, RightTopic, [Next]_vars
  PROVE  RightTopic'
  <1>1. CASE exchange'.from = "nobody"
    BY <1>1 DEF RightTopic
  <1>2. CASE UNCHANGED <<exchange, gaps, firmware>>
    BY <1>2, TrustFrame, Zenon DEF RightTopic
  <1>3. ASSUME NEW i \in DOMAIN firmware, IsField(firmware[i]),
               NEW words \in Words(firmware[i]), FFDataInbound(i, words)
        PROVE  RightTopic'
    <2>1. /\ link = "up" /\ FromBoard(firmware[i]) /\ UNCHANGED <<gaps, firmware>>
          /\ exchange'.sent.topic = Topic(firmware[i]) /\ exchange'.sent.words = words
          /\ exchange'.got.topic = Published(front, i, Sent(i, words)).topic
          /\ exchange'.got.words = Published(front, i, Sent(i, words)).words
      BY <1>3 DEF FFDataInbound, MaySend
    <2> SUFFICES ASSUME Trusted
                 PROVE  /\ exchange'.got.topic = exchange'.sent.topic
                        /\ \A j \in DOMAIN exchange'.sent.words :
                             exchange'.got.words[j] = exchange'.sent.words[
                               IF exchange'.sent.topic.message = "RubiString" THEN 1 ELSE j]
      BY <2>1, TrustFrame, Zenon DEF RightTopic
    <2>2. known # NoDescriptor /\ known.ffs = firmware
      BY <2>1, Agreed
    <2>3. PICK n : n = Len(firmware)
      OBVIOUS
    <2>4. /\ firmware \in Seq(FieldFunctions) /\ n \in Nat /\ DOMAIN firmware = 1 .. n
          /\ front.desc = known /\ Tables(front, firmware, n)
      BY <2>2, <2>3, Served
    <2>5. front.fftable[i] = i /\ front.publishers[i] = Topic(firmware[i])
      BY <2>1, <2>4 DEF Tables
    <2>6. PICK ff : ff = firmware[i]
      OBVIOUS
    <2>7. /\ Published(front, i, Sent(i, words)).topic = Topic(ff)
          /\ Published(front, i, Sent(i, words)).words = Interpret(ff.typecode, words)
      <3>1. Sent(i, words).words = words
        BY DEF Sent
      <3> QED
        BY <2>2, <2>4, <2>5, <2>6, <3>1 DEF Published
    <2>8. Topic(ff).message = Message[ff.typecode]
      BY DEF Topic
    <2>9. CASE Message[ff.typecode] = "RubiString"
      <3>1. Interpret(ff.typecode, words) = [j \in DOMAIN words |-> words[1]]
        BY <2>9 DEF Interpret
      <3> QED
        BY <2>1, <2>6, <2>7, <2>8, <2>9, <3>1
    <2>10. CASE Message[ff.typecode] # "RubiString"
      <3>1. Interpret(ff.typecode, words) = words
        BY <2>10 DEF Interpret
      <3> QED
        BY <2>1, <2>6, <2>7, <2>8, <2>10, <3>1
    <2> QED
      BY <2>9, <2>10
  <1>4. ASSUME NEW k, NEW words, FFDataOutbound(k, words)
        PROVE  RightTopic'
    BY <1>4 DEF FFDataOutbound, RightTopic
  <1>5. CASE exchange'.from = "refused"
    BY <1>5 DEF RightTopic
  <1> QED
    BY <1>1, <1>2, <1>3, <1>4, <1>5, ExchangeKept, Zenon

(* What FFDataInbound publishes is on the topic of the field that was sent, *)
(* as it was sent.                                                          *)
THEOREM OnItsOwnTopic == Spec => []RightTopic
  <1>1. Init => RightTopic
    BY DEF Init, RightTopic, Quiet
  <1>2. FieldsInv /\ RightTopic /\ [Next]_vars => RightTopic'
    BY TopicStep
  <1> QED
    BY <1>1, <1>2, FieldsInvariant, PTL DEF Spec

(* The narrowing of an integer keeps the values its type can hold. *)
LEMMA Narrowed ==
  ASSUME NEW ff, ff.typecode \in DOMAIN Message, NEW w, InRange(ff, w)
  PROVE  Deinterpret(ff.typecode, w) = w
  <1>1. PICK code, m : code = ff.typecode /\ m = Width(code)
    OBVIOUS
  <1>2. m \in Nat /\ (m = 256 \/ m = 65536)
    BY <1>1 DEF Width
  <1>3. CASE code \in {"int8_t", "int16_t"}
    <2>1. w \in -(m \div 2) .. (m \div 2) - 1
      BY <1>1, <1>3 DEF InRange
    <2>2. Deinterpret(code, w) = IF 2 * (w % m) >= m THEN (w % m) - m ELSE w % m
      BY <1>1, <1>3 DEF Deinterpret
    <2>3. w \in Int /\ w % m = IF w < 0 THEN w + m ELSE w
      BY <1>2, <2>1
    <2> QED
      BY <1>1, <1>2, <2>1, <2>2, <2>3
  <1>4. CASE code \in {"uint8_t", "uint16_t"}
    <2>1. w \in 0 .. m - 1
      BY <1>1, <1>4 DEF InRange
    <2>2. Deinterpret(code, w) = w % m
      BY <1>1, <1>4 DEF Deinterpret
    <2> QED
      BY <1>1, <1>2, <2>1, <2>2
  <1>5. CASE code \notin {"int8_t", "int16_t", "uint8_t", "uint16_t"}
    <2>1. Deinterpret(code, w) = w
      BY <1>5 DEF Deinterpret
    <2> QED
      BY <1>1, <2>1
  <1> QED
    BY <1>3, <1>4, <1>5

LEMMA FieldStep ==
  ASSUME FieldsInv, RightField, [Next]_vars
  PROVE  RightField'
  <1>1. CASE exchange'.from = "nobody"
    BY <1>1 DEF RightField
  <1>2. CASE UNCHANGED <<exchange, gaps, firmware>>
    BY <1>2, TrustFrame DEF RightField
  <1>3. ASSUME NEW i, NEW words, FFDataInbound(i, words)
        PROVE  RightField'
    BY <1>3 DEF FFDataInbound, RightField
  <1>4. ASSUME front # NoFrontEnd, NEW k \in DOMAIN front.subscribers,
               NEW words, FFDataOutbound(k, words)
        PROVE  RightField'
    <2>1. PICK out : out = Outbound(front, k, words)
      OBVIOUS
    <2>2. /\ link = "up" /\ UNCHANGED <<gaps, firmware>>
          /\ exchange'.sent.topic = front.subscribers[k] /\ exchange'.sent.words = words
          /\ exchange'.got.topic = IF out.ffid \in DOMAIN firmware
                                   THEN Topic(firmware[out.ffid]) ELSE NoTopic
          /\ exchange'.got.words = out.words
      BY <1>4, <2>1 DEF FFDataOutbound
    <2> SUFFICES ASSUME Trusted
                 PROVE  /\ exchange'.got.topic = exchange'.sent.topic
                        /\ \E ff \in {firmware[i] : i \in DOMAIN firmware} :
                             /\ ff.name = exchange'.sent.topic.name
                             /\ \A i \in DOMAIN exchange'.sent.words :
                                  InRange(ff, exchange'.sent.words[i]) =>
                                    exchange'.got.words[i] = exchange'.sent.words[i]
      BY <2>2, TrustFrame DEF RightField
    <2>3. known # NoDescriptor /\ known.ffs = firmware
      BY <2>2, Agreed
    <2>4. PICK n : n = Len(firmware)
      OBVIOUS
    <2>5. /\ firmware \in Seq(FieldFunctions) /\ n \in Nat /\ DOMAIN firmware = 1 .. n
          /\ front.desc = known /\ Tables(front, firmware, n)
      BY <2>3, <2>4, Served
    <2>6. /\ k \in 1 .. n /\ front.fieldtable[k] = k
          /\ front.subscribers[k] = Topic(firmware[k])
      BY <1>4, <2>5 DEF Tables
    <2>7. PICK ff \in FieldFunctions : ff = firmware[k] /\ ff.typecode \in DOMAIN Message
      BY <2>5, <2>6 DEF Tables
    <2>8. /\ out.ffid = k
          /\ out.words = [i \in DOMAIN words |-> Deinterpret(ff.typecode, words[i])]
      BY <2>1, <2>3, <2>5, <2>6, <2>7 DEF Outbound, GetFieldFfid
    <2>9. exchange'.got.topic = exchange'.sent.topic
      BY <2>2, <2>5, <2>6, <2>8, Zenon
    <2>10. ff.name = exchange'.sent.topic.name
      BY <2>2, <2>6, <2>7 DEF Topic
    <2>11. \A i \in DOMAIN words : InRange(ff, words[i]) => out.words[i] = words[i]
      BY <2>7, <2>8, Narrowed
    <2> QED
      BY <2>2, <2>5, <2>6, <2>7, <2>9, <2>10, <2>11, Zenon
  <1>5. CASE exchange'.from = "refused"
    BY <1>5 DEF RightField
  <1> QED
    BY <1>1, <1>2, <1>3, <1>4, <1>5, ExchangeKept, Zenon

(* What the callback of a field's topic sends is for that field of the      *)
(* board, and what its type can hold is not changed on the way.             *)
THEOREM ToItsOwnField == Spec => []RightField
  <1>1. Init => RightField
    BY DEF Init, RightField, Quiet
  <1>2. FieldsInv /\ RightField /\ [Next]_vars => RightField'
    BY FieldStep
  <1> QED
    BY <1>1, <1>2, FieldsInvariant, PTL DEF Spec

-----------------------------------------------------------------------------
(* What the services say.                                                  *)

LEMMA NamesStep ==
  ASSUME NamesDiffer, FieldsInv, NamesOnce, [Next]_vars
  PROVE  NamesOnce'
  <1>1. TypeOK /\ Positioned
    BY DEF FieldsInv
  <1>2. CASE DescriptionDataInbound
    <2>1. /\ Telling /\ DescriptionFaults = {} /\ told' = ToldMore /\ desc' = Applied
          /\ UNCHANGED <<firmware, known>>
      BY <1>2 DEF DescriptionDataInbound, Applied
    <2>2. PICK d1 : d1 = Applied
      OBVIOUS
    <2>3. Named(d1)'
      BY <1>1, <2>1, <2>2, NamesHeard
    <2> QED
      BY <2>1, <2>2, <2>3, Zenon DEF NamesOnce, Named
  <1>3. CASE LoseLine
    <2>1. Telling /\ told' = ToldMore /\ UNCHANGED <<firmware, desc, known>>
      BY <1>3 DEF LoseLine
    <2>2. DOMAIN firmware = 1 .. Len(firmware) /\ Len(firmware) \in Nat
      BY <1>1, FirmwareFacts DEF TypeOK
    <2>3. \A j \in DOMAIN firmware : Heard(j) => Heard(j)'
      BY <1>1, <2>1, <2>2, HeardMore
    <2> QED
      BY <2>1, <2>3, Zenon DEF NamesOnce, Named
  <1>4. CASE RegisterNew
    <2>1. known' = desc /\ UNCHANGED <<firmware, told, desc>> /\ desc # NoDescriptor
      BY <1>4 DEF RegisterNew
    <2> QED
      BY <2>1, Zenon DEF NamesOnce, Named, Heard
  <1>5. CASE Rejoin
    <2>1. desc' = NoDescriptor /\ known' = known
      BY <1>5 DEF Rejoin
    <2> QED
      BY <2>1, Zenon DEF NamesOnce
  <1>6. CASE UNCHANGED <<firmware, told, desc, known>>
    BY <1>6, Zenon DEF NamesOnce, Named, Heard
  <1>7. \A why : Dies(why) => UNCHANGED <<firmware, told, desc, known>>
    BY DEF Dies, connection
  <1>8. BadLine \/ BadHandshake => UNCHANGED <<firmware, told, desc, known>>
    BY <1>7, DeadlySteps, Zenon
  <1>9. Exchange => UNCHANGED <<firmware, told, desc, known>>
    <2>1. \A i, words : FFDataInbound(i, words) => UNCHANGED <<firmware, told, desc, known>>
      BY DEF FFDataInbound, connection
    <2>2. \A k, words : FFDataOutbound(k, words) => UNCHANGED <<firmware, told, desc, known>>
      BY DEF FFDataOutbound, connection
    <2> QED
      BY <1>7, <2>1, <2>2, DeadlySteps, Refused, ZenonT(60) DEF Exchange
  <1>10. RegisterAgain \/ TakeOver \/ KeepAlive \/ (\E b \in BOOLEAN : WakeOrSleep(b))
           \/ UNCHANGED vars => UNCHANGED <<firmware, told, desc, known>>
    BY DEF RegisterAgain, TakeOver, KeepAlive, WakeOrSleep, vars, connection
  <1> QED
    BY <1>2, <1>3, <1>4, <1>5, <1>6, <1>8, <1>9, <1>10, Zenon DEF Next

LEMMA ServicesRight ==
  ASSUME FieldsInv, NamesOnce
  PROVE  ServicesMatchTopics
  <1> SUFFICES ASSUME front # NoFrontEnd, NEW k \in DOMAIN front.fieldtable,
                      NEW name, name = BoardDescriptor(known).fields[k],
                      NEW d, d = GetFieldDescriptor(known, name)
               PROVE  /\ d.input <=> \E j \in DOMAIN front.subscribers :
                           front.subscribers[j] = [name |-> name, message |-> Message[d.typecode]]
                      /\ d.output <=> \E j \in DOMAIN front.publishers :
                           front.publishers[j] = [name |-> name, message |-> Message[d.typecode]]
    BY Zenon DEF ServicesMatchTopics
  <1>1. known # NoDescriptor
    BY DEF FieldsInv, Mapped
  <1>2. PICK ffs, n : ffs = known.ffs /\ n = Len(ffs)
    OBVIOUS
  <1>3. /\ ffs \in Seq(FieldFunctions) /\ n \in Nat /\ DOMAIN ffs = 1 .. n
        /\ front.desc = known /\ Tables(front, ffs, n)
    BY <1>1, <1>2, Served
  <1>4. \A i, j \in 1 .. n : ffs[i].name = ffs[j].name => i = j
    BY <1>1, <1>2, <1>3, Zenon DEF NamesOnce, Distinct
  <1>5. k \in 1 .. n /\ Fields(ffs) = [j \in 1 .. n |-> j]
    <2>1. front.fieldtable = Fields(ffs)
      BY <1>1, <1>2 DEF FieldsInv, Mapped, FrontEnd
    <2> QED
      BY <1>3, <2>1 DEF Tables
  <1>6. name = ffs[k].name
    <2>1. BoardDescriptor(known).fields = [j \in DOMAIN Fields(ffs) |-> ffs[Fields(ffs)[j]].name]
      BY <1>2, Zenon DEF BoardDescriptor
    <2> QED
      BY <1>5, <2>1
  <1>7. FieldNamed(known, name) = k
    <2>1. /\ ffs[k].name = name /\ \A j \in 1 .. (k - 1) : ffs[j].name # name
          /\ \A i \in 1 .. n : ffs[i].name = name => i = k
      BY <1>3, <1>4, <1>5, <1>6
    <2> QED
      BY <1>2, <1>3, <1>5, <2>1 DEF FieldNamed
  <1>8. PICK ff : ff = ffs[k] /\ ff.typecode \in DOMAIN Message
    BY <1>3, <1>5 DEF Tables
  <1>9. d.typecode = ff.typecode /\ d.input = ToBoard(ff) /\ d.output = FromBoard(ff)
    BY <1>2, <1>7, <1>8 DEF GetFieldDescriptor
  <1>10. [name |-> name, message |-> Message[d.typecode]] = Topic(ff)
    BY <1>6, <1>8, <1>9 DEF Topic
  <1>11. ASSUME NEW j \in 1 .. n, Topic(ffs[j]) = Topic(ff)
         PROVE  j = k
    <2>1. ffs[j].name = ffs[k].name
      BY <1>8, <1>11 DEF Topic
    <2> QED
      BY <1>4, <1>5, <2>1
  <1>12. ToBoard(ff) <=> \E j \in DOMAIN front.subscribers : front.subscribers[j] = Topic(ff)
    <2>1. /\ DOMAIN front.subscribers = {j \in 1 .. n : ToBoard(ffs[j])}
          /\ \A j \in DOMAIN front.subscribers : front.subscribers[j] = Topic(ffs[j])
      BY <1>3 DEF Tables
    <2> QED
      BY <1>5, <1>8, <1>11, <2>1
  <1>13. FromBoard(ff) <=> \E j \in DOMAIN front.publishers : front.publishers[j] = Topic(ff)
    <2>1. /\ DOMAIN front.publishers = 1 .. n
          /\ \A j \in 1 .. n : front.publishers[j] =
                                 IF FromBoard(ffs[j]) THEN Topic(ffs[j]) ELSE NoTopic
      BY <1>3 DEF Tables
    <2>2. Topic(ff) # NoTopic
      BY <1>8, NoTopicApart
    <2> QED
      BY <1>5, <1>8, <1>11, <2>1, <2>2
  <1> QED
    BY <1>9, <1>10, <1>12, <1>13, Zenon

(* If no two fields of a board have one name, get_field_descriptor says of  *)
(* each of them what Init made of it: it has an input exactly if there is a *)
(* subscriber, an output exactly if there is a publisher.  A field is asked *)
(* for by its name and the first of that name is described, so a second of  *)
(* the same name would be described as the first is.                        *)
THEOREM DescribedAsServed ==
  ASSUME NamesDiffer
  PROVE  Spec => []ServicesMatchTopics
  <1>1. Init => NamesOnce
    BY DEF Init, NamesOnce
  <1>2. FieldsInv /\ NamesOnce /\ [Next]_vars => NamesOnce'
    BY NamesStep
  <1>3. FieldsInv /\ NamesOnce => ServicesMatchTopics
    BY ServicesRight
  <1> QED
    BY <1>1, <1>2, <1>3, FieldsInvariant, PTL DEF Spec

-----------------------------------------------------------------------------
(* The fake server.                                                        *)

(* A field of that type, with data for as many values as the main loop      *)
(* makes of it.                                                             *)
Fed(ff, code) ==
  FromBoard(ff) /\ ff.typecode = code /\ Elements(ff) \in {1, 3}

LEMMA FirstFake ==
  ASSUME NEW ffs, ffs = FakeBoards[1]
  PROVE  /\ Len(ffs) = 4 /\ DOMAIN ffs = 1 .. 4
         /\ \A i \in 1 .. 4 : ffs[i].sort = "field" /\ ffs[i].typecode \in DOMAIN Message
         /\ Fed(ffs[3], "int32_t") /\ Fed(ffs[4], "bool")
  <1>1. Len(ffs) = 4 /\ DOMAIN ffs = 1 .. 4
    BY DEF FakeBoards
  <1>2. /\ ffs[1].sort = "field" /\ ffs[1].typecode = "float"
        /\ ffs[1].access = "READONLY" /\ ffs[1].names = <<>>
    <2>1. ffs[1] = Fake("FloatTest", <<>>, "float", "READONLY")
      BY DEF FakeBoards
    <2> QED
      BY <2>1 DEF Fake
  <1>3. /\ ffs[2].sort = "field" /\ ffs[2].typecode = "shortstring"
        /\ ffs[2].access = "WRITEONLY" /\ ffs[2].names = <<>>
    <2>1. ffs[2] = Fake("StringTest", <<>>, "shortstring", "WRITEONLY")
      BY DEF FakeBoards
    <2> QED
      BY <2>1 DEF Fake
  <1>4. /\ ffs[3].sort = "field" /\ ffs[3].typecode = "int32_t"
        /\ ffs[3].access = "READWRITE" /\ ffs[3].names = <<>>
    <2>1. ffs[3] = Fake("IntTest", <<>>, "int32_t", "READWRITE")
      BY DEF FakeBoards
    <2> QED
      BY <2>1 DEF Fake
  <1>5. /\ ffs[4].sort = "field" /\ ffs[4].typecode = "bool"
        /\ ffs[4].access = "READWRITE" /\ ffs[4].names = <<>>
    <2>1. ffs[4] = Fake("BoolTest", <<>>, "bool", "READWRITE")
      BY DEF FakeBoards
    <2> QED
      BY <2>1 DEF Fake
  <1>6. {"bool", "float", "int32_t", "shortstring"} \subseteq DOMAIN Message
    BY DEF Message
  <1>7. \A i \in 1 .. 4 : i = 1 \/ i = 2 \/ i = 3 \/ i = 4
    OBVIOUS
  <1>8. \A i \in 1 .. 4 : ffs[i].sort = "field" /\ ffs[i].typecode \in DOMAIN Message
    BY <1>2, <1>3, <1>4, <1>5, <1>6, <1>7, Zenon
  <1>9. Fed(ffs[3], "int32_t")
    <2>1. FromBoard(ffs[3])
      BY <1>4 DEF FromBoard
    <2>2. Elements(ffs[3]) = 1
      BY <1>4, Zenon DEF Elements
    <2> QED
      BY <1>4, <2>1, <2>2, Zenon DEF Fed
  <1>10. Fed(ffs[4], "bool")
    <2>1. FromBoard(ffs[4])
      BY <1>5 DEF FromBoard
    <2>2. Elements(ffs[4]) = 1
      BY <1>5, Zenon DEF Elements
    <2> QED
      BY <1>5, <2>1, <2>2, Zenon DEF Fed
  <1> QED
    BY <1>1, <1>8, <1>9, <1>10, Zenon

LEMMA SecondFake ==
  ASSUME NEW ffs, ffs = FakeBoards[2]
  PROVE  /\ Len(ffs) = 4 /\ DOMAIN ffs = 1 .. 4
         /\ \A i \in 1 .. 4 : ffs[i].sort = "field" /\ ffs[i].typecode \in DOMAIN Message
         /\ Fed(ffs[3], "int32_t") /\ Fed(ffs[4], "bool")
  <1>1. Len(ffs) = 4 /\ DOMAIN ffs = 1 .. 4
    BY DEF FakeBoards
  <1>2. /\ ffs[1].sort = "field" /\ ffs[1].typecode = "float"
        /\ ffs[1].access = "READONLY" /\ ffs[1].names = <<"Subfield1">>
    <2>1. ffs[1] = Fake("FloatTest", <<"Subfield1">>, "float", "READONLY")
      BY DEF FakeBoards
    <2> QED
      BY <2>1 DEF Fake
  <1>3. /\ ffs[2].sort = "field" /\ ffs[2].typecode = "shortstring"
        /\ ffs[2].access = "WRITEONLY" /\ ffs[2].names = <<"Subfield1", "Subfield2">>
    <2>1. ffs[2] = Fake("StringTest", <<"Subfield1", "Subfield2">>, "shortstring", "WRITEONLY")
      BY DEF FakeBoards
    <2> QED
      BY <2>1 DEF Fake
  <1>4. /\ ffs[3].sort = "field" /\ ffs[3].typecode = "int32_t"
        /\ ffs[3].access = "WRITEONLY" /\ ffs[3].names = <<"Subfield1", "Subfield", "SuBfIlEd">>
    <2>1. ffs[3] = Fake("IntTest", <<"Subfield1", "Subfield", "SuBfIlEd">>, "int32_t", "WRITEONLY")
      BY DEF FakeBoards
    <2> QED
      BY <2>1 DEF Fake
  <1>5. /\ ffs[4].sort = "field" /\ ffs[4].typecode = "bool"
        /\ ffs[4].access = "WRITEONLY" /\ ffs[4].names = <<"Subfield1", "sqi", "SuBfIlEd">>
    <2>1. ffs[4] = Fake("BoolTest", <<"Subfield1", "sqi", "SuBfIlEd">>, "bool", "WRITEONLY")
      BY DEF FakeBoards
    <2> QED
      BY <2>1 DEF Fake
  <1>6. {"bool", "float", "int32_t", "shortstring"} \subseteq DOMAIN Message
    BY DEF Message
  <1>7. \A i \in 1 .. 4 : i = 1 \/ i = 2 \/ i = 3 \/ i = 4
    OBVIOUS
  <1>8. \A i \in 1 .. 4 : ffs[i].sort = "field" /\ ffs[i].typecode \in DOMAIN Message
    BY <1>2, <1>3, <1>4, <1>5, <1>6, <1>7, Zenon
  <1>9. Fed(ffs[3], "int32_t")
    <2>1. FromBoard(ffs[3])
      BY <1>4 DEF FromBoard
    <2>2. Elements(ffs[3]) = 3
      <3>1. \A a, b, c : Len(<<a, b, c>>) = 3 /\ <<a, b, c>> # <<>>
        OBVIOUS
      <3>2. Len(ffs[3].names) = 3 /\ ffs[3].names # <<>>
        BY <1>4, <3>1, Zenon
      <3> QED
        BY <1>4, <3>2, Zenon DEF Elements
    <2> QED
      BY <1>4, <2>1, <2>2, Zenon DEF Fed
  <1>10. Fed(ffs[4], "bool")
    <2>1. FromBoard(ffs[4])
      BY <1>5 DEF FromBoard
    <2>2. Elements(ffs[4]) = 3
      <3>1. \A a, b, c : Len(<<a, b, c>>) = 3 /\ <<a, b, c>> # <<>>
        OBVIOUS
      <3>2. Len(ffs[4].names) = 3 /\ ffs[4].names # <<>>
        BY <1>5, <3>1, Zenon
      <3> QED
        BY <1>5, <3>2, Zenon DEF Elements
    <2> QED
      BY <1>5, <2>1, <2>2, Zenon DEF Fed
  <1> QED
    BY <1>1, <1>8, <1>9, <1>10, Zenon

LEMMA ThirdFake ==
  ASSUME NEW ffs, ffs = FakeBoards[3]
  PROVE  /\ Len(ffs) = 5 /\ DOMAIN ffs = 1 .. 5
         /\ \A i \in 1 .. 5 : ffs[i].sort = "field" /\ ffs[i].typecode \in DOMAIN Message
  <1>1. Len(ffs) = 5 /\ DOMAIN ffs = 1 .. 5
    BY DEF FakeBoards
  <1>2. /\ ffs[1].sort = "field" /\ ffs[1].typecode = "float"
        /\ ffs[1].access = "READONLY" /\ ffs[1].names = <<>>
    <2>1. ffs[1] = Fake("FloatTest", <<>>, "float", "READONLY")
      BY DEF FakeBoards
    <2> QED
      BY <2>1 DEF Fake
  <1>3. /\ ffs[2].sort = "field" /\ ffs[2].typecode = "longstring"
        /\ ffs[2].access = "READONLY" /\ ffs[2].names = <<>>
    <2>1. ffs[2] = Fake("StringTest", <<>>, "longstring", "READONLY")
      BY DEF FakeBoards
    <2> QED
      BY <2>1 DEF Fake
  <1>4. /\ ffs[3].sort = "field" /\ ffs[3].typecode = "shortstring"
        /\ ffs[3].access = "READONLY" /\ ffs[3].names = <<>>
    <2>1. ffs[3] = Fake("StringTest2", <<>>, "shortstring", "READONLY")
      BY DEF FakeBoards
    <2> QED
      BY <2>1 DEF Fake
  <1>5. /\ ffs[4].sort = "field" /\ ffs[4].typecode = "uint32_t"
        /\ ffs[4].access = "READONLY" /\ ffs[4].names = <<>>
    <2>1. ffs[4] = Fake("IntTest", <<>>, "uint32_t", "READONLY")
      BY DEF FakeBoards
    <2> QED
      BY <2>1 DEF Fake
  <1>6. /\ ffs[5].sort = "field" /\ ffs[5].typecode = "uint32_t"
        /\ ffs[5].access = "WRITEONLY" /\ ffs[5].names = <<>>
    <2>1. ffs[5] = Fake("IntTest2", <<>>, "uint32_t", "WRITEONLY")
      BY DEF FakeBoards
    <2> QED
      BY <2>1 DEF Fake
  <1>7. {"float", "longstring", "shortstring", "uint32_t"} \subseteq DOMAIN Message
    BY DEF Message
  <1>8. \A i \in 1 .. 5 : i = 1 \/ i = 2 \/ i = 3 \/ i = 4 \/ i = 5
    OBVIOUS
  <1>9. \A i \in 1 .. 5 : ffs[i].sort = "field" /\ ffs[i].typecode \in DOMAIN Message
    BY <1>2, <1>3, <1>4, <1>5, <1>6, <1>7, <1>8, Zenon
  <1> QED
    BY <1>1, <1>9, Zenon

FakeDescription(b) == [NewDescriptor EXCEPT !.ffs = FakeBoards[b]]

FakeFront(b) == FrontEnd(FakeDescription(b))

(* The front end accepts the made-up descriptions, and two of the boards    *)
(* have fields for the made-up data.                                        *)
LEMMA FakeServed ==
  ASSUME NEW b \in 1 .. 3, NEW d, d = FakeDescription(b), NEW ffs, ffs = FakeBoards[b]
  PROVE  /\ NewBoardFaults(d) = {} /\ FrontEnd(d).desc.ffs = ffs
         /\ b \in Kept => /\ DOMAIN ffs = 1 .. 4 /\ Tables(FrontEnd(d), ffs, 4)
                          /\ Fed(ffs[3], "int32_t") /\ Fed(ffs[4], "bool")
  <1>1. d.ffs = ffs
    BY DEF FakeDescription, NewDescriptor
  <1>2. PICK n \in {4, 5} :
          /\ Len(ffs) = n /\ DOMAIN ffs = 1 .. n
          /\ \A i \in 1 .. n : ffs[i].sort = "field" /\ ffs[i].typecode \in DOMAIN Message
          /\ b \in {1, 2} => n = 4 /\ Fed(ffs[3], "int32_t") /\ Fed(ffs[4], "bool")
    <2>1. CASE b = 1
      BY <2>1, FirstFake
    <2>2. CASE b = 2
      BY <2>2, SecondFake
    <2>3. CASE b = 3
      BY <2>3, ThirdFake
    <2> QED
      BY <2>1, <2>2, <2>3
  <1>3. NewBoardFaults(d) = {}
    <2>1. ~\E i \in DOMAIN ffs : IsField(ffs[i]) /\ ffs[i].typecode \notin DOMAIN Message
      BY <1>2, Zenon
    <2>2. "function" \notin {ffs[i].sort : i \in DOMAIN ffs}
      BY <1>2
    <2> QED
      BY <1>1, <2>1, <2>2, Zenon DEF NewBoardFaults
  <1>4. FrontEnd(d).desc = d /\ Tables(FrontEnd(d), ffs, n)
    <2>1. \A i \in DOMAIN ffs : ffs[i].sort \in {"field", "function"}
      BY <1>2
    <2>2. n \in Nat /\ n = Len(ffs) /\ DOMAIN ffs = 1 .. n
      BY <1>2
    <2> QED
      BY <1>1, <1>3, <2>1, <2>2, FrontEndFacts
  <1> QED
    BY <1>1, <1>2, <1>3, <1>4, Zenon DEF Kept

Equipped(f, ffs) == f.desc.ffs = ffs /\ DOMAIN ffs = 1 .. 4 /\ Tables(f, ffs, 4)

(* Data made for the field, of its size. *)
Suits(data, ff) ==
  /\ FromBoard(ff) /\ ff.typecode \in {"int32_t", "bool"}
  /\ GetFFSize(ff) = DataSize(data) /\ DataSize(data) % 256 = DataSize(data)

Arrives(f, ffs, i, data) ==
  /\ InboundFaults(f, i, data) = {}
  /\ Published(f, i, data) = [topic |-> Topic(ffs[i]), words |-> data.words]

(* Such data is published on its field's topic. *)
LEMMA MadeFits ==
  ASSUME NEW f, NEW ffs, Equipped(f, ffs), NEW i \in 1 .. 4, NEW data, Suits(data, ffs[i])
  PROVE  Arrives(f, ffs, i, data)
  <1>1. ffs[i].typecode \in DOMAIN Message
    BY DEF Equipped, Tables
  <1>2. f.fftable[i] = i /\ DOMAIN f.publishers = 1 .. 4 /\ f.publishers[i] = Topic(ffs[i])
    <2>1. Tables(f, ffs, 4) /\ FromBoard(ffs[i])
      BY DEF Equipped, Suits
    <2> QED
      BY <2>1 DEF Tables
  <1>3. Topic(ffs[i]) # NoTopic
    BY <1>1, NoTopicApart
  <1>4. InboundFaults(f, i, data) = {}
    BY <1>2, <1>3, Zenon DEF Equipped, Suits, InboundFaults
  <1>5. Message[ffs[i].typecode] # "RubiString"
    BY DEF Suits, Message
  <1>6. Interpret(ffs[i].typecode, data.words) = data.words
    BY <1>5, Zenon DEF Interpret
  <1> QED
    BY <1>2, <1>4, <1>6, Zenon DEF Equipped, Arrives, Published

(* The main loop makes a value for every subfield, of four bytes ... *)
LEMMA IntShown ==
  ASSUME NEW f, NEW ffs, Equipped(f, ffs), Fed(ffs[3], "int32_t")
  PROVE  /\ InboundFaults(f, 3, IntData(f)) = {}
         /\ Published(f, 3, IntData(f)).topic = Topic(ffs[3])
         /\ Len(Published(f, 3, IntData(f)).words) = Elements(ffs[3])
  <1>1. PICK m \in {1, 3} : m = Elements(ffs[3])
    BY DEF Fed
  <1>2. FromBoard(ffs[3]) /\ ffs[3].typecode = "int32_t"
    BY DEF Fed
  <1>3. TypeSize[ffs[3].typecode] = 4
    BY <1>2 DEF TypeSize
  <1>4. PICK size \in 0 .. 255 : size = 4 * m /\ size \div 4 = m
    BY <1>1
  <1>5. GetFFSize(ffs[3]) = size
    BY <1>1, <1>3, <1>4 DEF GetFFSize
  <1>6. PICK data, words : data = IntData(f) /\ words = [i \in 1 .. m |-> i - 1]
    OBVIOUS
  <1>7. data = [size |-> 4, words |-> words]
    BY <1>4, <1>5, <1>6, Zenon DEF IntData, Equipped
  <1>8. Len(words) = m
    BY <1>1, <1>6
  <1>9. data.words = words /\ DataSize(data) = size
    BY <1>4, <1>7, <1>8 DEF DataSize
  <1>10. /\ InboundFaults(f, 3, data) = {}
         /\ Published(f, 3, data) = [topic |-> Topic(ffs[3]), words |-> words]
    <2>1. PICK i \in 1 .. 4 : i = 3
      OBVIOUS
    <2>2. FromBoard(ffs[i]) /\ GetFFSize(ffs[i]) = size
      BY <1>2, <1>5, <2>1
    <2>3. ffs[i].typecode \in {"int32_t", "bool"}
      BY <1>2, <2>1
    <2>4. DataSize(data) = size /\ size % 256 = size
      BY <1>4, <1>9
    <2>5. Suits(data, ffs[i])
      BY <2>2, <2>3, <2>4, Zenon DEF Suits
    <2>6. Arrives(f, ffs, i, data)
      BY <2>5, MadeFits
    <2> QED
      BY <1>9, <2>1, <2>6, Zenon DEF Arrives
  <1> QED
    BY <1>1, <1>6, <1>8, <1>10

(* ... or of one. *)
LEMMA BoolShown ==
  ASSUME NEW f, NEW ffs, Equipped(f, ffs), Fed(ffs[4], "bool")
  PROVE  /\ InboundFaults(f, 4, BoolData(f)) = {}
         /\ Published(f, 4, BoolData(f)).topic = Topic(ffs[4])
         /\ Len(Published(f, 4, BoolData(f)).words) = Elements(ffs[4])
  <1>1. PICK m \in {1, 3} : m = Elements(ffs[4])
    BY DEF Fed
  <1>2. FromBoard(ffs[4]) /\ ffs[4].typecode = "bool"
    BY DEF Fed
  <1>3. TypeSize[ffs[4].typecode] = 1
    BY <1>2 DEF TypeSize
  <1>4. GetFFSize(ffs[4]) = m
    BY <1>1, <1>3 DEF GetFFSize
  <1>5. PICK data, words : data = BoolData(f) /\ words = [i \in 1 .. m |-> i % 2]
    OBVIOUS
  <1>6. data = [size |-> 1, words |-> words]
    BY <1>4, <1>5, Zenon DEF BoolData, Equipped
  <1>7. Len(words) = m
    BY <1>1, <1>5
  <1>8. data.words = words /\ DataSize(data) = m
    BY <1>1, <1>6, <1>7 DEF DataSize
  <1>9. /\ InboundFaults(f, 4, data) = {}
        /\ Published(f, 4, data) = [topic |-> Topic(ffs[4]), words |-> words]
    <2>1. PICK i \in 1 .. 4 : i = 4
      OBVIOUS
    <2>2. FromBoard(ffs[i]) /\ GetFFSize(ffs[i]) = m
      BY <1>2, <1>4, <2>1
    <2>3. ffs[i].typecode \in {"int32_t", "bool"}
      BY <1>2, <2>1
    <2>4. DataSize(data) = m /\ m % 256 = m
      BY <1>1, <1>8
    <2>5. Suits(data, ffs[i])
      BY <2>2, <2>3, <2>4, Zenon DEF Suits
    <2>6. Arrives(f, ffs, i, data)
      BY <2>5, MadeFits
    <2> QED
      BY <1>8, <2>1, <2>6, Zenon DEF Arrives
  <1> QED
    BY <1>1, <1>5, <1>7, <1>9

(* The front ends are those of the made-up boards, as far as they were      *)
(* created.                                                                 *)
FakeInv ==
  /\ \E m \in 0 .. 3 : fronts = [b \in 1 .. m |-> FakeFront(b)]
  /\ FakesAreShown

LEMMA FakeBoardStep ==
  ASSUME FakeInv, FakeBoard
  PROVE  FakeInv'
  <1>1. PICK m \in 0 .. 3 : fronts = [b \in 1 .. m |-> FakeFront(b)]
    BY DEF FakeInv
  <1>2. Len(fronts) = m
    BY <1>1
  <1>3. m < 3 /\ m + 1 \in 1 .. 3
    <2>1. Len(FakeBoards) = 3
      BY DEF FakeBoards
    <2> QED
      BY <1>2, <2>1 DEF FakeBoard, Made
  <1>4. PICK d : d = FakeDescription(m + 1)
    OBVIOUS
  <1>5. NewBoardFaults(d) = {}
    BY <1>3, <1>4, FakeServed
  <1>6. fronts' = Append(fronts, FrontEnd(d)) /\ UNCHANGED <<ended, shown>>
    BY <1>2, <1>4, <1>5, Zenon DEF FakeBoard, FakeDescription
  <1>7. fronts' = [b \in 1 .. m + 1 |-> FakeFront(b)]
    <2>1. PICK V : V = {FakeFront(b) : b \in 1 .. 3}
      OBVIOUS
    <2>2. fronts \in Seq(V) /\ FakeFront(m + 1) \in V
      BY <1>1, <1>3, <2>1
    <2>3. FrontEnd(d) = FakeFront(m + 1)
      BY <1>4, Zenon DEF FakeFront
    <2> QED
      BY <1>1, <1>2, <1>3, <1>6, <2>2, <2>3
  <1>8. FakesAreShown'
    BY <1>6, Zenon DEF FakeInv, FakesAreShown
  <1> QED
    BY <1>3, <1>7, <1>8 DEF FakeInv

(* The data for that front end arrives where it should. *)
Shows(f, ffs) ==
  /\ InboundFaults(f, 3, IntData(f)) = {} /\ InboundFaults(f, 4, BoolData(f)) = {}
  /\ Published(f, 3, IntData(f)).topic = Topic(ffs[3])
  /\ Published(f, 4, BoolData(f)).topic = Topic(ffs[4])
  /\ Len(Published(f, 3, IntData(f)).words) = Elements(ffs[3])
  /\ Len(Published(f, 4, BoolData(f)).words) = Elements(ffs[4])

LEMMA FeedStep ==
  ASSUME FakeInv, FeedData
  PROVE  FakeInv'
  <1>1. PICK m \in 0 .. 3 : fronts = [b \in 1 .. m |-> FakeFront(b)]
    BY DEF FakeInv
  <1>2. m = 3
    <2>1. Len(FakeBoards) = 3
      BY DEF FakeBoards
    <2> QED
      BY <1>1, <2>1 DEF FeedData, Made
  <1>3. ASSUME NEW b \in Kept, NEW f, f = fronts[b], NEW ffs, ffs = FakeBoards[b]
        PROVE  Shows(f, ffs)
    <2>1. b \in 1 .. 3
      BY DEF Kept
    <2>2. PICK d : d = FakeDescription(b) /\ f = FrontEnd(d)
      <3>1. f = FakeFront(b)
        BY <1>1, <1>2, <1>3, <2>1
      <3> QED
        BY <3>1, Zenon DEF FakeFront
    <2>3. /\ Equipped(f, ffs)
          /\ Fed(ffs[3], "int32_t") /\ Fed(ffs[4], "bool")
      <3>1. /\ FrontEnd(d).desc.ffs = ffs
            /\ b \in Kept => /\ DOMAIN ffs = 1 .. 4 /\ Tables(FrontEnd(d), ffs, 4)
                             /\ Fed(ffs[3], "int32_t") /\ Fed(ffs[4], "bool")
        BY <1>3, <2>1, <2>2, FakeServed
      <3> QED
        BY <1>3, <2>2, <3>1, Zenon DEF Equipped
    <2> QED
      BY <2>3, IntShown, BoolShown DEF Shows
  <1>4. UNION {InboundFaults(fronts[b], 3, IntData(fronts[b]))
                 \cup InboundFaults(fronts[b], 4, BoolData(fronts[b])) : b \in Kept} = {}
    <2>1. \A b \in Kept : /\ InboundFaults(fronts[b], 3, IntData(fronts[b])) = {}
                            /\ InboundFaults(fronts[b], 4, BoolData(fronts[b])) = {}
      BY <1>3 DEF Shows
    <2> QED
      BY <2>1
  <1>5. /\ UNCHANGED <<ended, fronts>>
        /\ shown' = [b \in Kept |-> << Published(fronts[b], 3, IntData(fronts[b])),
                                       Published(fronts[b], 4, BoolData(fronts[b])) >>]
    BY <1>4, Zenon DEF FeedData
  <1>6. ASSUME NEW b \in Kept, NEW ffs, ffs = FakeBoards[b]
        PROVE  /\ shown'[b][1].topic = Topic(ffs[3])
               /\ Len(shown'[b][1].words) = Elements(ffs[3])
               /\ shown'[b][2].topic = Topic(ffs[4])
               /\ Len(shown'[b][2].words) = Elements(ffs[4])
    <2>1. PICK f, s : f = fronts[b] /\ s = shown'[b]
      OBVIOUS
    <2>2. s = << Published(f, 3, IntData(f)), Published(f, 4, BoolData(f)) >>
      BY <1>5, <2>1
    <2>3. s[1] = Published(f, 3, IntData(f)) /\ s[2] = Published(f, 4, BoolData(f))
      BY <2>2
    <2>4. Shows(f, ffs)
      BY <1>3, <1>6, <2>1
    <2> QED
      BY <2>1, <2>3, <2>4, Zenon DEF Shows
  <1>7. DOMAIN shown' = Kept
    BY <1>5
  <1>8. FakesAreShown'
    <2>1. ended' \in {"no", "order"}
      BY <1>5, Zenon DEF FakeInv, FakesAreShown
    <2>2. ASSUME NEW b \in DOMAIN shown', NEW j \in {1, 2}, NEW ff, ff = FakeBoards[b][j + 2]
          PROVE  /\ shown'[b][j].topic = Topic(ff)
                 /\ Len(shown'[b][j].words) = Elements(ff)
      <3>1. CASE j = 1
        BY <1>6, <1>7, <2>2, <3>1
      <3>2. CASE j = 2
        BY <1>6, <1>7, <2>2, <3>2
      <3> QED
        BY <3>1, <3>2
    <2> QED
      BY <2>1, <2>2, Zenon DEF FakesAreShown
  <1> QED
    BY <1>1, <1>5, <1>8 DEF FakeInv

(* The made-up data fits the made-up descriptions: every turn of the fake   *)
(* server's main loop publishes all of it on the topics of its fields, as   *)
(* many values as they have subfields, and no assertion of the front end    *)
(* ends the program.                                                        *)
THEOREM FakesShown == FakeSpec => []FakesAreShown
  <1>1. FakeInit => FakeInv
    <2>1. SUFFICES ASSUME FakeInit PROVE FakeInv
      OBVIOUS
    <2>2. fronts = <<>> /\ shown = <<>> /\ ended = "no"
      BY <2>1 DEF FakeInit
    <2>3. fronts = [b \in 1 .. 0 |-> FakeFront(b)]
      BY <2>2
    <2>4. FakesAreShown
      BY <2>2 DEF FakesAreShown
    <2> QED
      BY <2>3, <2>4 DEF FakeInv
  <1>2. FakeInv /\ [FakeNext]_fakeVars => FakeInv'
    <2>1. ASSUME FakeInv, UNCHANGED <<fronts, shown>>, ended' = ended \/ ended' = "order"
          PROVE  FakeInv'
      <3>1. ended' \in {"no", "order"}
        BY <2>1 DEF FakeInv, FakesAreShown
      <3>2. FakesAreShown'
        BY <2>1, <3>1, Zenon DEF FakeInv, FakesAreShown
      <3> QED
        BY <2>1, <3>2, Zenon DEF FakeInv
    <2>2. FakeEnds => UNCHANGED <<fronts, shown>> /\ ended' = "order"
      BY DEF FakeEnds
    <2>3. \A b, w : FakeCommand(b, w) => UNCHANGED <<fronts, shown, ended>>
      BY DEF FakeCommand
    <2>4. UNCHANGED fakeVars => UNCHANGED <<fronts, shown, ended>>
      BY DEF fakeVars
    <2> QED
      BY <2>1, <2>2, <2>3, <2>4, FakeBoardStep, FeedStep, Zenon DEF FakeNext
  <1>3. FakeInv => FakesAreShown
    BY DEF FakeInv
  <1> QED
    BY <1>1, <1>2, <1>3, PTL DEF FakeSpec
=============================================================================

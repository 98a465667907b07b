----------------------------- MODULE FakeServer -----------------------------
(***************************************************************************)
(* The second program of the repository (src/src/fake_server.cpp and       *)
(* fake_communication.cpp): it links the same ROS front end, gives it      *)
(* three made-up boards and feeds two of them with data, for work on GUIs. *)
(*                                                                         *)
(* The main loop counts iter twice per turn, so iter is odd whenever data  *)
(* is made.  Of the boards only the handlers that main keeps in publishers *)
(* outlive their creation: the third is never online.                      *)
(***************************************************************************)
EXTENDS RosFrontend

VARIABLES
  fronts,     \* the RosBoardHandlers, in the order of the boards
  wakes,      \* the wake flags of the handlers, never initialized
  shown,      \* what the last turn published, board by board
  ended       \* why the program ended

fakeVars == <<fronts, wakes, shown, ended>>

Fake(name, names, typecode, access) ==
  [sort |-> "field", name |-> name, names |-> names, typecode |-> typecode,
   access |-> access]

FakeBoards ==
  << << Fake("FloatTest", <<>>, "float", "READONLY"),
        Fake("StringTest", <<>>, "shortstring", "WRITEONLY"),
        Fake("IntTest", <<>>, "int32_t", "READWRITE"),
        Fake("BoolTest", <<>>, "bool", "READWRITE") >>,
     << Fake("FloatTest", <<"Subfield1">>, "float", "READONLY"),
        Fake("StringTest", <<"Subfield1", "Subfield2">>, "shortstring", "WRITEONLY"),
        Fake("IntTest", <<"Subfield1", "Subfield", "SuBfIlEd">>, "int32_t", "WRITEONLY"),
        Fake("BoolTest", <<"Subfield1", "sqi", "SuBfIlEd">>, "bool", "WRITEONLY") >>,
     << Fake("FloatTest", <<>>, "float", "READONLY"),
        Fake("StringTest", <<>>, "longstring", "READONLY"),
        Fake("StringTest2", <<>>, "shortstring", "READONLY"),
        Fake("IntTest", <<>>, "uint32_t", "READONLY"),
        Fake("IntTest2", <<>>, "uint32_t", "WRITEONLY") >> >>

Kept == {1, 2}   \* the boards whose handlers are in publishers

FakeInit ==
  /\ fronts = <<>> /\ wakes = <<>> /\ shown = <<>>
  /\ ended = "no"

Made == Len(fronts) = Len(FakeBoards)

(* FakeBoard: the description is built in place, for this board type alone. *)
FakeBoard ==
  LET b == Len(fronts) + 1
      d == [NewDescriptor EXCEPT !.ffs = FakeBoards[b]]
  IN  /\ ended = "no" /\ ~Made
      /\ \/ /\ NewBoardFaults(d) = {}
            /\ fronts' = Append(fronts, FrontEnd(d))
            /\ \E w \in BOOLEAN : wakes' = Append(wakes, w)
            /\ UNCHANGED ended
         \/ /\ NewBoardFaults(d) # {}
            /\ ended' = "board"
            /\ UNCHANGED <<fronts, wakes>>
      /\ UNCHANGED shown

IntDataBytewise(front) ==   \* mutation: a value is made for every byte
  [size |-> 4, words |-> [i \in 1 .. GetFFSize(front.desc.ffs[3]) |-> i - 1]]

(* Four bytes for every four bytes of the third field: 0, 0, i and iter. *)
IntData(front) ==
  [size |-> 4, words |-> [i \in 1 .. GetFFSize(front.desc.ffs[3]) \div 4 |-> i - 1]]

(* One byte for every byte of the fourth, (iter + i) % 2. *)
BoolData(front) ==
  [size |-> 1, words |-> [i \in 1 .. GetFFSize(front.desc.ffs[4]) |-> i % 2]]

(* The rest of a turn of the main loop, after ROS has had its turn. *)
FeedData ==
  /\ ended = "no" /\ Made
  /\ LET faults == UNION {InboundFaults(fronts[b], 3, IntData(fronts[b]))
                            \cup InboundFaults(fronts[b], 4, BoolData(fronts[b])) : b \in Kept}
     IN  IF faults = {}
         THEN /\ shown' = [b \in Kept |-> << Published(fronts[b], 3, IntData(fronts[b])),
                                             Published(fronts[b], 4, BoolData(fronts[b])) >>]
              /\ UNCHANGED ended
         ELSE ended' = "data" /\ UNCHANGED shown
  /\ UNCHANGED <<fronts, wakes>>

(* A wake or sleep order for a board whose handler still exists; written    *)
(* field data is only logged.                                               *)
FakeCommand(b, w) ==
  /\ ended = "no" /\ Made
  /\ wakes' = [wakes EXCEPT ![b] = w]
  /\ UNCHANGED <<fronts, shown, ended>>

(* Orders that end the program: a reboot of such a board, panic, and values *)
(* of the wrong number.                                                     *)
FakeEnds ==
  /\ ended = "no" /\ Made
  /\ ended' = "order"
  /\ UNCHANGED <<fronts, wakes, shown>>

FakeNext ==
  \/ FakeBoard \/ FeedData \/ FakeEnds
  \/ \E b \in Kept, w \in BOOLEAN : FakeCommand(b, w)

FakeSpec == FakeInit /\ [][FakeNext]_fakeVars
-----------------------------------------------------------------------------
(* The made-up data fits the made-up descriptions, which are written down   *)
(* apart: every turn all of it is published on the topics of its fields,    *)
(* as many values as the field has subfields, and no assertion of the front *)
(* end fails.                                                               *)
FakesAreShown ==
  /\ ended \in {"no", "order"}
  /\ \A b \in DOMAIN shown : \A j \in {1, 2} :
       LET ff == FakeBoards[b][j + 2]
       IN  /\ shown[b][j].topic = Topic(ff)
           /\ Len(shown[b][j].words) = Elements(ff)
=============================================================================

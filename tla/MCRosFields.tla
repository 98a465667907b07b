---------------------------- MODULE MCRosFields ----------------------------
(***************************************************************************)
(* The two programs that link the ROS front end: the server with an engine *)
(* driver and what that may be built with, or the fake server.             *)
(***************************************************************************)
EXTENDS RosFields, FakeServer

VARIABLE program

allVars == <<program, vars, fakeVars>>

ProgramInit == program \in {"server", "fake"} /\ Init /\ FakeInit

ProgramNext ==
  \/ program = "server" /\ Next /\ UNCHANGED <<program, fakeVars>>
  \/ program = "fake" /\ FakeNext /\ UNCHANGED <<program, vars>>

(* Rounds of keep-alives go on, and the board answers. *)
ProgramSpec ==
  /\ ProgramInit /\ [][ProgramNext]_allVars
  /\ WF_vars(program = "server" /\ KeepAlive)

MCField(name, typecode, access, names) ==
  [sort |-> "field", name |-> name, typecode |-> typecode, access |-> access,
   names |-> names]

Brake  == MCField("brake", "bool", "READONLY", <<>>)
Speed  == MCField("speed", "int8_t", "READWRITE", <<"left", "right">>)
Load   == MCField("load", "uint8_t", "WRITEONLY", <<>>)
Load2  == MCField("load", "uint8_t", "READWRITE", <<>>)
Label  == MCField("label", "shortstring", "WRITEONLY", <<"left", "right">>)
Mode   == MCField("mode", "uint8_t", "READONLY", <<>>)
Note   == MCField("note", "longstring", "READWRITE", <<"left", "right">>)

(* The last field of the third is too big for the protocol. *)
MCFirmwares ==
  { <<Brake, Speed, Load>>, <<Brake, Speed, Load2>>, <<Label, Mode, Note>> }

Calibrate ==
  [sort |-> "function", name |-> "calibrate", typecode |-> "int8_t",
   out_typecode |-> "void", names |-> <<>>]

WithFunction == { <<Load, Calibrate>> }

MCValues ==
  [RubiInt |-> {-1, 300}, RubiUnsignedInt |-> {1, 300}, RubiBool |-> {0, 1},
   RubiFloat |-> {1}, RubiString |-> {7, 8}]
=============================================================================

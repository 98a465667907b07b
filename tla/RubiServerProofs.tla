-------------------------- MODULE RubiServerProofs --------------------------
(***************************************************************************)
(* Theorems about RubiServer, for any boards, buses, slots and bounds.     *)
(*                                                                         *)
(* The type invariant is inductive only together with two facts: a handler *)
(* that is not dead has missed fewer than DeadAfter keep-alives, and a     *)
(* board in the middle of its handshake has something left to say.         *)
(***************************************************************************)
EXTENDS RubiServer, ConnectionFacts, SequenceTheorems

Link(r) == r \in Connections /\ (~r.dead => r.missed < DeadAfter)

Board(d, r) ==
  r \in DeviceStates /\ (r.phase = "joining" => r.told < Len(Script(d)))

ConnOK == conn \in [Handlers -> Connections] /\ \A h \in Handlers : Link(conn[h])

DeviceOK ==
  device \in [Devices -> DeviceStates] /\ \A d \in Devices : Board(d, device[d])

BusOK ==
  /\ can \in [Cans -> {"closed", "bound", "invited"}]
  /\ sock \in [Cans -> Seq(Frames)]
  /\ failures \in Failures /\ panics \in 0 .. MaxPanics

Faults == Reasons \cup {"none", "panic", "bank_missing", "backend_nameless"}

RegistryOK ==
  /\ fault \in Faults
  /\ pool \subseteq Handlers
  /\ heap \in [Pointers -> Descriptors]
  /\ descriptor_map \in [Names -> Pointers \cup {NoPointer}]
  /\ handlers \in [Pointers -> Seq(Instances)]
  /\ holden \subseteq Handlers
  /\ boards \in Seq(Instances)

Inv == ConnOK /\ DeviceOK /\ BusOK /\ RegistryOK

LEMMA InvImpliesTypeOK == Inv => TypeOK
  BY DEF Inv, ConnOK, DeviceOK, BusOK, RegistryOK, Faults, TypeOK
-----------------------------------------------------------------------------
(* Facts about the operators the actions are built from.                   *)

LEMMA ScriptFacts ==
  ASSUME NEW d \in Devices
  PROVE  /\ Len(Script(d)) \in {4, 5}
         /\ \A i \in 1 .. Len(Script(d)) : Script(d)[i] \in Kinds
  <1>1. CASE IdOf[d] = NoId
    BY <1>1 DEF Script, Kinds
  <1>2. CASE IdOf[d] # NoId
    BY <1>2 DEF Script, Kinds
  <1> QED
    BY <1>1, <1>2

LEMMA WithoutFacts ==
  ASSUME NEW d \in Devices, NEW phase \in {"off", "lottery"}
  PROVE  Board(d, Without(phase))
  BY DEF Board, Without, DeviceStates, Phases

LEMMA JoinFacts ==
  ASSUME NEW d \in Devices, NEW n \in NodeIds
  PROVE  Board(d, [Without("joining") EXCEPT !.node = n])
  <1> DEFINE w == Without("joining")
             r == [w EXCEPT !.node = n]
  <1>0. w \in DeviceStates /\ w.phase = "joining" /\ w.told = 0
    BY DEF Without, DeviceStates, Phases
  <1> HIDE DEF w
  <1>1. r \in DeviceStates /\ r.phase = "joining" /\ r.told = 0
    BY <1>0 DEF DeviceStates
  <1> HIDE DEF r
  <1>2. Len(Script(d)) \in {4, 5}
    BY ScriptFacts
  <1>3. 0 < Len(Script(d))
    BY <1>2
  <1> QED
    BY <1>1, <1>3 DEF Board, r, w

LEMMA ObeyedFacts ==
  ASSUME NEW d \in Devices, NEW r, Board(d, r), NEW command
  PROVE  Board(d, Obeyed(r, command))
  <1>1. CASE command = "REBOOT" /\ r.phase # "off"
    BY <1>1, WithoutFacts DEF Obeyed
  <1>2. CASE ~(command = "REBOOT" /\ r.phase # "off")
    <2>1. \/ Obeyed(r, command) = r
          \/ Obeyed(r, command) = [r EXCEPT !.phase = "operational"]
          \/ Obeyed(r, command) = [r EXCEPT !.phase = "waiting"]
      BY <1>2 DEF Obeyed
    <2> QED
      BY <2>1 DEF Board, DeviceStates, Phases
  <1> QED
    BY <1>1, <1>2

LEMMA ConnUpdate ==
  ASSUME ConnOK, NEW h \in Handlers, NEW s, Link(s),
         conn' = [conn EXCEPT ![h] = s]
  PROVE  ConnOK'
  BY DEF ConnOK, Link

LEMMA DeviceUpdate ==
  ASSUME DeviceOK, NEW d \in Devices, NEW s, Board(d, s),
         device' = [device EXCEPT ![d] = s]
  PROVE  DeviceOK'
  BY DEF DeviceOK, Board

(* However many failures are counted, the bounds hold. *)
LEMMA FailureFacts ==
  ASSUME BusOK
  PROVE  /\ PowerMayFail => PowerFailed \in Failures
         /\ \A spent \in Failures : FrameIsLost(spent) => failures' \in Failures
  <1>1. ASSUME PowerMayFail
        PROVE  PowerFailed \in Failures
    <2>1. failures.power \in 0 .. MaxFailures /\ failures.lost \in 0 .. MaxLost
      BY DEF BusOK, Failures
    <2>2. failures.power + 1 \in 0 .. MaxFailures
      BY <1>1, <2>1, ServerAssumption DEF PowerMayFail
    <2> QED
      BY <2>2 DEF PowerFailed, Failures, BusOK
  <1>2. ASSUME NEW spent \in Failures, FrameIsLost(spent)
        PROVE  failures' \in Failures
    <2>1. spent.lost \in 0 .. MaxLost /\ spent.lost < MaxLost
      BY <1>2 DEF FrameIsLost, Failures
    <2>2. spent.lost + 1 \in 0 .. MaxLost
      BY <2>1, ServerAssumption
    <2> QED
      BY <1>2, <2>2 DEF FrameIsLost, Failures
  <1> QED
    BY <1>1, <1>2

LEMMA DeliverFacts ==
  ASSUME BusOK, NEW c \in Cans, NEW frame \in Frames, NEW spent \in Failures,
         Deliver(c, frame, spent), can' = can, panics' = panics
  PROVE  BusOK'
  <1>1. sock' \in [Cans -> Seq(Frames)]
    <2>1. Append(sock[c], frame) \in Seq(Frames)
      BY AppendProperties DEF BusOK
    <2> QED
      BY <2>1 DEF BusOK, Deliver
  <1>2. failures' \in Failures
    BY FailureFacts DEF Deliver, BusOK
  <1> QED
    BY <1>1, <1>2 DEF BusOK

LEMMA SendFacts ==
  ASSUME BusOK, DeviceOK, NEW d \in Devices, NEW kind \in Kinds,
         NEW spent \in Failures, Send(d, kind, spent), can' = can, panics' = panics
  PROVE  BusOK'
  <1>1. [kind |-> kind, from |-> d, node |-> device[d].node] \in Frames
    BY DEF DeviceOK, DeviceStates, Frames
  <1>2. BusOf[d] \in Cans
    BY ServerAssumption
  <1> QED
    BY <1>1, <1>2, DeliverFacts DEF Send

(* What a board that enters the lottery spends is within the bounds. *)
LEMMA EnterSends ==
  ASSUME BusOK, NEW d \in Devices, Enter(d)
  PROVE  \E spent \in Failures : Send(d, "lottery", spent)
  <1>1. failures \in Failures /\ (PowerMayFail => PowerFailed \in Failures)
    BY FailureFacts DEF BusOK
  <1> QED
    BY <1>1 DEF Enter

LEMMA ConsumeFacts ==
  ASSUME BusOK, NEW c \in Cans, sock[c] # <<>>, Consume(c), failures' \in Failures
  PROVE  BusOK'
  BY DEF BusOK, Consume

(* A board that hears a command obeys, one that misses it is unchanged. *)
LEMMA OrdersFacts ==
  ASSUME BusOK, DeviceOK, NEW given, NEW spent \in Failures, Orders(given, spent)
  PROVE  DeviceOK' /\ failures' \in Failures
  <1>1. \A d \in Devices : Board(d, device'[d])
    BY ObeyedFacts DEF Orders, DeviceOK
  <1>2. DeviceOK'
    BY <1>1 DEF Orders, DeviceOK, Board
  <1>3. failures' \in Failures
    BY FailureFacts DEF Orders
  <1> QED
    BY <1>2, <1>3

LEMMA CommandFacts ==
  ASSUME BusOK, DeviceOK, NEW h, NEW command, NEW spent \in Failures,
         Command(h, command, spent)
  PROVE  DeviceOK' /\ failures' \in Failures
  BY OrdersFacts DEF Command

LEMMA CrashFacts ==
  ASSUME NEW why \in Faults, Crash(why), BusOK, panics' \in 0 .. MaxPanics,
         failures' = failures
  PROVE  ConnOK' /\ BusOK' /\ RegistryOK'
  <1>1. ConnOK'
    BY NewConnectionFacts, ConnectionAssumption DEF ConnOK, Link, Crash
  <1>2. BusOK'
    BY DEF BusOK, Crash
  <1>3. RegistryOK'
    BY ServerAssumption DEF RegistryOK, Crash, Blank, Descriptors
  <1> QED
    BY <1>1, <1>2, <1>3
-----------------------------------------------------------------------------
(* The frame being handled and the handler it is addressed to.             *)

LEMMA ReceivedFacts ==
  ASSUME BusOK, NEW c \in Cans, NEW kind, Received(c, kind)
  PROVE  sock[c] # <<>> /\ Head(sock[c]) \in Frames
  BY HeadTailProperties DEF BusOK, Received

LEMMA AcceptedFacts ==
  ASSUME Inv, NEW c \in Cans, NEW kind, Accepted(c, kind)
  PROVE  /\ sock[c] # <<>> /\ Head(sock[c]) \in Frames
         /\ Addressee(c) \in Handlers
         /\ Link(conn[Addressee(c)]) /\ conn[Addressee(c)] \in Connections
         /\ ~conn[Addressee(c)].dead
  <1>1. sock[c] # <<>> /\ Head(sock[c]) \in Frames
    BY ReceivedFacts DEF Accepted, Inv
  <1>2. Addressee(c) \in Handlers
    BY DEF Accepted, Inv, RegistryOK
  <1> QED
    BY <1>1, <1>2 DEF Accepted, Inv, ConnOK

(* Once its description is complete a handler can be registered. *)
LEMMA InitAcceptedFacts ==
  ASSUME Inv, NEW c \in Cans, InitAccepted(c)
  PROVE  /\ Accepted(c, "init")
         /\ conn[Addressee(c)].desc \in Pointers
         /\ descriptor_map' \in [Names -> Pointers \cup {NoPointer}]
  <1>1. Accepted(c, "init") /\ conn[Addressee(c)].desc # NoPointer
    BY DEF InitAccepted, InitComplete
  <1>2. conn[Addressee(c)].desc \in Pointers
    BY <1>1, AcceptedFacts DEF Connections
  <1>3. descriptor_map' \in [Names -> Pointers \cup {NoPointer}]
    BY <1>2 DEF InitAccepted, Inv, RegistryOK
  <1> QED
    BY <1>1, <1>2, <1>3

LEMMA KeysFacts ==
  ASSUME NEW p \in Pointers
  PROVE  Keys(p) \subseteq Pointers
  BY DEF Keys

LEMMA GetBoardFacts ==
  ASSUME ConnOK, NEW h \in Handlers, conn[h].desc \in Pointers
  PROVE  GetBoard(h) \in Instances
  BY DEF ConnOK, Connections, GetBoard, Instances, Backends

(* A place given to another handler is still a place of the registry. *)
LEMMA InstanceUpdate ==
  ASSUME NEW s \in Seq(Instances), NEW i, NEW h \in Handlers
  PROVE  [s EXCEPT ![i].backend = h] \in Seq(Instances)
  <1>1. CASE i \in 1 .. Len(s)
    <2>1. s[i] \in Instances
      BY <1>1
    <2>2. [s[i] EXCEPT !.backend = h] \in Instances
      BY <2>1 DEF Instances, Backends
    <2> QED
      BY <1>1, <2>2, ExceptSeq
  <1>2. CASE i \notin 1 .. Len(s)
    <2>1. [s EXCEPT ![i].backend = h] = s
      BY <1>2
    <2> QED
      BY <2>1
  <1> QED
    BY <1>1, <1>2

LEMMA RegistryUpdate ==
  ASSUME RegistryOK, NEW k \in Pointers, NEW i, NEW h \in Handlers,
         handlers' = [handlers EXCEPT ![k][i].backend = h]
  PROVE  handlers' \in [Pointers -> Seq(Instances)]
  <1>1. [handlers[k] EXCEPT ![i].backend = h] \in Seq(Instances)
    BY InstanceUpdate DEF RegistryOK
  <1> QED
    BY <1>1 DEF RegistryOK

LEMMA OwnerFacts ==
  ASSUME RegistryOK, NEW k \in Pointers, NEW i \in DOMAIN handlers[k],
         handlers[k][i].backend # NoHandler
  PROVE  handlers[k][i].backend \in Handlers
  <1>1. handlers[k] \in Seq(Instances)
    BY DEF RegistryOK
  <1>2. handlers[k][i] \in Instances
    BY <1>1
  <1> QED
    BY <1>2 DEF Instances, Backends

LEMMA LaunchLink ==
  ASSUME NEW r, Link(r), NEW f \in Nat
  PROVE  Link(Launch(r, f))
  BY LaunchFacts DEF Link
-----------------------------------------------------------------------------
(* Every action preserves the invariant.                                   *)

LEMMA DeviceSteps ==
  ASSUME Inv, NEW d \in Devices, Device(d)
  PROVE  Inv'
  <1>0. failures \in Failures
    BY DEF Inv, BusOK
  <1>1. ASSUME NEW kind \in Kinds, NEW spent \in Failures, Send(d, kind, spent),
               can' = can, panics' = panics, UNCHANGED process, DeviceOK'
        PROVE  Inv'
    <2>1. BusOK'
      BY <1>1, SendFacts DEF Inv
    <2> QED
      BY <1>1, <2>1 DEF Inv, process, registry, ConnOK, RegistryOK
  <1>2. Board(d, device[d]) /\ device[d] \in DeviceStates
    BY DEF Inv, DeviceOK
  <1>3. CASE PowerOn(d)
    <2>1. DeviceOK'
      BY <1>3, WithoutFacts, DeviceUpdate DEF PowerOn, Inv
    <2> QED
      BY <1>3, <2>1
      DEF PowerOn, Inv, process, registry, ConnOK, RegistryOK, BusOK
  <1>4. CASE PowerOff(d)
    <2>1. DeviceOK'
      BY <1>4, WithoutFacts, DeviceUpdate DEF PowerOff, Inv
    <2>2. failures' \in Failures
      BY <1>4, FailureFacts DEF PowerOff, Inv
    <2> QED
      BY <1>4, <2>1, <2>2
      DEF PowerOff, Inv, process, registry, ConnOK, RegistryOK, BusOK
  <1>5. CASE Enter(d)
    <2>1. DeviceOK'
      BY <1>5 DEF Enter, Inv, DeviceOK
    <2>2. PICK spent \in Failures : Send(d, "lottery", spent)
      BY <1>5, EnterSends DEF Inv
    <2>3. can' = can /\ panics' = panics /\ UNCHANGED process /\ "lottery" \in Kinds
      BY <1>5 DEF Enter, Kinds
    <2> QED
      BY <1>1, <2>1, <2>2, <2>3
  <1>6. CASE Speak(d)
    <2> DEFINE told == device[d].told + 1
               phase == IF told = Len(Script(d)) THEN "waiting"
                        ELSE device[d].phase
    <2>1. told \in 1 .. Len(Script(d)) /\ told \in 0 .. 5
      BY <1>2, <1>6, ScriptFacts DEF Speak, Board, DeviceStates
    <2>2. Script(d)[told] \in Kinds
      BY <2>1, ScriptFacts
    <2>3. device' =
            [device EXCEPT ![d] = [device[d] EXCEPT !.told = told, !.phase = phase]]
      BY <1>6 DEF Speak, Inv, DeviceOK
    <2>4. phase \in Phases /\ (phase = "joining" => told # Len(Script(d)))
      BY <1>2 DEF DeviceStates, Phases
    <2>5. Board(d, [device[d] EXCEPT !.told = told, !.phase = phase])
      <3>1. /\ Len(Script(d)) \in Nat /\ told <= Len(Script(d))
            /\ phase = "joining" => told < Len(Script(d))
        BY <2>1, <2>4, ScriptFacts
      <3> HIDE DEF phase, told
      <3>2. [device[d] EXCEPT !.told = told, !.phase = phase] \in DeviceStates
        BY <1>2, <2>1, <2>4 DEF DeviceStates
      <3>3. /\ [device[d] EXCEPT !.told = told, !.phase = phase].told = told
            /\ [device[d] EXCEPT !.told = told, !.phase = phase].phase = phase
        BY <1>2 DEF DeviceStates
      <3> QED
        BY <3>1, <3>2, <3>3 DEF Board
    <2>6. DeviceOK'
      BY <2>3, <2>5, DeviceUpdate DEF Inv
    <2> QED
      BY <1>0, <1>1, <1>6, <2>2, <2>6 DEF Speak
  <1>7. CASE Answer(d)
    <2>1. Board(d, [device[d] EXCEPT !.asked = FALSE])
      BY <1>2 DEF Board, DeviceStates
    <2>2. DeviceOK'
      BY <1>7, <2>1, DeviceUpdate DEF Answer, Inv
    <2> QED
      BY <1>0, <1>1, <1>7, <2>2 DEF Answer, Kinds
  <1>8. ASSUME NEW kind \in Chatter, Talk(d, kind)
        PROVE  Inv'
    <2>1. kind \in Kinds
      BY ServerAssumption DEF Kinds
    <2>2. DeviceOK'
      BY <1>8 DEF Talk, Inv, DeviceOK
    <2> QED
      BY <1>0, <1>1, <1>8, <2>1, <2>2 DEF Talk
  <1> QED
    BY <1>3, <1>4, <1>5, <1>6, <1>7, <1>8 DEF Device

(* A step that ends the process leaves the boards alone. *)
LEMMA CrashSteps ==
  ASSUME Inv, NEW why \in Faults, Crash(why), device' = device,
         panics' \in 0 .. MaxPanics, failures' = failures
  PROVE  Inv'
  <1>1. DeviceOK'
    BY DEF Inv, DeviceOK
  <1> QED
    BY <1>1, CrashFacts DEF Inv

LEMMA ProcessSteps ==
  ASSUME Inv, NEW c \in Cans, Bind(c) \/ Invite(c) \/ KeepAliveRound(c)
  PROVE  Inv'
  <1>1. CASE Bind(c)
    BY <1>1 DEF Bind, Inv, registry, ConnOK, DeviceOK, BusOK, RegistryOK, Faults
  <1>2. CASE Invite(c)
    <2>1. DeviceOK' /\ failures' \in Failures
      BY <1>2, OrdersFacts DEF Invite, Inv, BusOK
    <2> QED
      BY <1>2, <2>1
      DEF Invite, Inv, process, registry, ConnOK, BusOK, RegistryOK
  <1>3. CASE KeepAliveRound(c)
    <2>1. ASSUME NEW r, Link(r), Polled(r)
          PROVE  Link(KeepAliveRequest(r))
      <3>1. r \in Connections /\ r.missed < DeadAfter
        BY <2>1 DEF Link, Polled
      <3>2. KeepAliveRequest(r) \in Connections
        BY <3>1, RequestType
      <3>3. ~KeepAliveRequest(r).dead => KeepAliveRequest(r).missed # DeadAfter
        <4>0. r.missed \in Nat
          BY <3>1 DEF Connections
        <4>1. CASE r.answered
          <5>1. KeepAliveRequest(r).missed = r.missed
            BY <3>1, <4>1, RequestAfterAnswer
          <5>2. r.missed # DeadAfter
            BY <3>1, <4>0, ConnectionAssumption
          <5> QED
            BY <5>1, <5>2
        <4>2. CASE ~r.answered
          BY <3>1, <4>2, RequestAfterSilence DEF Connections
        <4> QED
          BY <4>1, <4>2
      <3> QED
        BY <3>2, <3>3, ConnectionAssumption DEF Link, Connections
    <2>2. \A h \in Handlers : Link(conn'[h])
      BY <1>3, <2>1 DEF KeepAliveRound, ToPoll, Inv, ConnOK
    <2>3. ConnOK'
      BY <1>3, <2>2 DEF KeepAliveRound, ConnOK, Link
    <2>4. \A d \in Devices : Board(d, [device[d] EXCEPT !.asked = TRUE])
      BY DEF Inv, DeviceOK, Board, DeviceStates
    <2>5. \A d \in Devices : Board(d, device'[d])
      BY <1>3, <2>4 DEF KeepAliveRound, Inv, DeviceOK
    <2>6. DeviceOK'
      BY <1>3, <2>5 DEF KeepAliveRound, DeviceOK, Board
    <2> QED
      BY <1>3, <2>3, <2>6 DEF KeepAliveRound, Inv, registry, BusOK, RegistryOK
  <1> QED
    BY <1>1, <1>2, <1>3
-----------------------------------------------------------------------------
(* Received frames that change the handler they are addressed to. *)
LEMMA HandlerSteps ==
  ASSUME Inv, NEW c \in Cans,
         \/ ReceiveForDead(c) \/ ReceiveConfirm(c) \/ ReceiveName(c)
         \/ ReceiveBody(c) \/ ReceiveId(c) \/ ReceiveAlive(c) \/ ReceiveTalk(c)
  PROVE  Inv'
  <1> DEFINE h == Addressee(c)
             d == Head(sock[c]).from
  <1>1. ASSUME sock[c] # <<>>, ConnOK', Consume(c), UNCHANGED <<device, failures>>,
               RegistryOK'
        PROVE  Inv'
    <2>1. failures' \in Failures
      BY <1>1 DEF Inv, BusOK
    <2> QED
      BY <1>1, <2>1, ConsumeFacts DEF Inv, DeviceOK
  <1>2. ASSUME NEW kind, Accepted(c, kind)
        PROVE  /\ d \in Devices /\ h \in Handlers /\ sock[c] # <<>>
               /\ Link(conn[h]) /\ conn[h] \in Connections /\ ~conn[h].dead
    BY <1>2, AcceptedFacts DEF Frames
  <1>3. ASSUME NEW kind, Accepted(c, kind), NEW s, Link(s),
               conn' = [conn EXCEPT ![h] = s]
        PROVE  ConnOK'
    BY <1>2, <1>3, ConnUpdate DEF Inv
  <1>4. CASE ReceiveForDead(c)
    BY <1>1, <1>4 DEF ReceiveForDead, Received, process, registry, Inv, ConnOK, RegistryOK
  <1>5. CASE ReceiveConfirm(c)
    <2>1. Link(Confirmed(conn[h]))
      BY <1>2, <1>5, ConfirmedFacts DEF ReceiveConfirm, Link
    <2>2. ConnOK'
      BY <1>3, <1>5, <2>1 DEF ReceiveConfirm
    <2> QED
      BY <1>1, <1>2, <1>5, <2>2 DEF ReceiveConfirm, registry, Inv, RegistryOK
  <1>6. CASE ReceiveName(c)
    <2> DEFINE p == DescriptorOf(h, conn[h])
    <2>1. Link(Described(h, conn[h])) /\ p \in Pointers
      BY <1>2, <1>6, DescribedFacts DEF ReceiveName, Link
    <2>2. ConnOK'
      BY <1>3, <1>6, <2>1 DEF ReceiveName
    <2>3. NameOf[d] \in Names
      BY <1>2, <1>6, ServerAssumption DEF ReceiveName
    <2>4. heap' = [heap EXCEPT ![p] = [heap[p] EXCEPT !.name = NameOf[d]]]
      BY <1>6, <2>1 DEF ReceiveName, Inv, RegistryOK
    <2>5. [heap[p] EXCEPT !.name = NameOf[d]] \in Descriptors
      BY <2>1, <2>3 DEF Descriptors, Inv, RegistryOK
    <2>6. heap' \in [Pointers -> Descriptors]
      BY <2>4, <2>5 DEF Inv, RegistryOK
    <2>7. RegistryOK'
      BY <1>6, <2>6 DEF ReceiveName, registry, Inv, RegistryOK
    <2> QED
      BY <1>1, <1>2, <1>6, <2>2, <2>7 DEF ReceiveName
  <1>7. CASE ReceiveBody(c)
    <2> DEFINE p == conn[h].desc
    <2>1. p \in Pointers
      BY <1>2, <1>7 DEF ReceiveBody, Connections
    <2>2. ConnOK'
      BY <1>7 DEF ReceiveBody, Inv, ConnOK
    <2>3. BodyOf[d] \in Bodies
      BY <1>2, <1>7, ServerAssumption DEF ReceiveBody
    <2>4. heap' = [heap EXCEPT ![p] = [heap[p] EXCEPT !.body = BodyOf[d]]]
      BY <1>7, <2>1 DEF ReceiveBody, Inv, RegistryOK
    <2>5. [heap[p] EXCEPT !.body = BodyOf[d]] \in Descriptors
      BY <2>1, <2>3 DEF Descriptors, Inv, RegistryOK
    <2>6. heap' \in [Pointers -> Descriptors]
      BY <2>4, <2>5 DEF Inv, RegistryOK
    <2>7. RegistryOK'
      BY <1>7, <2>6 DEF ReceiveBody, registry, Inv, RegistryOK
    <2> QED
      BY <1>1, <1>2, <1>7, <2>2, <2>7 DEF ReceiveBody
  <1>8. CASE ReceiveId(c)
    <2>1. IdOf[d] \in Ids \cup {NoId}
      BY <1>2, <1>8, ServerAssumption DEF ReceiveId
    <2>2. Link(Identified(conn[h], IdOf[d]))
      BY <1>2, <1>8, <2>1, IdentifiedFacts DEF ReceiveId, Link
    <2>3. ConnOK'
      BY <1>3, <1>8, <2>2 DEF ReceiveId
    <2> QED
      BY <1>1, <1>2, <1>8, <2>3 DEF ReceiveId, registry, Inv, RegistryOK
  <1>9. CASE ReceiveAlive(c)
    <2>1. Link(KeepAliveAnswer(conn[h], TRUE))
      <3>1. /\ KeepAliveAnswer(conn[h], TRUE) \in Connections
            /\ KeepAliveAnswer(conn[h], TRUE).missed = 0
        BY <1>2, <1>9, AnswerFacts DEF ReceiveAlive
      <3>2. 0 < DeadAfter
        BY ConnectionAssumption
      <3> QED
        BY <3>1, <3>2 DEF Link
    <2>2. ConnOK'
      BY <1>3, <1>9, <2>1 DEF ReceiveAlive
    <2> QED
      BY <1>1, <1>2, <1>9, <2>2 DEF ReceiveAlive, registry, Inv, RegistryOK
  <1>10. CASE ReceiveTalk(c)
    <2>1. sock[c] # <<>>
      BY <1>2, <1>10 DEF ReceiveTalk
    <2> QED
      BY <1>1, <1>10, <2>1
      DEF ReceiveTalk, process, registry, Inv, ConnOK, RegistryOK
  <1> QED
    BY <1>4, <1>5, <1>6, <1>7, <1>8, <1>9, <1>10

LEMMA LotterySteps ==
  ASSUME Inv, NEW c \in Cans, ReceiveLottery(c)
  PROVE  Inv'
  <1>1. sock[c] # <<>> /\ Head(sock[c]) \in Frames
    BY ReceivedFacts DEF ReceiveLottery, Inv
  <1>2. BusOK'
    <2>1. failures' \in Failures
      BY FailureFacts DEF ReceiveLottery, Inv, BusOK
    <2> QED
      BY <1>1, <2>1, ConsumeFacts DEF ReceiveLottery, Inv
  <1> DEFINE d == Head(sock[c]).from
  <1>3. PICK n \in FreeSlots(c) :
          /\ pool' = pool \cup {<<c, n>>}
          /\ \/ device' = device
             \/ device' = [device EXCEPT
                              ![d] = [Without("joining") EXCEPT !.node = n]]
    BY DEF ReceiveLottery
  <1>4. n \in NodeIds /\ d \in Devices
    BY <1>1 DEF FreeSlots, Frames
  <1>5. pool' \subseteq Handlers
    BY <1>3, <1>4 DEF Inv, RegistryOK, Handlers
  <1>6. Board(d, [Without("joining") EXCEPT !.node = n])
    BY <1>4, JoinFacts
  <1>7. DeviceOK'
    <2>1. CASE device' = device
      BY <2>1 DEF Inv, DeviceOK
    <2>2. CASE device' # device
      BY <1>3, <1>4, <1>6, <2>2, DeviceUpdate DEF Inv
    <2> QED
      BY <2>1, <2>2
  <1> QED
    BY <1>2, <1>5, <1>7 DEF ReceiveLottery, registry, Inv, ConnOK, RegistryOK

(* RegisterNewHandler: what it appends or replaces is well formed. *)
LEMMA RegisterSteps ==
  ASSUME Inv, NEW c \in Cans,
         RegisterNew(c) \/ RegisterReplacing(c) \/ RegisterHolding(c)
  PROVE  Inv'
  <1> DEFINE h == Addressee(c)
  <1>1. /\ InitAccepted(c) /\ Accepted(c, "init")
        /\ conn[h].desc \in Pointers
        /\ descriptor_map' \in [Names -> Pointers \cup {NoPointer}]
    BY InitAcceptedFacts DEF RegisterNew, RegisterReplacing, RegisterHolding
  <1>2. h \in Handlers /\ sock[c] # <<>> /\ Link(conn[h])
    BY <1>1, AcceptedFacts
  <1>3. Keys(conn[h].desc) \subseteq Pointers
    BY <1>1, KeysFacts
  <1>4. Consume(c) /\ failures' \in Failures => BusOK'
    BY <1>2, ConsumeFacts DEF Inv
  <1>5. Start(h) => DeviceOK' /\ failures' \in Failures
    BY CommandFacts DEF Start, Inv, BusOK
  <1> HIDE DEF h
  <1>6. CASE RegisterNew(c)
    <2>1. GetBoard(h) \in Instances
      BY <1>1, <1>2, GetBoardFacts DEF Inv
    <2>2. PICK k \in Pointers : handlers' = [handlers EXCEPT ![k] = Append(@, GetBoard(h))]
      BY <1>3, <1>6 DEF RegisterNew, h
    <2>3. handlers' \in [Pointers -> Seq(Instances)]
      <3>1. Append(handlers[k], GetBoard(h)) \in Seq(Instances)
        BY <2>1, AppendProperties DEF Inv, RegistryOK
      <3> QED
        BY <2>2, <3>1 DEF Inv, RegistryOK
    <2>4. boards' \in Seq(Instances)
      BY <1>6, <2>1, AppendProperties DEF RegisterNew, h, Inv, RegistryOK
    <2>5. Len(boards') \in Nat
      BY <2>4
    <2>6. conn' = [conn EXCEPT ![h] = Launch(conn[h], Len(boards'))]
      BY <1>6 DEF RegisterNew, h
    <2>7. ConnOK'
      BY <1>2, <2>5, <2>6, LaunchLink, ConnUpdate DEF Inv
    <2>8. BusOK' /\ DeviceOK'
      BY <1>4, <1>5, <1>6 DEF RegisterNew, h
    <2> QED
      BY <1>1, <1>6, <2>3, <2>4, <2>7, <2>8 DEF RegisterNew, Inv, RegistryOK
  <1>7. CASE RegisterReplacing(c)
    <2>0. PICK k \in Keys(conn[h].desc) :
            \E i \in First(Owners(k, conn[h].id)) :
              LET old == handlers[k][i].backend
              IN  /\ handlers' = [handlers EXCEPT ![k][i].backend = h]
                  /\ boards' = ReplaceBackendHandler(conn[old].frontend, h)
                  /\ conn' = [conn EXCEPT ![h] = Launch(@, conn[old].frontend)]
      BY <1>7 DEF RegisterReplacing, h
    <2>1. PICK i \in First(Owners(k, conn[h].id)) :
            LET old == handlers[k][i].backend
            IN  /\ handlers' = [handlers EXCEPT ![k][i].backend = h]
                /\ boards' = ReplaceBackendHandler(conn[old].frontend, h)
                /\ conn' = [conn EXCEPT ![h] = Launch(@, conn[old].frontend)]
      BY <2>0
    <2> DEFINE old == handlers[k][i].backend
               f == conn[old].frontend
    <2>2. k \in Pointers /\ i \in DOMAIN handlers[k] /\ old # NoHandler
      BY <1>3 DEF First, Owners
    <2>3. old \in Handlers
      BY <2>2, OwnerFacts DEF Inv
    <2>4. f \in Nat
      BY <2>3 DEF Inv, ConnOK, Connections
    <2>5. handlers' \in [Pointers -> Seq(Instances)]
      BY <1>2, <2>1, <2>2, RegistryUpdate DEF Inv
    <2> HIDE DEF f
    <2>6. boards' \in Seq(Instances)
      BY <1>2, <2>1, InstanceUpdate DEF f, ReplaceBackendHandler, Inv, RegistryOK
    <2>7. conn' = [conn EXCEPT ![h] = Launch(conn[h], f)]
      BY <2>1 DEF f
    <2>8. ConnOK'
      BY <1>2, <2>4, <2>7, LaunchLink, ConnUpdate DEF Inv
    <2>9. BusOK' /\ DeviceOK'
      BY <1>4, <1>5, <1>7 DEF RegisterReplacing, h
    <2> QED
      BY <1>1, <1>7, <2>5, <2>6, <2>8, <2>9 DEF RegisterReplacing, Inv, RegistryOK
  <1>8. CASE RegisterHolding(c)
    <2>1. BusOK'
      BY <1>4, <1>8 DEF RegisterHolding, Inv, BusOK
    <2>2. holden' \subseteq Handlers
      BY <1>2, <1>8 DEF RegisterHolding, h, Inv, RegistryOK
    <2> QED
      BY <1>1, <1>8, <2>1, <2>2
      DEF RegisterHolding, Inv, ConnOK, DeviceOK, RegistryOK
  <1> QED
    BY <1>6, <1>7, <1>8

(* RequestNewHandler: the place of old goes to h, on either kind of call. *)
LEMMA ReplaceSteps ==
  ASSUME Inv, NEW f \in DOMAIN boards, NEW reboot \in BOOLEAN,
         Substitute(f, reboot), reboot => PowerMayFail
  PROVE  Inv'
  <1>1. PICK h \in Substitutes(f), i \in First(Candidates(f)) :
          Replace(f, boards[f].desc, i, h, reboot)
    BY DEF Substitute
  <1> DEFINE k == boards[f].desc
             old == handlers[k][i].backend
  <1>2. f \in Nat /\ boards[f] \in Instances
    BY DEF Inv, RegistryOK
  <1>3. k \in Pointers /\ h \in Handlers /\ i \in DOMAIN handlers[k]
    BY <1>2 DEF Instances, Substitutes, First, Candidates, Inv, RegistryOK
  <1> HIDE DEF k
  <1>4. old \in Handlers
    BY <1>1, <1>3, OwnerFacts DEF Replace, Inv, k
  <1>5. handlers' \in [Pointers -> Seq(Instances)]
    BY <1>1, <1>3, RegistryUpdate DEF Replace, Inv, k
  <1>6. boards' \in Seq(Instances)
    BY <1>1, <1>3, InstanceUpdate DEF Replace, ReplaceBackendHandler, Inv, RegistryOK
  <1>7. holden' \subseteq Handlers
    BY <1>1, <1>4 DEF Replace, Inv, RegistryOK, k
  <1>8. ConnOK'
    <2>1. Link(Launch(conn[h], f))
      BY <1>2, <1>3, LaunchLink DEF Inv, ConnOK
    <2>2. Link(CommandReboot(Launch(conn[h], f)))
      BY <2>1, RebootFacts DEF Link
    <2> DEFINE s == IF reboot THEN CommandReboot(Launch(conn[h], f))
                    ELSE Launch(conn[h], f)
    <2>3. Link(s)
      BY <2>1, <2>2
    <2>4. conn' = [conn EXCEPT ![h] = s]
      BY <1>1 DEF Replace
    <2> HIDE DEF s
    <2> QED
      BY <1>3, <2>3, <2>4, ConnUpdate DEF Inv
  <1>9. DeviceOK' /\ failures' \in Failures
    <2> DEFINE spent == IF reboot THEN PowerFailed ELSE failures
    <2>1. spent \in Failures
      BY FailureFacts DEF Inv, BusOK
    <2>2. \E given : Orders(given, spent)
      BY <1>1 DEF Replace
    <2> HIDE DEF spent
    <2> QED
      BY <2>1, <2>2, OrdersFacts DEF Inv
  <1> QED
    BY <1>1, <1>5, <1>6, <1>7, <1>8, <1>9 DEF Replace, Inv, RegistryOK, BusOK

LEMMA CallSteps ==
  ASSUME Inv, NEW f \in DOMAIN boards, Call(f)
  PROVE  Inv'
  <1>1. CASE Query(f)
    BY <1>1, ReplaceSteps DEF Query
  <1>2. CASE Reboot(f)
    <2>1. PowerMayFail /\ PowerFailed \in Failures
      BY <1>2, FailureFacts DEF Reboot, Inv
    <2>2. CASE Substitute(f, TRUE)
      BY <2>1, <2>2, ReplaceSteps
    <2>3. CASE ~Substitute(f, TRUE)
      <3> DEFINE b == boards[f].backend
      <3>1. /\ b # NoHandler
            /\ conn' = [conn EXCEPT ![b] = CommandReboot(@)]
            /\ Command(b, "REBOOT", PowerFailed)
            /\ UNCHANGED <<fault, pool, heap, registry, can, sock, panics>>
        BY <1>2, <2>3 DEF Reboot, Stale
      <3>2. boards[f] \in Instances
        BY DEF Inv, RegistryOK
      <3>3. b \in Handlers
        BY <3>1, <3>2 DEF Instances, Backends
      <3>4. Link(CommandReboot(conn[b]))
        BY <3>3, RebootFacts DEF Link, Inv, ConnOK
      <3>5. conn' = [conn EXCEPT ![b] = CommandReboot(conn[b])]
        BY <3>1
      <3>6. ConnOK'
        BY <3>3, <3>4, <3>5, ConnUpdate DEF Inv
      <3>7. DeviceOK' /\ failures' \in Failures
        BY <2>1, <3>1, CommandFacts DEF Inv
      <3> QED
        BY <3>1, <3>6, <3>7 DEF Inv, RegistryOK, BusOK, registry
    <2> QED
      BY <2>2, <2>3
  <1>3. CASE Stray(f)
    BY <1>3, CrashSteps DEF Stray, Faults, Inv, BusOK
  <1>4. CASE Unnamed(f)
    BY <1>4, CrashSteps DEF Unnamed, Faults, Inv, BusOK
  <1> QED
    BY <1>1, <1>2, <1>3, <1>4 DEF Call
-----------------------------------------------------------------------------
(* The theorem.                                                            *)

LEMMA InitInv == Init => Inv
  <1> SUFFICES ASSUME Init
               PROVE  Inv
    OBVIOUS
  <1>1. ConnOK
    BY NewConnectionFacts, ConnectionAssumption DEF ConnOK, Link, Init
  <1>2. DeviceOK
    BY WithoutFacts DEF DeviceOK, Board, Init
  <1>3. BusOK
    BY ServerAssumption DEF BusOK, Failures, Init
  <1>4. RegistryOK
    BY DEF RegistryOK, Init, Faults, Blank, Descriptors
  <1> QED
    BY <1>1, <1>2, <1>3, <1>4 DEF Inv

LEMMA NextInv == Inv /\ [Next]_vars => Inv'
  <1> SUFFICES ASSUME Inv, [Next]_vars
               PROVE  Inv'
    OBVIOUS
  <1>1. ASSUME NEW d \in Devices, Device(d)
        PROVE  Inv'
    BY <1>1, DeviceSteps
  <1>2. ASSUME NEW c \in Cans, Bind(c) \/ Invite(c) \/ KeepAliveRound(c)
        PROVE  Inv'
    BY <1>2, ProcessSteps
  <1>3. ASSUME NEW c \in Cans, Receive(c)
        PROVE  Inv'
    <2>1. CASE Abort(c)
      <3>1. PICK why \in Reasons : Crash(why)
        BY <2>1 DEF Abort
      <3> QED
        BY <2>1, <3>1, CrashSteps DEF Abort, Faults, Inv, BusOK
    <2> QED
      BY <1>3, <2>1, LotterySteps, HandlerSteps, RegisterSteps DEF Receive
  <1>4. ASSUME NEW f \in DOMAIN boards, Call(f)
        PROVE  Inv'
    BY <1>4, CallSteps
  <1>5. CASE Panic
    <2>1. panics' \in 0 .. MaxPanics
      BY <1>5, ServerAssumption DEF Panic, Inv, BusOK
    <2> QED
      BY <1>5, <2>1, CrashSteps DEF Panic, Faults
  <1>6. CASE UNCHANGED vars
    BY <1>6 DEF vars, process, registry, world, Inv, ConnOK, DeviceOK, BusOK, RegistryOK
  <1> QED
    BY <1>1, <1>2, <1>3, <1>4, <1>5, <1>6 DEF Next

(* In every reachable state each handler, queue, registry entry and board   *)
(* is well formed; in particular the missed keep-alives of a handler never  *)
(* exceed the limit that KeepAliveRequest tests with ==, and no board says  *)
(* more than its script, whatever fails, is lost or is restarted.           *)
THEOREM TypeCorrect == Spec => []TypeOK
  <1>1. Inv => TypeOK
    BY InvImpliesTypeOK
  <1> QED
    BY <1>1, InitInv, NextInv, PTL DEF Spec

-----------------------------------------------------------------------------
(***************************************************************************)
(* Who speaks at an address.  The server takes a frame for one of the      *)
(* board it gave the slot to, and an INIT for the end of that board's only *)
(* handshake.  Nothing in a frame says so: it follows from the order to    *)
(* reboot that opens each bus, as long as every board on the bus hears it, *)
(* and from slots being given away once.                                   *)
(***************************************************************************)

(* Not using an address. *)
OffBus(r) == r.phase \in {"off", "lottery"}

(* Every board on a bus that is opened hears the order to reboot.          *)
InvitationHeard ==
  \A c \in Cans : Invite(c) =>
    \A d \in Devices : BusOf[d] = c => OffBus(device'[d])

OnAir(d)   == can[BusOf[d]] = "invited" /\ device[d].node # NoNode
Joining(d) == OnAir(d) /\ device[d].phase = "joining"

Addressed(c) == {i \in DOMAIN sock[c] : sock[c][i].kind # "lottery"}
Inits(c)     == {i \in DOMAIN sock[c] : sock[c][i].kind = "init"}
Place(c, i)  == <<c, sock[c][i].node>>

Registered == {h \in Handlers : h \in holden \/ conn[h].frontend # 0}

(* A board has an address exactly while it is past the lottery. *)
Tidy(r) == (OffBus(r) <=> r.node = NoNode) /\ (r.node = NoNode => ~r.asked)

BoardsTidy == \A d \in Devices : Tidy(device[d])

(* Nothing is heard before the invitation, no slot is given before the last.*)
Quiet ==
  /\ \A c \in Cans : can[c] # "invited" => DOMAIN sock[c] = {}
  /\ pool # {} => Up

(* Who speaks was given a slot by this process. *)
SpeakersKnown ==
  /\ \A d \in Devices : OnAir(d) => Slot(d) \in pool
  /\ \A c \in Cans :
       /\ \A i \in DOMAIN sock[c] : BusOf[sock[c][i].from] = c
       /\ \A i \in Addressed(c) : Place(c, i) \in pool

(* At an address only one board is, was, or is still heard. *)
OneSpeaker ==
  /\ \A d, e \in Devices : OnAir(d) /\ OnAir(e) /\ Slot(d) = Slot(e) => d = e
  /\ \A c \in Cans : \A i \in Addressed(c) :
       /\ \A d \in Devices : OnAir(d) /\ Slot(d) = Place(c, i) => sock[c][i].from = d
       /\ \A j \in Addressed(c) :
            Place(c, i) = Place(c, j) => sock[c][i].from = sock[c][j].from

(* A handshake ends once: an INIT in the queue is the last, *)
InitOnce ==
  \A c \in Cans : \A i \in Inits(c) :
    /\ \A j \in Inits(c) : Place(c, i) = Place(c, j) => i = j
    /\ \A d \in Devices : Joining(d) => Slot(d) # Place(c, i)

(* and after it was handled there are none.                                *)
RegisteredOnce ==
  \A h \in Registered :
    /\ h \in pool
    /\ \A c \in Cans : \A i \in Inits(c) : Place(c, i) # h
    /\ \A d \in Devices : Joining(d) => Slot(d) # h

AddressInv ==
  /\ BoardsTidy /\ Quiet /\ SpeakersKnown
  /\ OneSpeaker /\ InitOnce /\ RegisteredOnce
-----------------------------------------------------------------------------
(* Steps in which boards and queues only lose what they had.               *)

(* The board keeps its address or gives it up, and does not join anew. *)
Tamed(d) ==
  /\ device'[d].node \in {device[d].node, NoNode}
  /\ device'[d].phase = "joining" => device[d].phase = "joining"

(* The queue is what it was, but for s frames at its head. *)
Dropped(c, s) ==
  \A i \in DOMAIN sock'[c] :
    i + s \in DOMAIN sock[c] /\ sock'[c][i] = sock[c][i + s]

LEMMA TailDropped ==
  ASSUME BusOK, NEW c \in Cans, sock[c] # <<>>, Consume(c)
  PROVE  /\ Dropped(c, 1)
         /\ \A e \in Cans : \E s \in Nat : Dropped(e, s)
         /\ \A i \in DOMAIN sock'[c] : i + 1 # 1
         /\ 1 \in DOMAIN sock[c] /\ sock[c][1] = Head(sock[c])
  <1>1. sock[c] \in Seq(Frames) /\ sock'[c] = Tail(sock[c])
    BY DEF BusOK, Consume
  <1>2. /\ DOMAIN sock'[c] \subseteq Nat \ {0}
        /\ \A i \in DOMAIN sock'[c] :
             i + 1 \in DOMAIN sock[c] /\ sock'[c][i] = sock[c][i + 1]
    BY <1>1, HeadTailProperties
  <1>3. ASSUME NEW e \in Cans, e # c
        PROVE  Dropped(e, 0)
    <2>1. sock'[e] = sock[e] /\ sock[e] \in Seq(Frames)
      BY <1>3 DEF BusOK, Consume
    <2>2. \A i \in DOMAIN sock[e] : i + 0 = i
      BY <2>1
    <2> QED
      BY <2>1, <2>2 DEF Dropped
  <1>4. Dropped(c, 1)
    BY <1>2 DEF Dropped
  <1>5. 1 \in DOMAIN sock[c] /\ sock[c][1] = Head(sock[c])
    BY <1>1, HeadTailProperties
  <1>6. \A i \in DOMAIN sock'[c] : i + 1 # 1
    BY <1>2
  <1> QED
    BY <1>3, <1>4, <1>5, <1>6

LEMMA SameDropped ==
  ASSUME BusOK, NEW c \in Cans, sock'[c] = sock[c]
  PROVE  Dropped(c, 0)
  <1>1. sock[c] \in Seq(Frames)
    BY DEF BusOK
  <1>2. \A i \in DOMAIN sock[c] : i + 0 = i
    BY <1>1
  <1> QED
    BY <1>2 DEF Dropped

LEMMA TameSteps ==
  ASSUME AddressInv, BusOK', can' = can, pool' = pool,
         \A d \in Devices : Tamed(d),
         \A c \in Cans : \E s \in Nat : Dropped(c, s)
  PROVE  Quiet' /\ SpeakersKnown' /\ OneSpeaker' /\ InitOnce'
  <1>1. \A d \in Devices : OnAir(d)' => OnAir(d) /\ Slot(d)' = Slot(d)
    BY DEF Tamed, OnAir, Slot
  <1>2. \A d \in Devices : Joining(d)' => Joining(d)
    BY <1>1 DEF Tamed, Joining
  <1> DEFINE Old(c, i, k) ==
        /\ k \in DOMAIN sock[c] /\ sock'[c][i] = sock[c][k]
  <1>3. \A c \in Cans : \E s \in Nat : \A i \in DOMAIN sock'[c] : Old(c, i, i + s)
    BY DEF Dropped
  <1>4. \A c \in Cans : \A i \in DOMAIN sock'[c] : \E k : Old(c, i, k)
    BY <1>3
  <1>5. Quiet'
    BY <1>4 DEF AddressInv, Quiet, Up
  <1>6. SpeakersKnown'
    BY <1>1, <1>4 DEF AddressInv, SpeakersKnown, Addressed, Place
  <1>7. OneSpeaker'
    BY <1>1, <1>4 DEF AddressInv, OneSpeaker, Addressed, Place
  <1>8. InitOnce'
    <2> SUFFICES ASSUME NEW c \in Cans, NEW i \in Inits(c)'
                 PROVE  /\ \A j \in Inits(c)' : Place(c, i)' = Place(c, j)' => i = j
                        /\ \A d \in Devices : Joining(d)' => Slot(d)' # Place(c, i)'
      BY DEF InitOnce
    <2>1. PICK s \in Nat : \A j \in DOMAIN sock'[c] : Old(c, j, j + s)
      BY <1>3
    <2>2. \A j \in Inits(c)' :
            j + s \in Inits(c) /\ Place(c, j)' = Place(c, j + s)
      BY <2>1 DEF Inits, Place
    <2>3. \A j \in Inits(c)' : Place(c, i)' = Place(c, j)' => i + s = j + s
      BY <2>2 DEF AddressInv, InitOnce
    <2>4. \A j \in Inits(c)' : j \in Nat
      BY DEF Inits, BusOK
    <2>5. \A j \in Inits(c)' : Place(c, i)' = Place(c, j)' => i = j
      BY <2>3, <2>4
    <2>6. \A d \in Devices : Joining(d)' => Joining(d) /\ Slot(d)' = Slot(d)
      BY <1>1, <1>2 DEF Joining
    <2>7. \A d \in Devices : Joining(d) => Slot(d) # Place(c, i + s)
      BY <2>2 DEF AddressInv, InitOnce
    <2> QED
      BY <2>2, <2>5, <2>6, <2>7
  <1> QED
    BY <1>5, <1>6, <1>7, <1>8

LEMMA TameInv ==
  ASSUME AddressInv, BusOK', BoardsTidy', can' = can, pool' = pool,
         \A d \in Devices : Tamed(d),
         \A c \in Cans : \E s \in Nat : Dropped(c, s),
         Registered' \subseteq Registered
  PROVE  AddressInv'
  <1>1. Quiet' /\ SpeakersKnown' /\ OneSpeaker' /\ InitOnce'
    BY TameSteps
  <1>2. \A d \in Devices : Joining(d)' => Joining(d) /\ Slot(d)' = Slot(d)
    BY DEF Tamed, Joining, OnAir, Slot
  <1>3. \A c \in Cans : \A i \in Inits(c)' :
          \E k \in Inits(c) : Place(c, i)' = Place(c, k)
    BY DEF Dropped, Inits, Place
  <1>4. RegisteredOnce'
    BY <1>2, <1>3 DEF AddressInv, RegisteredOnce
  <1> QED
    BY <1>1, <1>4 DEF AddressInv

LEMMA SameTidy ==
  ASSUME BoardsTidy, device' = device
  PROVE  BoardsTidy' /\ \A d \in Devices : Tamed(d)
  BY DEF BoardsTidy, Tamed

LEMMA SameDevices ==
  ASSUME AddressInv, device' = device
  PROVE  BoardsTidy' /\ \A d \in Devices : Tamed(d)
  BY SameTidy DEF AddressInv

LEMMA OneTidy ==
  ASSUME BoardsTidy, DeviceOK, NEW d \in Devices, NEW r, Tidy(r),
         r.node \in {device[d].node, NoNode},
         r.phase = "joining" => device[d].phase = "joining",
         device' = [device EXCEPT ![d] = r]
  PROVE  BoardsTidy' /\ \A e \in Devices : Tamed(e)
  BY DEF BoardsTidy, Tamed, DeviceOK

LEMMA OneDevice ==
  ASSUME AddressInv, DeviceOK, NEW d \in Devices, NEW r, Tidy(r),
         r.node \in {device[d].node, NoNode},
         r.phase = "joining" => device[d].phase = "joining",
         device' = [device EXCEPT ![d] = r]
  PROVE  BoardsTidy' /\ \A e \in Devices : Tamed(e)
  BY OneTidy DEF AddressInv

LEMMA ObeyedTame ==
  ASSUME NEW r \in DeviceStates, NEW command
  PROVE  LET s == Obeyed(r, command)
         IN  /\ Tidy(r) => Tidy(s)
             /\ s.node \in {r.node, NoNode}
             /\ s.phase = "joining" => r.phase = "joining"
  <1>1. CASE Obeyed(r, command) = Without("lottery")
    BY <1>1 DEF Without, Tidy, OffBus
  <1>2. CASE Obeyed(r, command) = r
    BY <1>2
  <1>3. CASE /\ Obeyed(r, command) = [r EXCEPT !.phase = "operational"]
             /\ r.phase = "waiting"
    BY <1>3 DEF Tidy, OffBus, DeviceStates
  <1>4. CASE /\ Obeyed(r, command) = [r EXCEPT !.phase = "waiting"]
             /\ r.phase = "operational"
    BY <1>4 DEF Tidy, OffBus, DeviceStates
  <1> QED
    BY <1>1, <1>2, <1>3, <1>4 DEF Obeyed

LEMMA OrdersTidy ==
  ASSUME BoardsTidy, DeviceOK, NEW given, NEW spent, Orders(given, spent)
  PROVE  BoardsTidy' /\ \A d \in Devices : Tamed(d)
  <1>1. \A d \in Devices : \/ device'[d] = device[d]
                           \/ \E command : device'[d] = Obeyed(device[d], command)
    BY DEF Orders
  <1>2. \A d \in Devices : device[d] \in DeviceStates /\ Tidy(device[d])
    BY DEF DeviceOK, BoardsTidy
  <1>3. \A d \in Devices : Tidy(device'[d]) /\ Tamed(d)
    BY <1>1, <1>2, ObeyedTame DEF Tamed
  <1> QED
    BY <1>3 DEF BoardsTidy

LEMMA OrdersTame ==
  ASSUME AddressInv, DeviceOK, NEW given, NEW spent, Orders(given, spent)
  PROVE  BoardsTidy' /\ \A d \in Devices : Tamed(d)
  BY OrdersTidy DEF AddressInv
-----------------------------------------------------------------------------
(* A frame is sent. *)

LEMMA SendAddress ==
  ASSUME Inv, BusOK', AddressInv, ~EarlyFrames, BoardsTidy',
         NEW d \in Devices, NEW kind \in Kinds, NEW spent, Send(d, kind, spent),
         can' = can, pool' = pool, Registered' = Registered,
         \A e \in Devices : Tamed(e),
         device'[d].node = device[d].node,
         kind # "lottery" => device[d].node # NoNode,
         kind = "init" => device[d].phase = "joining" /\ device'[d].phase # "joining"
  PROVE  AddressInv'
  <1> DEFINE c == BusOf[d]
             n == Len(sock[c]) + 1
             frame == [kind |-> kind, from |-> d, node |-> device[d].node]
  <1>0. c \in Cans
    BY ServerAssumption
  <1>1. CASE sock' = sock
    <2>1. \A e \in Cans : Dropped(e, 0)
      BY <1>1, SameDropped DEF Inv
    <2> QED
      BY <2>1, TameInv
  <1>2. CASE sock' = [sock EXCEPT ![c] = Append(@, frame)] /\ Listening(c)
    <2>1. can[c] = "invited" /\ Slot(d) = <<c, device[d].node>>
      BY <1>2 DEF Listening, Slot
    <2>2. /\ n \notin DOMAIN sock[c]
          /\ n \in DOMAIN sock'[c] /\ sock'[c][n] = frame
          /\ \A i \in DOMAIN sock'[c] :
               i # n => i \in DOMAIN sock[c] /\ sock'[c][i] = sock[c][i]
      <3>1. sock[c] \in Seq(Frames) /\ sock'[c] = Append(sock[c], frame)
        BY <1>0, <1>2 DEF Inv, BusOK
      <3>2. frame \in Frames
        BY DEF Frames, Inv, DeviceOK, DeviceStates
      <3>3. /\ Len(sock'[c]) = n /\ sock'[c][n] = frame /\ sock'[c] \in Seq(Frames)
            /\ \A i \in 1 .. Len(sock[c]) : sock'[c][i] = sock[c][i]
        BY <3>1, <3>2, AppendProperties
      <3>4. Len(sock[c]) \in Nat /\ DOMAIN sock[c] = 1 .. Len(sock[c])
        BY <3>1
      <3>5. DOMAIN sock'[c] = 1 .. n
        BY <3>3
      <3> QED
        BY <3>3, <3>4, <3>5
    <2> HIDE DEF n
    <2>3. \A e \in Cans : e # c => sock'[e] = sock[e]
      BY <1>2 DEF Inv, BusOK
    <2> DEFINE Old(e, i) == i \in DOMAIN sock[e] /\ sock'[e][i] = sock[e][i]
               New(e, i) == e = c /\ i = n /\ sock'[e][i] = frame
    <2>4. \A e \in Cans : \A i \in DOMAIN sock'[e] : Old(e, i) \/ New(e, i)
      BY <2>2, <2>3
    <2>5. frame.kind = kind /\ frame.from = d /\ frame.node = device[d].node
      OBVIOUS
    <2> HIDE DEF frame, c
    <2>6. \A e \in Devices : OnAir(e)' => OnAir(e) /\ Slot(e)' = Slot(e)
      BY DEF Tamed, OnAir, Slot
    <2>7. kind # "lottery" => OnAir(d)
      BY <2>1 DEF OnAir, c
    <2>8. kind # "lottery" => Slot(d) \in pool
      BY <2>7 DEF AddressInv, SpeakersKnown
    <2>9. Quiet'
      BY <2>1, <2>4 DEF AddressInv, Quiet, Up
    <2>10. SpeakersKnown'
      BY <2>1, <2>4, <2>5, <2>6, <2>8
      DEF AddressInv, SpeakersKnown, Addressed, Place, c
    <2>11. \A e \in Cans : \A i \in Addressed(e)' :
              \/ i \in Addressed(e) /\ Place(e, i)' = Place(e, i)
                                  /\ sock'[e][i].from = sock[e][i].from
              \/ New(e, i) /\ Place(e, i)' = Slot(d)
                           /\ sock'[e][i].from = d /\ OnAir(d)
      BY <2>1, <2>4, <2>5, <2>7 DEF Addressed, Place
    <2>12. OneSpeaker'
      BY <2>6, <2>11 DEF AddressInv, OneSpeaker
    <2>13. \A e \in Cans : \A i \in Inits(e)' :
              \/ i \in Inits(e) /\ Place(e, i)' = Place(e, i)
              \/ New(e, i) /\ Place(e, i)' = Slot(d) /\ kind = "init"
      BY <2>1, <2>4, <2>5 DEF Inits, Place
    <2>14. kind = "init" => Joining(d) /\ ~Joining(d)'
      BY <2>7 DEF Joining
    <2>15. \A e \in Devices : Joining(e)' => Joining(e) /\ Slot(e)' = Slot(e)
      BY <2>6 DEF Joining, Tamed
    <2>16. \A e \in Devices : Joining(e) /\ Slot(e) = Slot(d) /\ OnAir(d) => e = d
      BY DEF Joining, AddressInv, OneSpeaker
    <2>17. InitOnce'
      <3>1. kind = "init" =>
              \A e \in Cans : \A i \in Inits(e) : Place(e, i) # Slot(d)
        BY <2>14 DEF AddressInv, InitOnce
      <3>2. ASSUME NEW e \in Cans, NEW i \in Inits(e)', NEW j \in Inits(e)',
                   Place(e, i)' = Place(e, j)'
            PROVE  i = j
        BY <2>13, <3>1, <3>2 DEF AddressInv, InitOnce
      <3>3. ASSUME NEW e \in Cans, NEW i \in Inits(e)',
                   NEW b \in Devices, Joining(b)'
            PROVE  Slot(b)' # Place(e, i)'
        BY <2>7, <2>13, <2>14, <2>15, <2>16, <3>3 DEF AddressInv, InitOnce
      <3> QED
        BY <3>2, <3>3 DEF InitOnce
    <2>18. RegisteredOnce'
      BY <2>13, <2>14, <2>15 DEF AddressInv, RegisteredOnce
    <2> QED
      BY <2>9, <2>10, <2>12, <2>17, <2>18 DEF AddressInv
  <1> QED
    BY <1>1, <1>2 DEF Send, Deliver

(* What a board does by itself, it keeps its address in, or gives it up. *)
LEMMA DeviceTame ==
  ASSUME Inv, BoardsTidy, NEW d \in Devices, Device(d)
  PROVE  BoardsTidy' /\ \A e \in Devices : Tamed(e)
  <1> DEFINE r == device[d]
  <1>1. r \in DeviceStates /\ Tidy(r) /\ DeviceOK
    BY DEF Inv, DeviceOK, BoardsTidy
  <1>2. \A p \in {"off", "lottery"} :
          /\ Tidy(Without(p)) /\ Without(p).node = NoNode
          /\ Without(p).phase # "joining"
    BY DEF Tidy, Without, OffBus
  <1>3. CASE PowerOn(d) \/ PowerOff(d)
    <2>1. PICK p \in {"off", "lottery"} :
            device' = [device EXCEPT ![d] = Without(p)]
      BY <1>3 DEF PowerOn, PowerOff
    <2> QED
      BY <1>1, <1>2, <2>1, OneTidy
  <1>4. CASE device' = device
    BY <1>4, SameTidy
  <1>5. CASE Speak(d)
    <2> DEFINE told == r.told + 1
               phase == IF told = Len(Script(d)) THEN "waiting" ELSE r.phase
               s == [r EXCEPT !.told = told, !.phase = phase]
    <2>1. device' = [device EXCEPT ![d] = s] /\ r.phase = "joining"
      BY <1>5 DEF Speak, Inv, DeviceOK
    <2>2. phase \in {"joining", "waiting"}
      BY <2>1
    <2>3. s.node = r.node /\ s.asked = r.asked /\ s.phase = phase
      BY <1>1 DEF DeviceStates
    <2>4. Tidy(s)
      BY <1>1, <2>1, <2>2, <2>3 DEF Tidy, OffBus
    <2> HIDE DEF told, phase, s
    <2> QED
      BY <1>1, <2>1, <2>3, <2>4, OneTidy
  <1>6. CASE Answer(d)
    <2> DEFINE s == [r EXCEPT !.asked = FALSE]
    <2>1. device' = [device EXCEPT ![d] = s]
      BY <1>6 DEF Answer, Inv, DeviceOK
    <2>2. s.node = r.node /\ s.phase = r.phase /\ Tidy(s)
      BY <1>1 DEF Tidy, OffBus, DeviceStates
    <2> HIDE DEF s
    <2> QED
      BY <1>1, <2>1, <2>2, OneTidy
  <1> QED
    BY <1>3, <1>4, <1>5, <1>6 DEF Device, Enter, Talk

(* It sends at most one frame, from its address unless it has none yet, and *)
(* an INIT at the end of its handshake only.                                *)
Utters(d, kind) ==
  /\ \E spent : Send(d, kind, spent)
  /\ device'[d].node = device[d].node
  /\ kind # "lottery" => device[d].node # NoNode
  /\ kind = "init" => device[d].phase = "joining" /\ device'[d].phase # "joining"

LEMMA DeviceUtters ==
  ASSUME Inv, BoardsTidy, NEW d \in Devices, Device(d)
  PROVE  /\ UNCHANGED process /\ can' = can
         /\ sock' = sock \/ \E kind \in Kinds : Utters(d, kind)
  <1> DEFINE r == device[d]
  <1>1. r \in DeviceStates /\ Tidy(r) /\ DeviceOK
    BY DEF Inv, DeviceOK, BoardsTidy
  <1>2. UNCHANGED process /\ can' = can
    BY DEF Device, PowerOn, PowerOff, Enter, Speak, Answer, Talk
  <1>3. CASE PowerOn(d) \/ PowerOff(d)
    BY <1>2, <1>3 DEF PowerOn, PowerOff
  <1>4. CASE Enter(d)
    <2>1. Utters(d, "lottery")
      BY <1>4 DEF Enter, Utters
    <2> QED
      BY <1>2, <2>1 DEF Kinds
  <1>5. CASE Speak(d)
    <2> DEFINE told == r.told + 1
               phase == IF told = Len(Script(d)) THEN "waiting" ELSE r.phase
               s == [r EXCEPT !.told = told, !.phase = phase]
    <2>1. r.phase = "joining" /\ Send(d, Script(d)[told], failures)
      BY <1>5 DEF Speak
    <2>2. device'[d] = s
      BY <1>5 DEF Speak, Inv, DeviceOK
    <2>3. told \in 1 .. Len(Script(d))
      BY <1>1, <2>1, ScriptFacts DEF Board, DeviceStates, Inv, DeviceOK
    <2>4. /\ Script(d)[told] \in Kinds \ {"lottery"}
          /\ Script(d)[told] = "init" => told = Len(Script(d))
      <3>1. CASE IdOf[d] = NoId
        BY <2>3, <3>1 DEF Script, Kinds
      <3>2. CASE IdOf[d] # NoId
        BY <2>3, <3>2 DEF Script, Kinds
      <3> QED
        BY <3>1, <3>2
    <2>5. s.phase = phase /\ s.node = r.node /\ r.node # NoNode
      BY <1>1, <2>1 DEF DeviceStates, Tidy, OffBus
    <2>6. told = Len(Script(d)) => phase = "waiting"
      OBVIOUS
    <2> HIDE DEF told, phase, s
    <2>7. Utters(d, Script(d)[told])
      BY <2>1, <2>2, <2>4, <2>5, <2>6 DEF Utters
    <2> QED
      BY <1>2, <2>4, <2>7
  <1>6. CASE Answer(d)
    <2>1. r.node # NoNode /\ Send(d, "alive", failures)
      BY <1>1, <1>6 DEF Tidy, Answer
    <2>2. device'[d].node = r.node
      BY <1>1, <1>6 DEF Answer, DeviceOK, DeviceStates
    <2>3. Utters(d, "alive")
      BY <2>1, <2>2 DEF Utters
    <2> QED
      BY <1>2, <2>3 DEF Kinds
  <1>7. ASSUME NEW kind \in Chatter, Talk(d, kind)
        PROVE  \E k \in Kinds : Utters(d, k)
    <2>1. kind \in Kinds /\ kind # "init"
      BY ServerAssumption DEF Kinds
    <2>2. Utters(d, kind)
      BY <1>7, <2>1 DEF Talk, Utters
    <2> QED
      BY <2>1, <2>2
  <1> QED
    BY <1>2, <1>3, <1>4, <1>5, <1>6, <1>7 DEF Device

LEMMA DeviceAddress ==
  ASSUME Inv, BusOK', AddressInv, ~EarlyFrames, NEW d \in Devices, Device(d)
  PROVE  AddressInv'
  <1>1. BoardsTidy' /\ \A e \in Devices : Tamed(e)
    BY DeviceTame DEF AddressInv
  <1>2. /\ UNCHANGED process /\ can' = can
        /\ sock' = sock \/ \E kind \in Kinds : Utters(d, kind)
    BY DeviceUtters DEF AddressInv
  <1>3. pool' = pool /\ Registered' = Registered
    BY <1>2 DEF process, registry, Registered
  <1>4. CASE sock' = sock
    <2>1. \A e \in Cans : Dropped(e, 0)
      BY <1>4, SameDropped DEF Inv
    <2> QED
      BY <1>1, <1>2, <1>3, <2>1, TameInv
  <1>5. ASSUME NEW kind \in Kinds, Utters(d, kind)
        PROVE  AddressInv'
    <2>1. PICK spent : Send(d, kind, spent)
      BY <1>5 DEF Utters
    <2> QED
      BY <1>1, <1>2, <1>3, <1>5, <2>1, SendAddress DEF Utters
  <1> QED
    BY <1>2, <1>4, <1>5
-----------------------------------------------------------------------------
(* The process starts, dies, polls.                                        *)

LEMMA CrashAddress ==
  ASSUME AddressInv, NEW why, Crash(why), device' = device
  PROVE  AddressInv'
  <1>1. /\ \A c \in Cans : can'[c] = "closed" /\ DOMAIN sock'[c] = {}
        /\ pool' = {} /\ Registered' = {}
    BY NewConnectionFacts DEF Crash, Registered
  <1>2. \A d \in Devices : ~OnAir(d)'
    BY <1>1, ServerAssumption DEF OnAir
  <1>3. Quiet' /\ SpeakersKnown' /\ OneSpeaker' /\ InitOnce' /\ RegisteredOnce'
    BY <1>1, <1>2
    DEF Quiet, SpeakersKnown, OneSpeaker, InitOnce, RegisteredOnce, Addressed, Inits
  <1> QED
    BY <1>3, SameDevices DEF AddressInv

(* Before the last bus is opened nobody is on the air.                     *)
LEMMA NobodyOnAir ==
  ASSUME AddressInv, ~Up
  PROVE  /\ pool = {} /\ Registered = {}
         /\ \A d \in Devices : ~OnAir(d)
         /\ \A c \in Cans : Addressed(c) = {} /\ Inits(c) = {}
  <1>1. pool = {} /\ Registered = {}
    BY DEF AddressInv, Quiet, RegisteredOnce
  <1>2. \A c \in Cans : Addressed(c) = {} /\ Inits(c) \subseteq Addressed(c)
    BY <1>1 DEF AddressInv, SpeakersKnown, Addressed, Inits
  <1> QED
    BY <1>1, <1>2 DEF AddressInv, SpeakersKnown

(* A keep-alive round asks boards, and moves none. *)
LEMMA RoundTame ==
  ASSUME Inv, BoardsTidy, NEW c \in Cans, KeepAliveRound(c)
  PROVE  BoardsTidy' /\ \A d \in Devices : Tamed(d)
  <1>1. ASSUME NEW d \in Devices
        PROVE  Tidy(device'[d]) /\ Tamed(d)
    <2> DEFINE r == device[d]
    <2>1. r \in DeviceStates /\ Tidy(r)
      BY DEF Inv, DeviceOK, BoardsTidy
    <2>2. CASE device'[d] = r
      BY <2>1, <2>2 DEF Tamed
    <2>3. CASE device'[d] = [r EXCEPT !.asked = TRUE] /\ Slot(d) \in pool
      <3>1. r.node # NoNode
        BY <2>3, ServerAssumption DEF Slot, Inv, RegistryOK, Handlers
      <3>2. LET s == [r EXCEPT !.asked = TRUE]
            IN  s.node = r.node /\ s.phase = r.phase
        BY <2>1 DEF DeviceStates
      <3> QED
        BY <2>1, <2>3, <3>1, <3>2 DEF Tidy, OffBus, Tamed
    <2> QED
      BY <2>2, <2>3 DEF KeepAliveRound, ToPoll
  <1> QED
    BY <1>1 DEF BoardsTidy

LEMMA ProcessAddress ==
  ASSUME Inv, BusOK', AddressInv, InvitationHeard, NEW c \in Cans,
         Bind(c) \/ Invite(c) \/ KeepAliveRound(c)
  PROVE  AddressInv'
  <1>1. ASSUME ~Up, pool' = pool, sock' = sock, Registered' = Registered,
               BoardsTidy', \A d \in Devices : ~OnAir(d)',
               \A e \in Cans : can'[e] # "invited" => can[e] # "invited"
        PROVE  AddressInv'
    <2>1. pool' = {} /\ Registered' = {}
      BY <1>1, NobodyOnAir
    <2>2. \A e \in Cans : Addressed(e)' = {} /\ Inits(e)' = {}
      BY <1>1, NobodyOnAir DEF Addressed, Inits
    <2>3. Quiet' /\ SpeakersKnown'
      BY <1>1, <2>1, <2>2 DEF AddressInv, Quiet, SpeakersKnown
    <2>4. OneSpeaker' /\ InitOnce' /\ RegisteredOnce'
      BY <1>1, <2>1, <2>2 DEF OneSpeaker, InitOnce, RegisteredOnce
    <2> QED
      BY <1>1, <2>3, <2>4 DEF AddressInv
  <1>2. CASE Bind(c)
    <2>1. ~Up /\ device' = device /\ Registered' = Registered
      BY <1>2 DEF Bind, Up, registry, Registered
    <2>2. \A e \in Cans : can'[e] = "invited" => can[e] = "invited"
      BY <1>2 DEF Bind, Inv, BusOK
    <2>3. \A d \in Devices : ~OnAir(d)'
      BY <2>1, <2>2, NobodyOnAir, ServerAssumption DEF OnAir
    <2>4. \A e \in Cans : can'[e] # "invited" => can[e] # "invited"
      BY <1>2 DEF Bind, Inv, BusOK
    <2> QED
      BY <1>1, <1>2, <2>1, <2>3, <2>4, SameDevices DEF Bind
  <1>3. CASE Invite(c)
    <2>1. ~Up /\ UNCHANGED process /\ sock' = sock
      BY <1>3 DEF Invite, Up
    <2>2. pool' = pool /\ Registered' = Registered
      BY <2>1 DEF process, registry, Registered
    <2>3. BoardsTidy' /\ \A d \in Devices : Tamed(d)
      BY <1>3, OrdersTame DEF Invite, Inv
    <2>4. ASSUME NEW d \in Devices, OnAir(d)'
          PROVE  FALSE
      <3>1. CASE BusOf[d] = c
        BY <1>3, <2>3, <2>4, <3>1 DEF InvitationHeard, BoardsTidy, Tidy, OnAir
      <3>2. CASE BusOf[d] # c
        <4>1. can'[BusOf[d]] = can[BusOf[d]]
          BY <1>3, <3>2 DEF Invite, Inv, BusOK
        <4>2. OnAir(d)
          BY <2>3, <2>4, <4>1 DEF Tamed, OnAir
        <4> QED
          BY <2>1, <4>2, NobodyOnAir
      <3> QED
        BY <3>1, <3>2
    <2>5. \A e \in Cans : can'[e] # "invited" => can[e] # "invited"
      BY <1>3 DEF Invite, Inv, BusOK
    <2> QED
      BY <1>1, <2>1, <2>2, <2>3, <2>4, <2>5
  <1>4. CASE KeepAliveRound(c)
    <2>1. /\ can' = can /\ pool' = pool /\ sock' = sock /\ holden' = holden
          /\ \A h \in Handlers : conn'[h] \in {conn[h], KeepAliveRequest(conn[h])}
      BY <1>4 DEF KeepAliveRound, registry
    <2>2. \A h \in Handlers : conn'[h].frontend = conn[h].frontend
      BY <2>1, RequestKeeps DEF Inv, ConnOK
    <2>3. Registered' = Registered
      BY <2>1, <2>2 DEF Registered
    <2>4. BoardsTidy' /\ \A d \in Devices : Tamed(d)
      BY <1>4, RoundTame DEF AddressInv
    <2>5. \A e \in Cans : Dropped(e, 0)
      BY <2>1, SameDropped DEF Inv
    <2> QED
      BY <2>1, <2>3, <2>4, <2>5, TameInv
  <1> QED
    BY <1>2, <1>3, <1>4
-----------------------------------------------------------------------------
(* A frame is received.                                                    *)

(* A new slot: nobody was ever heard at it. *)
LEMMA LotteryAddress ==
  ASSUME Inv, BusOK', AddressInv, NEW c \in Cans, ReceiveLottery(c)
  PROVE  AddressInv'
  <1>1. /\ sock[c] # <<>> /\ Head(sock[c]) \in Frames
        /\ Up /\ can' = can /\ Consume(c)
    BY ReceivedFacts DEF ReceiveLottery, Received, Consume, Inv
  <1>0. PICK d \in Devices : d = Head(sock[c]).from
    BY <1>1 DEF Frames
  <1>2. PICK n \in FreeSlots(c) :
          /\ pool' = pool \cup {<<c, n>>}
          /\ \/ device' = device
             \/ /\ device[d].phase = "lottery"
                /\ device' = [device EXCEPT
                                ![d] = [Without("joining") EXCEPT !.node = n]]
    BY <1>0 DEF ReceiveLottery
  <1> DEFINE h == <<c, n>>
             r == [Without("joining") EXCEPT !.node = n]
  <1>3. h \notin pool /\ n \in NodeIds /\ n # NoNode
    BY ServerAssumption DEF FreeSlots
  <1>4. Registered' = Registered
    BY DEF ReceiveLottery, registry, Registered
  <1>5. r.node = n /\ r.phase = "joining" /\ Tidy(r)
    BY <1>3 DEF Without, Tidy, OffBus
  <1>6. BusOf[d] = c
    BY <1>0, <1>1, TailDropped DEF AddressInv, SpeakersKnown, Inv
  <1> HIDE DEF r
  <1>7. /\ BoardsTidy'
        /\ \A e \in Devices :
             \/ OnAir(e)' = OnAir(e) /\ Slot(e)' = Slot(e) /\ Joining(e)' = Joining(e)
             \/ e = d /\ Slot(e)' = h
    <2>1. CASE device' = device
      BY <1>1, <2>1, SameDevices DEF OnAir, Slot, Joining
    <2>2. CASE device' = [device EXCEPT ![d] = r]
      <3>1. \A e \in Devices : device'[e] = IF e = d THEN r ELSE device[e]
        BY <2>2 DEF Inv, DeviceOK
      <3>2. BoardsTidy'
        BY <1>5, <3>1 DEF AddressInv, BoardsTidy
      <3>3. Slot(d)' = h
        BY <1>1, <1>5, <1>6, <3>1 DEF Slot
      <3> QED
        BY <1>1, <3>1, <3>2, <3>3 DEF OnAir, Slot, Joining
    <2> QED
      BY <1>2, <2>1, <2>2 DEF r
  <1>8. \A e \in Cans : \E s \in Nat : Dropped(e, s)
    BY <1>1, TailDropped DEF Inv
  <1> DEFINE Old(e, i, k) == k \in DOMAIN sock[e] /\ sock'[e][i] = sock[e][k]
  <1>9. \A e \in Cans : \E s \in Nat : \A i \in DOMAIN sock'[e] : Old(e, i, i + s)
    BY <1>8 DEF Dropped
  <1>10. \A e \in Cans : \A i \in DOMAIN sock'[e] : \E k : Old(e, i, k)
    BY <1>9
  <1>11. \A e \in Cans : \A i \in Addressed(e) : Place(e, i) # h
    BY <1>3 DEF AddressInv, SpeakersKnown
  <1>12. \A e \in Devices : OnAir(e) => Slot(e) # h
    BY <1>3 DEF AddressInv, SpeakersKnown
  <1> HIDE DEF h
  <1>13. Quiet'
    BY <1>1, <1>10 DEF AddressInv, Quiet, Up
  <1>14. SpeakersKnown'
    <2>1. \A e \in Devices : OnAir(e)' => Slot(e)' \in pool'
      BY <1>2, <1>7 DEF AddressInv, SpeakersKnown, h
    <2>2. \A e \in Cans :
            /\ \A i \in DOMAIN sock'[e] : BusOf[sock'[e][i].from] = e
            /\ \A i \in Addressed(e)' : Place(e, i)' \in pool'
      BY <1>2, <1>10 DEF AddressInv, SpeakersKnown, Addressed, Place
    <2> QED
      BY <2>1, <2>2 DEF SpeakersKnown
  <1>15. \A e \in Cans : \A i \in Addressed(e)' : \E k \in Addressed(e) :
            Place(e, i)' = Place(e, k) /\ sock'[e][i].from = sock[e][k].from
    BY <1>10 DEF Addressed, Place
  <1>16. OneSpeaker'
    BY <1>7, <1>11, <1>12, <1>15 DEF AddressInv, OneSpeaker
  <1>17. InitOnce'
    <2> SUFFICES ASSUME NEW e \in Cans, NEW i \in Inits(e)'
                 PROVE  /\ \A j \in Inits(e)' : Place(e, i)' = Place(e, j)' => i = j
                        /\ \A b \in Devices : Joining(b)' => Slot(b)' # Place(e, i)'
      BY DEF InitOnce
    <2>1. PICK s \in Nat : \A j \in DOMAIN sock'[e] : Old(e, j, j + s)
      BY <1>9
    <2>2. \A j \in Inits(e)' :
            /\ j \in Nat /\ j + s \in Inits(e) /\ j + s \in Addressed(e)
            /\ Place(e, j)' = Place(e, j + s)
      BY <2>1 DEF Inits, Place, BusOK, Addressed
    <2>3. \A j \in Inits(e)' : Place(e, i)' = Place(e, j)' => i + s = j + s
      BY <2>2 DEF AddressInv, InitOnce
    <2>4. \A j \in Inits(e)' : Place(e, i)' = Place(e, j)' => i = j
      BY <2>2, <2>3
    <2>5. \A b \in Devices : Joining(b)' => Slot(b)' # Place(e, i)'
      BY <1>7, <1>11, <2>2 DEF AddressInv, InitOnce
    <2> QED
      BY <2>4, <2>5
  <1>18. RegisteredOnce'
    <2>1. \A e \in Cans : \A i \in Inits(e)' : \E k \in Inits(e) :
            Place(e, i)' = Place(e, k)
      BY <1>10 DEF Inits, Place
    <2>2. \A g \in Registered : g \in pool /\ g # h
      BY <1>3 DEF AddressInv, RegisteredOnce, h
    <2> QED
      BY <1>2, <1>4, <1>7, <2>1, <2>2 DEF AddressInv, RegisteredOnce
  <1> QED
    BY <1>7, <1>13, <1>14, <1>16, <1>17, <1>18 DEF AddressInv

(* Any other frame is taken off the queue, and at most its addressee is     *)
(* registered, with the only INIT there is for it.                          *)
LEMMA ConsumeAddress ==
  ASSUME Inv, BusOK', AddressInv, NEW c \in Cans, sock[c] # <<>>, Consume(c),
         pool' = pool, BoardsTidy', \A d \in Devices : Tamed(d),
         \/ Registered' \subseteq Registered
         \/ /\ Accepted(c, "init")
            /\ Registered' \subseteq Registered \cup {Addressee(c)}
  PROVE  AddressInv'
  <1>1. can' = can /\ \A e \in Cans : \E s \in Nat : Dropped(e, s)
    BY TailDropped DEF Consume, Inv
  <1>2. CASE Registered' \subseteq Registered
    BY <1>1, <1>2, TameInv
  <1>3. CASE /\ Accepted(c, "init")
             /\ Registered' \subseteq Registered \cup {Addressee(c)}
    <2> DEFINE h == Addressee(c)
    <2>1. Quiet' /\ SpeakersKnown' /\ OneSpeaker' /\ InitOnce'
      BY <1>1, TameSteps
    <2>2. \A d \in Devices : Joining(d)' => Joining(d) /\ Slot(d)' = Slot(d)
      BY <1>1 DEF Tamed, Joining, OnAir, Slot
    <2>3. \A e \in Cans : \A i \in Inits(e)' :
            \E k \in Inits(e) : Place(e, i)' = Place(e, k)
      BY <1>1 DEF Dropped, Inits, Place
    <2>4. 1 \in Inits(c) /\ Place(c, 1) = h /\ h \in pool
      BY <1>3, TailDropped DEF Accepted, Received, Inits, Place, Addressee, Inv
    <2>5. \A e \in Cans : \A i \in Inits(e)' : Place(e, i)' # h
      <3>1. ASSUME NEW i \in Inits(c)', Place(c, i)' = h
            PROVE  FALSE
        <4>1. /\ i + 1 \in Inits(c) /\ Place(c, i + 1) = h /\ i + 1 # 1
          BY <3>1, TailDropped DEF Dropped, Inits, Place, Inv
        <4> QED
          BY <2>4, <4>1 DEF AddressInv, InitOnce
      <3> QED
        BY <3>1 DEF Place, Addressee
    <2>6. \A d \in Devices : Joining(d)' => Slot(d)' # h
      BY <2>2, <2>4 DEF AddressInv, InitOnce
    <2> HIDE DEF h
    <2>7. \A g \in Registered' : g \in Registered \/ g = h
      BY <1>3 DEF h
    <2>8. RegisteredOnce'
      BY <2>2, <2>3, <2>4, <2>5, <2>6, <2>7 DEF AddressInv, RegisteredOnce
    <2> QED
      BY <2>1, <2>8 DEF AddressInv
  <1> QED
    BY <1>2, <1>3

(* What a board says of itself, and its answers, launch nobody. *)
LEMMA HandlerKeeps ==
  ASSUME Inv, NEW c \in Cans,
         \/ ReceiveForDead(c) \/ ReceiveConfirm(c) \/ ReceiveName(c)
         \/ ReceiveBody(c) \/ ReceiveId(c) \/ ReceiveAlive(c) \/ ReceiveTalk(c)
  PROVE  /\ sock[c] # <<>> /\ Consume(c) /\ device' = device /\ pool' = pool
         /\ UNCHANGED registry
         /\ \A g \in Handlers :
              /\ conn'[g].frontend = conn[g].frontend
              /\ conn'[g].dead = conn[g].dead
  <1> DEFINE h == Addressee(c)
  <1>1. /\ sock[c] # <<>> /\ Consume(c) /\ device' = device /\ pool' = pool
        /\ UNCHANGED registry
    BY DEF ReceiveForDead, ReceiveConfirm, ReceiveName, ReceiveBody, ReceiveId,
           ReceiveAlive, ReceiveTalk, Accepted, Received, process
  <1>2. CASE ReceiveForDead(c) \/ ReceiveBody(c) \/ ReceiveTalk(c)
    BY <1>1, <1>2 DEF ReceiveForDead, ReceiveBody, ReceiveTalk, process
  <1>3. CASE ReceiveConfirm(c) \/ ReceiveName(c) \/ ReceiveId(c) \/ ReceiveAlive(c)
    <2>1. PICK kind : Accepted(c, kind)
      BY <1>3 DEF ReceiveConfirm, ReceiveName, ReceiveId, ReceiveAlive
    <2>2. h \in Handlers /\ conn[h] \in Connections
      BY <2>1, AcceptedFacts
    <2>3. \A r \in Connections : \A i :
            /\ Confirmed(r).frontend = r.frontend /\ Confirmed(r).dead = r.dead
            /\ Described(h, r).frontend = r.frontend /\ Described(h, r).dead = r.dead
            /\ Identified(r, i).frontend = r.frontend /\ Identified(r, i).dead = r.dead
            /\ KeepAliveAnswer(r, TRUE).frontend = r.frontend
            /\ KeepAliveAnswer(r, TRUE).dead = r.dead
      BY DEF Confirmed, Described, Identified, KeepAliveAnswer, Connections
    <2>4. PICK s : /\ s.frontend = conn[h].frontend /\ s.dead = conn[h].dead
                   /\ conn' = [conn EXCEPT ![h] = s]
      BY <1>3, <2>2, <2>3 DEF ReceiveConfirm, ReceiveName, ReceiveId, ReceiveAlive
    <2> QED
      BY <1>1, <2>2, <2>4 DEF Inv, ConnOK
  <1> QED
    BY <1>2, <1>3

LEMMA HandlerAddress ==
  ASSUME Inv, BusOK', AddressInv, NEW c \in Cans,
         \/ ReceiveForDead(c) \/ ReceiveConfirm(c) \/ ReceiveName(c)
         \/ ReceiveBody(c) \/ ReceiveId(c) \/ ReceiveAlive(c) \/ ReceiveTalk(c)
  PROVE  AddressInv'
  <1>1. Registered' = Registered
    BY HandlerKeeps DEF Registered, registry
  <1> QED
    BY <1>1, HandlerKeeps, SameDevices, ConsumeAddress

LEMMA RegisterAddress ==
  ASSUME Inv, BusOK', AddressInv, NEW c \in Cans,
         RegisterNew(c) \/ RegisterReplacing(c) \/ RegisterHolding(c)
  PROVE  AddressInv'
  <1> DEFINE h == Addressee(c)
  <1>1. Accepted(c, "init") /\ Consume(c) /\ pool' = pool
    BY DEF RegisterNew, RegisterReplacing, RegisterHolding, InitAccepted, InitComplete
  <1>2. sock[c] # <<>> /\ h \in Handlers
    BY <1>1, AcceptedFacts
  <1>3. BoardsTidy' /\ \A d \in Devices : Tamed(d)
    BY OrdersTame, SameDevices
    DEF RegisterNew, RegisterReplacing, RegisterHolding, Start, Command, Inv
  <1>4. /\ holden' \subseteq holden \cup {h}
        /\ \A g \in Handlers \ {h} : conn'[g] = conn[g]
    <2>1. CASE RegisterNew(c)
      BY <1>2, <2>1 DEF RegisterNew, Inv, ConnOK
    <2>2. CASE RegisterReplacing(c)
      BY <1>2, <2>2 DEF RegisterReplacing, Inv, ConnOK
    <2>3. CASE RegisterHolding(c)
      BY <1>2, <2>3 DEF RegisterHolding, Inv, ConnOK
    <2> QED
      BY <2>1, <2>2, <2>3
  <1> HIDE DEF h
  <1>5. Registered' \subseteq Registered \cup {h}
    BY <1>4 DEF Registered
  <1> QED
    BY <1>1, <1>2, <1>3, <1>5, ConsumeAddress DEF h
(* A handler that changes and is not launched is no more registered than it *)
(* was.                                                                     *)
LEMMA SameRegistered ==
  ASSUME ConnOK, NEW h \in Handlers, NEW s, s.frontend = conn[h].frontend,
         conn' = [conn EXCEPT ![h] = s], holden' = holden
  PROVE  /\ Registered' = Registered
         /\ \A g \in Handlers : conn'[g].frontend = conn[g].frontend
  <1>1. \A g \in Handlers : conn'[g].frontend = conn[g].frontend
    BY DEF ConnOK
  <1> QED
    BY <1>1 DEF Registered

(* A reboot order without a substitute. *)
LEMMA RebootFrontends ==
  ASSUME Inv, NEW f \in DOMAIN boards, Reboot(f), ~Substitute(f, TRUE)
  PROVE  LET b == boards[f].backend
         IN  /\ b \in Handlers /\ ~Stale(f)
             /\ conn' = [conn EXCEPT ![b] = CommandReboot(conn[b])]
             /\ Command(b, "REBOOT", PowerFailed)
             /\ UNCHANGED <<fault, pool, heap, registry, can, sock, panics>>
             /\ Registered' = Registered
             /\ \A g \in Handlers : conn'[g].frontend = conn[g].frontend
  <1> DEFINE b == boards[f].backend
  <1>1. /\ b # NoHandler /\ ~Stale(f)
        /\ conn' = [conn EXCEPT ![b] = CommandReboot(@)]
        /\ Command(b, "REBOOT", PowerFailed)
        /\ UNCHANGED <<fault, pool, heap, registry, can, sock, panics>>
    BY DEF Reboot, Stale
  <1>2. boards[f] \in Instances
    BY DEF Inv, RegistryOK
  <1>3. b \in Handlers /\ conn[b] \in Connections
    BY <1>1, <1>2 DEF Instances, Backends, Inv, ConnOK
  <1>4. CommandReboot(conn[b]).frontend = conn[b].frontend
    BY <1>3, RebootFacts
  <1>5. conn' = [conn EXCEPT ![b] = CommandReboot(conn[b])] /\ holden' = holden
    BY <1>1 DEF registry
  <1>6. /\ Registered' = Registered
        /\ \A g \in Handlers : conn'[g].frontend = conn[g].frontend
    BY <1>3, <1>4, <1>5, SameRegistered DEF Inv
  <1> QED
    BY <1>1, <1>3, <1>5, <1>6
-----------------------------------------------------------------------------
(* Who is in the registry has been launched, and stays so.                 *)

OwnersLaunched ==
  \A k \in Pointers : \A i \in DOMAIN handlers[k] :
    handlers[k][i].backend # NoHandler => conn[handlers[k][i].backend].frontend # 0

LEMMA OwnersKept ==
  ASSUME Inv, OwnersLaunched, handlers' = handlers,
         \A g \in Handlers : conn'[g].frontend = conn[g].frontend
  PROVE  OwnersLaunched'
  BY OwnerFacts DEF OwnersLaunched, Inv

(* One place of the registry is given to h, which is launched with it.     *)
LEMMA OwnersGiven ==
  ASSUME Inv, OwnersLaunched, NEW k \in Pointers, NEW i \in DOMAIN handlers[k],
         NEW h \in Handlers, conn'[h].frontend # 0,
         handlers' = [handlers EXCEPT ![k][i].backend = h],
         \A g \in Handlers \ {h} : conn'[g].frontend = conn[g].frontend
  PROVE  OwnersLaunched'
  <1> SUFFICES ASSUME NEW l \in Pointers, NEW j \in DOMAIN handlers'[l],
                      handlers'[l][j].backend # NoHandler
               PROVE  conn'[handlers'[l][j].backend].frontend # 0
    BY DEF OwnersLaunched
  <1>1. j \in DOMAIN handlers[l]
    BY DEF Inv, RegistryOK
  <1>2. CASE l = k /\ j = i
    <2>1. handlers[k] \in Seq(Instances) /\ handlers[k][i] \in Instances
      BY DEF Inv, RegistryOK
    <2>2. handlers'[k] = [handlers[k] EXCEPT ![i] = [handlers[k][i] EXCEPT !.backend = h]]
      BY <2>1 DEF Inv, RegistryOK
    <2>3. handlers'[k][i].backend = h
      BY <2>1, <2>2 DEF Instances
    <2> QED
      BY <1>2, <2>3
  <1>3. CASE ~(l = k /\ j = i)
    <2>1. handlers'[l][j] = handlers[l][j]
      BY <1>3 DEF Inv, RegistryOK
    <2> QED
      BY <1>1, <2>1, OwnerFacts DEF OwnersLaunched, Inv
  <1> QED
    BY <1>2, <1>3

LEMMA OwnersRegister ==
  ASSUME Inv, OwnersLaunched, NEW c \in Cans, RegisterNew(c) \/ RegisterReplacing(c)
  PROVE  OwnersLaunched'
  <1> DEFINE h == Addressee(c)
  <1>1. /\ InitAccepted(c) /\ h \in Handlers /\ conn[h].desc \in Pointers
        /\ conn[h] \in Connections
    BY InitAcceptedFacts, AcceptedFacts DEF RegisterNew, RegisterReplacing
  <1>2. Keys(conn[h].desc) \subseteq Pointers
    BY <1>1, KeysFacts
  <1> HIDE DEF h
  <1>3. CASE RegisterNew(c)
    <2> DEFINE n == Len(boards) + 1
    <2>1. n \in Nat \ {0} /\ Len(boards') = n
      BY <1>3, AppendProperties DEF RegisterNew, Inv, RegistryOK
    <2>2. PICK k \in Pointers : handlers' = [handlers EXCEPT ![k] = Append(@, GetBoard(h))]
      BY <1>2, <1>3 DEF RegisterNew, h
    <2>3. conn' = [conn EXCEPT ![h] = Launch(conn[h], n)]
      BY <1>3, <2>1 DEF RegisterNew, h
    <2> HIDE DEF n
    <2>4. /\ \A g \in Handlers : conn[g].frontend # 0 => conn'[g].frontend # 0
          /\ conn'[h].frontend # 0
      BY <1>1, <2>1, <2>3, LaunchFacts DEF Inv, ConnOK
    <2>5. \A l \in Pointers : \A j \in DOMAIN handlers'[l] :
            \/ j \in DOMAIN handlers[l] /\ handlers'[l][j] = handlers[l][j]
            \/ handlers'[l][j] = GetBoard(h)
      BY <2>2, AppendProperties DEF Inv, RegistryOK
    <2>6. GetBoard(h).backend \in {h, NoHandler}
      BY DEF GetBoard
    <2> QED
      BY <2>4, <2>5, <2>6, OwnerFacts DEF OwnersLaunched, Inv
  <1>4. CASE RegisterReplacing(c)
    <2>1. PICK k \in Keys(conn[h].desc) : \E i \in First(Owners(k, conn[h].id)) :
            /\ handlers' = [handlers EXCEPT ![k][i].backend = h]
            /\ conn' = [conn EXCEPT ![h] =
                         Launch(@, conn[handlers[k][i].backend].frontend)]
      BY <1>4 DEF RegisterReplacing, h
    <2>2. PICK i \in First(Owners(k, conn[h].id)) :
            /\ handlers' = [handlers EXCEPT ![k][i].backend = h]
            /\ conn' = [conn EXCEPT ![h] =
                         Launch(@, conn[handlers[k][i].backend].frontend)]
      BY <2>1
    <2> DEFINE n == conn[handlers[k][i].backend].frontend
    <2>3. k \in Pointers /\ i \in DOMAIN handlers[k] /\ handlers[k][i].backend # NoHandler
      BY <1>2 DEF First, Owners
    <2>4. n \in Nat \ {0}
      BY <2>3, OwnerFacts DEF OwnersLaunched, Inv, ConnOK, Connections
    <2>5. conn' = [conn EXCEPT ![h] = Launch(conn[h], n)]
      BY <2>2
    <2> HIDE DEF n
    <2>6. /\ \A g \in Handlers \ {h} : conn'[g].frontend = conn[g].frontend
          /\ conn'[h].frontend # 0
      BY <1>1, <2>4, <2>5, LaunchFacts DEF Inv, ConnOK
    <2> QED
      BY <1>1, <2>2, <2>3, <2>6, OwnersGiven
  <1> QED
    BY <1>3, <1>4

LEMMA OwnersSubstitute ==
  ASSUME Inv, OwnersLaunched, NEW f \in DOMAIN boards, NEW reboot \in BOOLEAN,
         Substitute(f, reboot)
  PROVE  OwnersLaunched'
  <1>1. PICK h \in Substitutes(f), i \in First(Candidates(f)) :
          Replace(f, boards[f].desc, i, h, reboot)
    BY DEF Substitute
  <1> DEFINE k == boards[f].desc
             s == IF reboot THEN CommandReboot(Launch(conn[h], f)) ELSE Launch(conn[h], f)
  <1>2. boards[f] \in Instances /\ f \in Nat \ {0}
    BY DEF Inv, RegistryOK
  <1>3. /\ k \in Pointers /\ i \in DOMAIN handlers[k]
        /\ h \in Handlers /\ conn[h] \in Connections
    BY <1>2 DEF Instances, First, Candidates, Substitutes, Inv, RegistryOK, ConnOK
  <1>4. s.frontend = f
    BY <1>2, <1>3, LaunchFacts, RebootFacts
  <1>5. /\ handlers' = [handlers EXCEPT ![k][i].backend = h]
        /\ conn' = [conn EXCEPT ![h] = s]
    BY <1>1 DEF Replace
  <1> HIDE DEF s, k
  <1>6. /\ \A g \in Handlers \ {h} : conn'[g].frontend = conn[g].frontend
        /\ conn'[h].frontend # 0
    BY <1>2, <1>3, <1>4, <1>5 DEF Inv, ConnOK
  <1> QED
    BY <1>3, <1>5, <1>6, OwnersGiven

LEMMA OwnersSteps ==
  ASSUME Inv, OwnersLaunched, [Next]_vars
  PROVE  OwnersLaunched'
  <1>1. CASE UNCHANGED process
    BY <1>1 DEF process, registry, OwnersLaunched
  <1>2. ASSUME NEW why, Crash(why)
        PROVE  OwnersLaunched'
    BY <1>2 DEF Crash, OwnersLaunched
  <1>3. ASSUME NEW d \in Devices, Device(d)
        PROVE  OwnersLaunched'
    BY <1>1, <1>3 DEF Device, PowerOn, PowerOff, Enter, Speak, Answer, Talk
  <1>4. ASSUME NEW c \in Cans, Bind(c) \/ Invite(c)
        PROVE  OwnersLaunched'
    BY <1>4, OwnersKept DEF Bind, Invite, process, registry
  <1>5. ASSUME NEW c \in Cans, KeepAliveRound(c)
        PROVE  OwnersLaunched'
    <2>1. \A g \in Handlers : conn'[g].frontend = conn[g].frontend
      BY <1>5, RequestKeeps DEF KeepAliveRound, Inv, ConnOK
    <2> QED
      BY <1>5, <2>1, OwnersKept DEF KeepAliveRound, registry
  <1>6. ASSUME NEW c \in Cans, Receive(c)
        PROVE  OwnersLaunched'
    <2>1. CASE ReceiveLottery(c)
      BY <2>1, OwnersKept DEF ReceiveLottery, registry
    <2>2. CASE \/ ReceiveForDead(c) \/ ReceiveConfirm(c) \/ ReceiveName(c)
               \/ ReceiveBody(c) \/ ReceiveId(c) \/ ReceiveAlive(c) \/ ReceiveTalk(c)
      BY <2>2, HandlerKeeps, OwnersKept DEF registry
    <2>3. CASE RegisterNew(c) \/ RegisterReplacing(c)
      BY <2>3, OwnersRegister
    <2>4. CASE RegisterHolding(c)
      BY <2>4, OwnersKept DEF RegisterHolding
    <2>5. CASE Abort(c)
      BY <1>2, <2>5 DEF Abort
    <2> QED
      BY <1>6, <2>1, <2>2, <2>3, <2>4, <2>5 DEF Receive
  <1>7. ASSUME NEW f \in DOMAIN boards, Call(f)
        PROVE  OwnersLaunched'
    <2>1. CASE \E reboot \in BOOLEAN : Substitute(f, reboot)
      BY <2>1, OwnersSubstitute
    <2>2. CASE Reboot(f) /\ ~Substitute(f, TRUE)
      BY <2>2, RebootFrontends, OwnersKept DEF registry
    <2>3. CASE Stray(f) \/ Unnamed(f)
      BY <1>2, <2>3 DEF Stray, Unnamed
    <2> QED
      BY <1>7, <2>1, <2>2, <2>3 DEF Call, Query
  <1>8. CASE Panic
    BY <1>2, <1>8 DEF Panic
  <1>9. CASE UNCHANGED vars
    BY <1>1, <1>9 DEF vars
  <1> QED
    BY <1>3, <1>4, <1>5, <1>6, <1>7, <1>8, <1>9 DEF Next
-----------------------------------------------------------------------------
(* A ROS call only moves handlers that were registered.                    *)

LEMMA CallAddress ==
  ASSUME Inv, BusOK', AddressInv, OwnersLaunched, NEW f \in DOMAIN boards, Call(f)
  PROVE  AddressInv'
  <1>1. ASSUME sock' = sock, can' = can, pool' = pool,
               Registered' \subseteq Registered,
               \E given, spent : Orders(given, spent)
        PROVE  AddressInv'
    <2>1. BoardsTidy' /\ \A d \in Devices : Tamed(d)
      BY <1>1, OrdersTame DEF Inv
    <2>2. \A e \in Cans : Dropped(e, 0)
      BY <1>1, SameDropped DEF Inv
    <2> QED
      BY <1>1, <2>1, <2>2, TameInv
  <1>2. ASSUME NEW reboot \in BOOLEAN, Substitute(f, reboot)
        PROVE  AddressInv'
    <2>1. PICK h \in Substitutes(f), i \in First(Candidates(f)) :
            Replace(f, boards[f].desc, i, h, reboot)
      BY <1>2 DEF Substitute
    <2> DEFINE k == boards[f].desc
               old == handlers[k][i].backend
    <2>2. boards[f] \in Instances /\ f \in Nat
      BY DEF Inv, RegistryOK
    <2>3. k \in Pointers /\ i \in DOMAIN handlers[k] /\ h \in holden
      BY <2>2 DEF Instances, First, Candidates, Substitutes
    <2>4. /\ sock' = sock /\ can' = can /\ pool' = pool
          /\ \E given, spent : Orders(given, spent)
          /\ old # NoHandler
          /\ holden' \subseteq holden \cup (IF conn[old].dead THEN {} ELSE {old})
          /\ \A g \in Handlers \ {h} : conn'[g] = conn[g]
      BY <2>1 DEF Replace, Inv, ConnOK
    <2>5. old \in Registered
      BY <2>3, <2>4, OwnerFacts DEF OwnersLaunched, Registered, Inv
    <2>6. h \in Registered
      BY <2>3 DEF Registered, Inv, RegistryOK
    <2> HIDE DEF old
    <2>7. Registered' \subseteq Registered
      BY <2>4, <2>5, <2>6 DEF Registered
    <2> QED
      BY <1>1, <2>4, <2>7
  <1>3. CASE Query(f)
    BY <1>2, <1>3 DEF Query
  <1>4. CASE Reboot(f)
    <2>1. CASE Substitute(f, TRUE)
      BY <1>2, <2>1
    <2>2. CASE ~Substitute(f, TRUE)
      BY <1>1, <1>4, <2>2, RebootFrontends DEF Command, registry
    <2> QED
      BY <2>1, <2>2
  <1>5. CASE Stray(f) \/ Unnamed(f)
    BY <1>5, CrashAddress DEF Stray, Unnamed
  <1> QED
    BY <1>3, <1>4, <1>5 DEF Call
-----------------------------------------------------------------------------
(* The invariant and what it says.                                         *)

LEMMA InitAddress == Init => AddressInv /\ OwnersLaunched
  <1> SUFFICES ASSUME Init
               PROVE  AddressInv /\ OwnersLaunched
    OBVIOUS
  <1>1. BoardsTidy
    BY DEF Init, BoardsTidy, Tidy, Without, OffBus
  <1>2. /\ \A d \in Devices : ~OnAir(d)
        /\ \A c \in Cans : DOMAIN sock[c] = {}
        /\ pool = {} /\ Registered = {}
    BY NewConnectionFacts DEF Init, OnAir, Without, Registered
  <1>3. Quiet /\ SpeakersKnown /\ OneSpeaker /\ InitOnce /\ RegisteredOnce
    BY <1>2
    DEF Quiet, SpeakersKnown, OneSpeaker, InitOnce, RegisteredOnce, Addressed, Inits
  <1>4. OwnersLaunched
    BY DEF Init, OwnersLaunched
  <1> QED
    BY <1>1, <1>3, <1>4 DEF AddressInv

LEMMA NextAddress ==
  ASSUME Inv, AddressInv, OwnersLaunched, ~EarlyFrames, [Next]_vars, InvitationHeard
  PROVE  AddressInv'
  <1>0. BusOK'
    BY NextInv DEF Inv
  <1>1. ASSUME NEW c \in Cans, Receive(c)
        PROVE  AddressInv'
    <2>1. CASE Abort(c)
      BY <2>1, CrashAddress DEF Abort
    <2> QED
      BY <1>0, <1>1, <2>1, LotteryAddress, HandlerAddress, RegisterAddress DEF Receive
  <1>2. CASE Panic
    BY <1>2, CrashAddress DEF Panic
  <1>3. CASE UNCHANGED vars
    <2>1. \A e \in Cans : Dropped(e, 0)
      BY <1>3, SameDropped DEF vars, world, Inv
    <2>2. can' = can /\ pool' = pool /\ Registered' = Registered /\ device' = device
      BY <1>3 DEF vars, process, registry, world, Registered
    <2> QED
      BY <1>0, <2>1, <2>2, SameDevices, TameInv
  <1> QED
    BY <1>0, <1>1, <1>2, <1>3, DeviceAddress, ProcessAddress, CallAddress DEF Next

(* Frames are lost only where failures says so, the order to reboot among   *)
(* them, and what was lost stays lost.                                      *)
LEMMA OrdersHeard ==
  ASSUME NEW given, NEW spent \in Failures, Orders(given, spent), NothingLost'
  PROVE  /\ spent.lost = 0
         /\ device' = [d \in Devices |-> IF d \in DOMAIN given
                                         THEN Obeyed(device[d], given[d])
                                         ELSE device[d]]
  <1>1. ~FrameIsLost(spent)
    BY DEF FrameIsLost, NothingLost, Failures
  <1> QED
    BY <1>1 DEF Orders, NothingLost

LEMMA PowerIsNotLoss ==
  ASSUME BusOK, PowerMayFail
  PROVE  PowerFailed \in Failures /\ PowerFailed.lost = failures.lost
  BY FailureFacts DEF PowerFailed, BusOK, Failures

LEMMA LostIsCounted ==
  ASSUME Inv, BusOK', [Next]_vars, NothingLost'
  PROVE  NothingLost /\ InvitationHeard
  <1>0. failures \in Failures /\ ~FrameIsLost(failures)
    BY DEF Inv, BusOK, FrameIsLost, NothingLost, Failures
  <1>1. ASSUME NEW given, Orders(given, failures)
        PROVE  NothingLost
    BY <1>0, <1>1, OrdersHeard DEF NothingLost
  <1>2. ASSUME NEW given, PowerMayFail, Orders(given, PowerFailed)
        PROVE  NothingLost
    BY <1>2, OrdersHeard, PowerIsNotLoss DEF NothingLost, Inv
  <1>3. ASSUME UNCHANGED failures
        PROVE  NothingLost
    BY <1>3 DEF NothingLost
  <1>4. ASSUME NEW d \in Devices, Device(d)
        PROVE  NothingLost
    <2>1. CASE PowerOff(d)
      BY <2>1, PowerIsNotLoss DEF PowerOff, NothingLost, Inv
    <2>2. CASE PowerOn(d) \/ Speak(d) \/ Answer(d)
      BY <1>0, <1>3, <2>2 DEF PowerOn, Speak, Answer, Send, Deliver
    <2>3. CASE \E kind \in Chatter : Talk(d, kind)
      BY <1>0, <1>3, <2>3 DEF Talk, Send, Deliver
    <2>4. CASE Enter(d)
      <3>1. PICK spent \in {failures, PowerFailed} :
              /\ Send(d, "lottery", spent)
              /\ spent \in Failures /\ spent.lost = failures.lost
        BY <1>0, <2>4, PowerIsNotLoss DEF Enter, Inv
      <3>2. failures' = spent
        BY <3>1 DEF Send, Deliver, FrameIsLost, NothingLost, Failures
      <3> QED
        BY <3>1, <3>2 DEF NothingLost
    <2> QED
      BY <1>4, <2>1, <2>2, <2>3, <2>4 DEF Device
  <1>5. ASSUME NEW c \in Cans, Bind(c) \/ Invite(c) \/ KeepAliveRound(c)
        PROVE  NothingLost
    BY <1>1, <1>3, <1>5 DEF Bind, Invite, KeepAliveRound
  <1>6. ASSUME NEW c \in Cans, Receive(c)
        PROVE  NothingLost
    <2>1. CASE ReceiveLottery(c)
      BY <1>0, <1>3, <2>1 DEF ReceiveLottery
    <2>2. CASE \/ ReceiveForDead(c) \/ ReceiveConfirm(c) \/ ReceiveName(c)
               \/ ReceiveBody(c) \/ ReceiveId(c) \/ ReceiveAlive(c) \/ ReceiveTalk(c)
      BY <1>3, <2>2
      DEF ReceiveForDead, ReceiveConfirm, ReceiveName, ReceiveBody, ReceiveId,
          ReceiveAlive, ReceiveTalk
    <2>3. CASE RegisterNew(c) \/ RegisterReplacing(c)
      BY <1>1, <2>3 DEF RegisterNew, RegisterReplacing, Start, Command
    <2>4. CASE RegisterHolding(c) \/ Abort(c)
      BY <1>3, <2>4 DEF RegisterHolding, Abort
    <2> QED
      BY <1>6, <2>1, <2>2, <2>3, <2>4 DEF Receive
  <1>7. ASSUME NEW f \in DOMAIN boards, Call(f)
        PROVE  NothingLost
    <2>1. CASE Substitute(f, FALSE)
      BY <1>1, <2>1 DEF Substitute, Replace
    <2>2. CASE Reboot(f)
      <3>1. PowerMayFail
        BY <2>2 DEF Reboot
      <3>2. CASE Substitute(f, TRUE)
        BY <1>2, <3>1, <3>2 DEF Substitute, Replace
      <3>3. CASE ~Substitute(f, TRUE)
        BY <1>2, <2>2, <3>1, <3>3 DEF Reboot, Command
      <3> QED
        BY <3>2, <3>3
    <2>3. CASE Stray(f) \/ Unnamed(f)
      BY <1>3, <2>3 DEF Stray, Unnamed
    <2> QED
      BY <1>7, <2>1, <2>2, <2>3 DEF Call, Query
  <1>8. NothingLost
    <2>1. CASE Panic \/ UNCHANGED vars
      BY <1>3, <2>1 DEF Panic, vars, world
    <2> QED
      BY <1>4, <1>5, <1>6, <1>7, <2>1 DEF Next
  <1>9. ASSUME NEW c \in Cans, Invite(c), NEW d \in Devices, BusOf[d] = c
        PROVE  OffBus(device'[d])
    <2> DEFINE given == [b \in {e \in Devices : BusOf[e] = c /\ device[e].phase # "off"}
                           |-> "REBOOT"]
    <2>1. /\ DOMAIN given = {e \in Devices : BusOf[e] = c /\ device[e].phase # "off"}
          /\ \A e \in DOMAIN given : given[e] = "REBOOT"
      OBVIOUS
    <2>2. Orders(given, failures)
      BY <1>9 DEF Invite
    <2> HIDE DEF given
    <2>3. device'[d] = IF d \in DOMAIN given THEN Obeyed(device[d], given[d])
                       ELSE device[d]
      BY <1>0, <2>2, OrdersHeard
    <2>4. CASE device[d].phase = "off"
      BY <2>1, <2>3, <2>4 DEF OffBus
    <2>5. CASE device[d].phase # "off"
      BY <1>9, <2>1, <2>3, <2>5 DEF OffBus, Obeyed, Without
    <2> QED
      BY <2>4, <2>5
  <1> QED
    BY <1>8, <1>9 DEF InvitationHeard
-----------------------------------------------------------------------------
(* The theorem.  Every order to reboot is heard, whatever else is lost.     *)

Heard == [][InvitationHeard]_vars

LEMMA FaultKnown ==
  ASSUME Inv, AddressInv, AddressesKnown, [Next]_vars
  PROVE  AddressesKnown'
  <1>1. ASSUME NEW why, why # "unknown_address", Crash(why)
        PROVE  AddressesKnown'
    BY <1>1 DEF Crash, AddressesKnown
  <1>2. ASSUME UNCHANGED fault
        PROVE  AddressesKnown'
    BY <1>2 DEF AddressesKnown
  <1>3. ASSUME NEW c \in Cans, Abort(c)
        PROVE  AddressesKnown'
    <2>1. PICK why \in Reasons : Violates(c, why) /\ Crash(why)
      BY <1>3 DEF Abort
    <2>2. ASSUME NEW kind, kind # "lottery", Received(c, kind)
          PROVE  Addressee(c) \in pool
      <3>1. 1 \in Addressed(c) /\ Place(c, 1) = Addressee(c)
        BY <2>2, HeadTailProperties
        DEF Received, Addressed, Place, Addressee, Inv, BusOK
      <3> QED
        BY <3>1 DEF AddressInv, SpeakersKnown
    <2>3. why # "unknown_address"
      BY <2>1, <2>2 DEF Violates
    <2> QED
      BY <1>1, <2>1, <2>3
  <1>4. ASSUME NEW d \in Devices, Device(d)
        PROVE  AddressesKnown'
    BY <1>2, <1>4
    DEF Device, PowerOn, PowerOff, Enter, Speak, Answer, Talk, process
  <1>5. ASSUME NEW c \in Cans, Bind(c) \/ Invite(c) \/ KeepAliveRound(c)
        PROVE  AddressesKnown'
    BY <1>2, <1>5 DEF Bind, Invite, KeepAliveRound, process, AddressesKnown
  <1>6. ASSUME NEW c \in Cans, Receive(c), ~Abort(c)
        PROVE  AddressesKnown'
    BY <1>2, <1>6
    DEF Receive, ReceiveLottery, ReceiveForDead, ReceiveConfirm, ReceiveName,
        ReceiveBody, ReceiveId, ReceiveAlive, ReceiveTalk, RegisterNew,
        RegisterReplacing, RegisterHolding, process
  <1>7. ASSUME NEW f \in DOMAIN boards, Call(f)
        PROVE  AddressesKnown'
    <2>1. CASE Query(f) \/ Reboot(f)
      BY <1>2, <2>1 DEF Query, Reboot, Substitute, Replace
    <2>2. CASE Stray(f) \/ Unnamed(f)
      BY <1>1, <2>2 DEF Stray, Unnamed
    <2> QED
      BY <1>7, <2>1, <2>2 DEF Call
  <1>8. CASE Panic \/ UNCHANGED vars
    BY <1>1, <1>2, <1>8 DEF Panic, vars, process
  <1> QED
    BY <1>3, <1>4, <1>5, <1>6, <1>7, <1>8 DEF Next

(* A board that is heard at an address is the only one there, ends its     *)
(* handshake once, and is registered at most once, whatever frames are     *)
(* lost and however often boards and server restart, provided that nothing *)
(* is heard between Bind and Invite and all boards obey the invitation.    *)
THEOREM OneBoardPerAddress ==
  ASSUME ~EarlyFrames
  PROVE  Spec /\ Heard => [](AddressInv /\ OwnersLaunched)
  <1>1. Inv /\ AddressInv /\ OwnersLaunched /\ [Next]_vars /\ [InvitationHeard]_vars
          => (AddressInv /\ OwnersLaunched)'
    <2> SUFFICES ASSUME Inv, AddressInv, OwnersLaunched, [Next]_vars,
                        [InvitationHeard]_vars
                 PROVE  (AddressInv /\ OwnersLaunched)'
      OBVIOUS
    <2>1. InvitationHeard
      BY DEF InvitationHeard, Invite, vars, world, Inv, BusOK
    <2> QED
      BY <2>1, NextAddress, OwnersSteps
  <1> QED
    BY <1>1, InitInv, NextInv, InitAddress, PTL DEF Spec, Heard

(* All of this for as long as no frame was lost: the order to reboot is one.*)
LosslessInv ==
  NothingLost => AddressInv /\ OwnersLaunched /\ AddressesKnown

LEMMA LosslessSteps ==
  ASSUME ~EarlyFrames, Inv, LosslessInv, [Next]_vars
  PROVE  LosslessInv'
  <1> SUFFICES ASSUME NothingLost'
               PROVE  (AddressInv /\ OwnersLaunched /\ AddressesKnown)'
    BY DEF LosslessInv
  <1>1. NothingLost /\ InvitationHeard
    BY NextInv, LostIsCounted DEF Inv
  <1> QED
    BY <1>1, NextAddress, OwnersSteps, FaultKnown DEF LosslessInv
-----------------------------------------------------------------------------
(***************************************************************************)
(* Who is heard by a restarted server.  Tick asserts that a frame comes    *)
(* from a board that was given an address (can_handler.cpp:90), and the    *)
(* sockets are bound before the order to reboot is sent (27, 28), so a     *)
(* process may hear boards that it never invited.  Here nothing is assumed *)
(* of what it hears and of what is lost: what is shown is that it gets to  *)
(* know no strangers after the invitation, while it lives.                 *)
(***************************************************************************)

(* Each queue holds what the boards on its bus sent. *)
OwnBus == \A c \in Cans : \A i \in DOMAIN sock[c] : BusOf[sock[c][i].from] = c

HeardFromPool == OwnBus /\ Acquainted

LEMMA TameHeard ==
  ASSUME HeardFromPool, pool \subseteq pool', \A d \in Devices : Tamed(d),
         \A c \in Cans : \E s \in Nat : Dropped(c, s)
  PROVE  HeardFromPool'
  <1>1. \A d \in Devices : device'[d].node # NoNode =>
          device[d].node # NoNode /\ Slot(d)' = Slot(d)
    BY DEF Tamed, Slot
  <1>2. \A c \in Cans : \A i \in DOMAIN sock'[c] :
          \E k \in DOMAIN sock[c] : sock'[c][i] = sock[c][k]
    BY DEF Dropped
  <1> QED
    BY <1>1, <1>2 DEF HeardFromPool, OwnBus, Acquainted

LEMMA SendHeard ==
  ASSUME Inv, HeardFromPool, pool' = pool, \A e \in Devices : Tamed(e),
         NEW d \in Devices, NEW kind \in Kinds, Utters(d, kind)
  PROVE  HeardFromPool'
  <1> DEFINE c == BusOf[d]
             frame == [kind |-> kind, from |-> d, node |-> device[d].node]
  <1>0. c \in Cans
    BY ServerAssumption
  <1>1. CASE sock' = sock
    <2>1. \A e \in Cans : Dropped(e, 0)
      BY <1>1, SameDropped DEF Inv
    <2> QED
      BY <2>1, TameHeard
  <1>2. CASE sock' = [sock EXCEPT ![c] = Append(@, frame)]
    <2>1. frame \in Frames
      BY DEF Frames, Inv, DeviceOK, DeviceStates
    <2>2. frame.kind = kind /\ frame.from = d /\ frame.node = device[d].node
      OBVIOUS
    <2> HIDE DEF frame
    <2>3. sock[c] \in Seq(Frames) /\ sock'[c] = Append(sock[c], frame)
      BY <1>0, <1>2 DEF Inv, BusOK
    <2>4. \A e \in Cans : \A i \in DOMAIN sock'[e] :
            \/ \E k \in DOMAIN sock[e] : sock'[e][i] = sock[e][k]
            \/ e = c /\ sock'[e][i] = frame
      BY <1>2, <2>1, <2>3, AppendProperties DEF Inv, BusOK
    <2>5. \A e \in Devices : device'[e].node # NoNode =>
            device[e].node # NoNode /\ Slot(e)' = Slot(e)
      BY DEF Tamed, Slot
    <2>6. kind # "lottery" => Slot(d) \in pool /\ Slot(d) = <<c, device[d].node>>
      BY DEF HeardFromPool, Acquainted, Utters, Slot
    <2> QED
      BY <2>2, <2>4, <2>5, <2>6 DEF HeardFromPool, OwnBus, Acquainted
  <1> QED
    BY <1>1, <1>2 DEF Utters, Send, Deliver

LEMMA LotteryTidy ==
  ASSUME Inv, BoardsTidy, NEW c \in Cans, ReceiveLottery(c)
  PROVE  BoardsTidy'
  <1>1. ASSUME NEW n \in NodeIds
        PROVE  Tidy([Without("joining") EXCEPT !.node = n])
    BY ServerAssumption DEF Without, Tidy, OffBus
  <1>2. \A d \in Devices :
          \/ device'[d] = device[d]
          \/ \E n \in NodeIds : device'[d] = [Without("joining") EXCEPT !.node = n]
    BY DEF ReceiveLottery, FreeSlots, Inv, DeviceOK
  <1> QED
    BY <1>1, <1>2 DEF BoardsTidy

LEMMA LotteryHeard ==
  ASSUME Inv, BoardsTidy, HeardFromPool, NEW c \in Cans, ReceiveLottery(c)
  PROVE  HeardFromPool'
  <1>1. sock[c] # <<>> /\ Head(sock[c]) \in Frames /\ Consume(c)
    BY ReceivedFacts DEF ReceiveLottery, Received, Inv
  <1>2. PICK d \in Devices : d = Head(sock[c]).from
    BY <1>1 DEF Frames
  <1>3. PICK n \in FreeSlots(c) :
          /\ pool' = pool \cup {<<c, n>>}
          /\ \/ device' = device
             \/ device' = [device EXCEPT
                             ![d] = [Without("joining") EXCEPT !.node = n]]
    BY <1>2 DEF ReceiveLottery
  <1>4. \A e \in Cans : \E s \in Nat : Dropped(e, s)
    BY <1>1, TailDropped DEF Inv
  <1>5. CASE device' = device
    BY <1>3, <1>4, <1>5, SameTidy, TameHeard
  <1>6. CASE device' = [device EXCEPT ![d] = [Without("joining") EXCEPT !.node = n]]
    <2> DEFINE r == [Without("joining") EXCEPT !.node = n]
    <2>1. n \in NodeIds /\ n # NoNode
      BY ServerAssumption DEF FreeSlots
    <2>2. r.node = n
      BY <2>1 DEF Without
    <2>3. \A e \in Devices : device'[e] = IF e = d THEN r ELSE device[e]
      BY <1>6 DEF Inv, DeviceOK
    <2> HIDE DEF r
    <2>4. BusOf[d] = c
      BY <1>1, <1>2, TailDropped DEF HeardFromPool, OwnBus, Inv
    <2>5. \A e \in Devices : device'[e].node # NoNode => Slot(e)' \in pool'
      BY <1>3, <2>2, <2>3, <2>4 DEF HeardFromPool, Acquainted, Slot
    <2>6. \A e \in Cans : \A i \in DOMAIN sock'[e] :
            \E k \in DOMAIN sock[e] : sock'[e][i] = sock[e][k]
      BY <1>4 DEF Dropped
    <2> QED
      BY <1>3, <2>5, <2>6 DEF HeardFromPool, OwnBus, Acquainted
  <1> QED
    BY <1>3, <1>5, <1>6

(* The other frames, and the calls, at most give orders to boards. *)
LEMMA OrdersHeardOf ==
  ASSUME Inv, BoardsTidy, HeardFromPool, pool' = pool,
         \/ device' = device
         \/ \E given, spent : Orders(given, spent),
         \/ sock' = sock
         \/ \E c \in Cans : sock[c] # <<>> /\ Consume(c)
  PROVE  HeardFromPool'
  <1>1. BoardsTidy' /\ \A d \in Devices : Tamed(d)
    BY SameTidy, OrdersTidy DEF Inv
  <1>2. \A c \in Cans : \E s \in Nat : Dropped(c, s)
    BY SameDropped, TailDropped DEF Inv
  <1> QED
    BY <1>1, <1>2, TameHeard

LEMMA ReceiveOrders ==
  ASSUME NEW c \in Cans, Receive(c), ~Abort(c), ~ReceiveLottery(c)
  PROVE  /\ sock[c] # <<>> /\ Consume(c) /\ pool' = pool /\ fault' = fault
         /\ device' = device \/ \E given, spent : Orders(given, spent)
  <1>1. CASE \/ ReceiveForDead(c) \/ ReceiveConfirm(c) \/ ReceiveName(c)
             \/ ReceiveBody(c) \/ ReceiveId(c) \/ ReceiveAlive(c) \/ ReceiveTalk(c)
    BY <1>1
    DEF ReceiveForDead, ReceiveConfirm, ReceiveName, ReceiveBody, ReceiveId,
        ReceiveAlive, ReceiveTalk, Accepted, Received, process
  <1>2. CASE RegisterNew(c) \/ RegisterReplacing(c) \/ RegisterHolding(c)
    <2>1. /\ sock[c] # <<>> /\ Consume(c) /\ pool' = pool /\ fault' = fault
          /\ device' = device \/ Start(Addressee(c))
      BY <1>2
      DEF RegisterNew, RegisterReplacing, RegisterHolding, InitAccepted,
          InitComplete, Accepted, Received
    <2>2. device' = device \/ \E given, spent : Orders(given, spent)
      BY <2>1 DEF Start, Command
    <2> QED
      BY <2>1, <2>2
  <1> QED
    BY <1>1, <1>2 DEF Receive

LEMMA ReceiveHeard ==
  ASSUME Inv, BoardsTidy, HeardFromPool, NEW c \in Cans, Receive(c), ~Abort(c)
  PROVE  HeardFromPool' /\ fault' = fault
  <1>1. CASE ReceiveLottery(c)
    BY <1>1, LotteryHeard DEF ReceiveLottery
  <1>2. CASE ~ReceiveLottery(c)
    BY <1>2, ReceiveOrders, OrdersHeardOf
  <1> QED
    BY <1>1, <1>2

LEMMA CallHeard ==
  ASSUME Inv, BoardsTidy, HeardFromPool, NEW f \in DOMAIN boards,
         Query(f) \/ Reboot(f)
  PROVE  HeardFromPool' /\ fault' = fault
  <1>1. /\ pool' = pool /\ sock' = sock /\ fault' = fault
        /\ \E given, spent : Orders(given, spent)
    BY DEF Query, Reboot, Substitute, Replace, Command
  <1> QED
    BY <1>1, OrdersHeardOf

(* A process that dies leaves nothing behind but the boards. *)
LEMMA CrashHeard ==
  ASSUME BoardsTidy, NEW why, Crash(why), device' = device
  PROVE  BoardsTidy' /\ OwnBus' /\ (Up' => Acquainted') /\ fault' = why
  <1>1. /\ \A c \in Cans : can'[c] = "closed" /\ DOMAIN sock'[c] = {}
        /\ fault' = why
    BY DEF Crash
  <1>2. Up' => Devices = {}
    BY <1>1, ServerAssumption DEF Up
  <1> QED
    BY <1>1, <1>2, SameTidy DEF OwnBus, Acquainted

LEMMA AbortHeard ==
  ASSUME Inv, HeardFromPool, NEW c \in Cans, Abort(c)
  PROVE  AddressesKnown'
  <1>1. PICK why \in Reasons : Violates(c, why) /\ Crash(why)
    BY DEF Abort
  <1>2. ASSUME NEW kind, kind # "lottery", Received(c, kind)
        PROVE  Addressee(c) \in pool
    <2>1. 1 \in DOMAIN sock[c] /\ sock[c][1] = Head(sock[c])
      BY <1>2, HeadTailProperties DEF Received, Inv, BusOK
    <2> QED
      BY <1>2, <2>1 DEF HeardFromPool, Acquainted, Received, Addressee
  <1>3. why # "unknown_address"
    BY <1>1, <1>2 DEF Violates
  <1> QED
    BY <1>1, <1>3 DEF AddressesKnown, Crash

(* What holds whether or not the process is acquainted with the boards. *)
LEMMA StrangerSteps ==
  ASSUME Inv, BoardsTidy, OwnBus, [Next]_vars
  PROVE  BoardsTidy' /\ OwnBus'
  <1>1. ASSUME \/ sock' = sock
               \/ \E c \in Cans : sock[c] # <<>> /\ Consume(c)
        PROVE  OwnBus'
    <2>1. \A c \in Cans : \E s \in Nat : Dropped(c, s)
      BY <1>1, SameDropped, TailDropped DEF Inv
    <2> QED
      BY <2>1 DEF OwnBus, Dropped
  <1>2. ASSUME NEW d \in Devices, Device(d)
        PROVE  BoardsTidy' /\ OwnBus'
    <2>1. BoardsTidy'
      BY <1>2, DeviceTame
    <2>2. ASSUME NEW kind \in Kinds, Utters(d, kind), sock' # sock
          PROVE  OwnBus'
      <3> DEFINE c == BusOf[d]
                 frame == [kind |-> kind, from |-> d, node |-> device[d].node]
      <3>1. c \in Cans /\ frame \in Frames /\ frame.from = d
        BY ServerAssumption DEF Frames, Inv, DeviceOK, DeviceStates
      <3>2. sock' = [sock EXCEPT ![c] = Append(@, frame)]
        BY <2>2 DEF Utters, Send, Deliver
      <3> HIDE DEF frame
      <3>3. sock[c] \in Seq(Frames) /\ sock'[c] = Append(sock[c], frame)
        BY <3>1, <3>2 DEF Inv, BusOK
      <3>4. \A e \in Cans : \A i \in DOMAIN sock'[e] :
              \/ i \in DOMAIN sock[e] /\ sock'[e][i] = sock[e][i]
              \/ e = c /\ sock'[e][i] = frame
        BY <3>1, <3>2, <3>3, AppendProperties DEF Inv, BusOK
      <3> QED
        BY <3>1, <3>4 DEF OwnBus
    <2> QED
      BY <1>1, <1>2, <2>1, <2>2, DeviceUtters
  <1>3. ASSUME NEW c \in Cans, Bind(c) \/ Invite(c)
        PROVE  BoardsTidy' /\ OwnBus'
    <2>1. sock' = sock /\ (device' = device \/ \E given : Orders(given, failures))
      BY <1>3 DEF Bind, Invite
    <2> QED
      BY <1>1, <2>1, SameTidy, OrdersTidy DEF Inv
  <1>4. ASSUME NEW c \in Cans, KeepAliveRound(c)
        PROVE  BoardsTidy' /\ OwnBus'
    BY <1>1, <1>4, RoundTame DEF KeepAliveRound
  <1>5. ASSUME NEW c \in Cans, Receive(c), ~Abort(c)
        PROVE  BoardsTidy' /\ OwnBus'
    <2>1. CASE ReceiveLottery(c)
      <3>1. sock[c] # <<>> /\ Consume(c) /\ Head(sock[c]) \in Frames
        BY <2>1, ReceivedFacts DEF ReceiveLottery, Received, Inv
      <3> QED
        BY <1>1, <2>1, <3>1, LotteryTidy
    <2>2. CASE ~ReceiveLottery(c)
      <3>1. /\ sock[c] # <<>> /\ Consume(c)
            /\ device' = device \/ \E given, spent : Orders(given, spent)
        BY <1>5, <2>2, ReceiveOrders
      <3> QED
        BY <1>1, <3>1, SameTidy, OrdersTidy DEF Inv
    <2> QED
      BY <2>1, <2>2
  <1>6. ASSUME NEW f \in DOMAIN boards, Query(f) \/ Reboot(f)
        PROVE  BoardsTidy' /\ OwnBus'
    <2>1. sock' = sock /\ \E given, spent : Orders(given, spent)
      BY <1>6 DEF Query, Reboot, Substitute, Replace, Command
    <2> QED
      BY <1>1, <2>1, OrdersTidy DEF Inv
  <1>7. ASSUME NEW why, Crash(why), device' = device
        PROVE  BoardsTidy' /\ OwnBus'
    BY <1>7, CrashHeard
  <1>8. ASSUME NEW c \in Cans, Abort(c)
        PROVE  BoardsTidy' /\ OwnBus'
    BY <1>7, <1>8 DEF Abort
  <1>9. ASSUME NEW f \in DOMAIN boards, Stray(f) \/ Unnamed(f)
        PROVE  BoardsTidy' /\ OwnBus'
    BY <1>7, <1>9 DEF Stray, Unnamed
  <1>10. CASE Panic
    BY <1>7, <1>10 DEF Panic
  <1>11. CASE UNCHANGED vars
    <2>1. device' = device /\ sock' = sock
      BY <1>11 DEF vars, world
    <2> QED
      BY <1>1, <2>1, SameTidy
  <1> QED
    BY <1>2, <1>3, <1>4, <1>5, <1>6, <1>8, <1>9, <1>10, <1>11 DEF Next, Call

LEMMA AcquaintedSteps ==
  ASSUME Inv, BoardsTidy, OwnBus, Up, Acquainted, [Next]_vars
  PROVE  (Up' => Acquainted') /\ (AddressesKnown => AddressesKnown')
  <1>0. HeardFromPool
    BY DEF HeardFromPool
  <1>1. ASSUME HeardFromPool', fault' = fault
        PROVE  Acquainted' /\ (AddressesKnown => AddressesKnown')
    BY <1>1 DEF HeardFromPool, AddressesKnown
  <1>2. ASSUME NEW d \in Devices, Device(d)
        PROVE  HeardFromPool' /\ fault' = fault
    <2>1. \A e \in Devices : Tamed(e)
      BY <1>2, DeviceTame
    <2>2. UNCHANGED process /\ (sock' = sock \/ \E kind \in Kinds : Utters(d, kind))
      BY <1>2, DeviceUtters
    <2>3. fault' = fault /\ pool' = pool
      BY <2>2 DEF process
    <2>4. sock' = sock => \A c \in Cans : Dropped(c, 0)
      BY SameDropped DEF Inv
    <2> QED
      BY <1>0, <2>1, <2>2, <2>3, <2>4, TameHeard, SendHeard
  <1>3. ASSUME NEW c \in Cans, Bind(c) \/ Invite(c)
        PROVE  FALSE
    BY <1>3 DEF Bind, Invite, Up
  <1>4. ASSUME NEW c \in Cans, KeepAliveRound(c)
        PROVE  HeardFromPool' /\ fault' = fault
    <2>1. fault' = fault /\ pool' = pool /\ sock' = sock
      BY <1>4 DEF KeepAliveRound
    <2>2. \A e \in Cans : Dropped(e, 0)
      BY <2>1, SameDropped DEF Inv
    <2> QED
      BY <1>0, <1>4, <2>1, <2>2, RoundTame, TameHeard
  <1>5. ASSUME NEW c \in Cans, Receive(c), ~Abort(c)
        PROVE  HeardFromPool' /\ fault' = fault
    BY <1>0, <1>5, ReceiveHeard
  <1>6. ASSUME NEW f \in DOMAIN boards, Query(f) \/ Reboot(f)
        PROVE  HeardFromPool' /\ fault' = fault
    BY <1>0, <1>6, CallHeard
  <1>7. ASSUME NEW why, why # "unknown_address", Crash(why), device' = device
        PROVE  (Up' => Acquainted') /\ AddressesKnown'
    BY <1>7, CrashHeard DEF AddressesKnown
  <1>8. ASSUME NEW c \in Cans, Abort(c)
        PROVE  (Up' => Acquainted') /\ AddressesKnown'
    <2>1. \E why : Crash(why) /\ device' = device
      BY <1>8 DEF Abort
    <2> QED
      BY <1>0, <1>8, <2>1, CrashHeard, AbortHeard
  <1>9. ASSUME NEW f \in DOMAIN boards, Stray(f) \/ Unnamed(f)
        PROVE  (Up' => Acquainted') /\ AddressesKnown'
    BY <1>7, <1>9 DEF Stray, Unnamed
  <1>10. CASE Panic
    BY <1>7, <1>10 DEF Panic
  <1>11. CASE UNCHANGED vars
    BY <1>11 DEF vars, process, world, Acquainted, AddressesKnown, Slot
  <1> QED
    BY <1>1, <1>2, <1>3, <1>4, <1>5, <1>6, <1>8, <1>9, <1>10, <1>11 DEF Next, Call

(* The assertion of Tick that the sender of a frame has a handler           *)
(* (can_handler.cpp:90) fails for nobody but the boards, and the frames, of *)
(* a process that died: in one that has none of them left it never fails,   *)
(* with the sockets open before the order to reboot, whatever is lost then, *)
(* however often boards start again, however many repeat themselves.        *)
(* StaleFrames shows what a board of the earlier process does.              *)
THEOREM AcquaintedForLife == Spec => StaysAcquainted
  <1> DEFINE SInv == BoardsTidy /\ OwnBus
  <1>1. Init => SInv
    BY DEF Init, BoardsTidy, Tidy, OffBus, Without, OwnBus
  <1>2. Inv /\ SInv /\ [Next]_vars => SInv'
    BY StrangerSteps
  <1>3. Inv /\ SInv /\ [Next]_vars =>
          [Up /\ Acquainted => /\ Up' => Acquainted'
                               /\ AddressesKnown => AddressesKnown']_vars
    BY AcquaintedSteps
  <1> HIDE DEF SInv
  <1> QED
    BY <1>1, <1>2, <1>3, InitInv, NextInv, PTL DEF Spec, StaysAcquainted

-----------------------------------------------------------------------------
(***************************************************************************)
(* The registry.  BoardManager keeps each instance twice, in its own map   *)
(* and in the front end of RosModule, finds types by name in one place and *)
(* by pointer in another, and walks lists that it never shortens.  That    *)
(* the copies agree, that two live boards never share a front end and that *)
(* the whole is an abstract directory of links are theorems here: names do *)
(* not change once they are known, since one board speaks at an address.   *)
(***************************************************************************)

Named(p) == heap[p].name \in Names

(* An unused slot has left no trace. *)
Fresh ==
  \A h \in Handlers \ pool :
    /\ conn[h].desc = NoPointer
    /\ \A a \in BOOLEAN : heap[<<h, a>>].name = NoName

(* A descriptor bears the name of the only board heard at its handler.     *)
NamesTrue ==
  \A a \in BOOLEAN :
    /\ \A d \in Devices : OnAir(d) => heap[<<Slot(d), a>>].name \in {NoName, NameOf[d]}
    /\ \A c \in Cans : \A i \in Addressed(c) :
         heap[<<Place(c, i), a>>].name \in {NoName, NameOf[sock[c][i].from]}

(* A handler with a descriptor made it, on receiving a name. *)
HoldersNamed ==
  \A h \in Handlers : conn[h].desc # NoPointer =>
    /\ Named(conn[h].desc)
    /\ \E a \in BOOLEAN : conn[h].desc = <<h, a>>

NamesInv == Fresh /\ NamesTrue /\ HoldersNamed

(* One key for each name, the one descriptor_map has. *)
KeysMapped ==
  /\ \A k \in Pointers : handlers[k] # <<>> =>
       Named(k) /\ descriptor_map[heap[k].name] = k
  /\ \A n \in Names : descriptor_map[n] # NoPointer =>
       /\ heap[descriptor_map[n]].name = n
       /\ handlers[descriptor_map[n]] # <<>>

FrontsNamed == \A f \in DOMAIN boards : Named(boards[f].desc)

(* A handler in the registry serves the front end of that identity, *)
OwnersServe ==
  \A k \in Pointers : \A i \in DOMAIN handlers[k] :
    LET b == handlers[k][i].backend
        f == conn[b].frontend
    IN  b # NoHandler => /\ f \in DOMAIN boards /\ boards[f].backend = b
                         /\ Identity(f) = <<heap[k].name, handlers[k][i].id>>

(* and the backend of a front end is a handler that serves it. *)
FrontsPoint ==
  \A f \in DOMAIN boards :
    boards[f].backend # NoHandler => conn[boards[f].backend].frontend = f

(* Of the places of one instance only the last is ever filled. *)
LastOwns ==
  \A k \in Pointers : \A i, j \in DOMAIN handlers[k] :
    i < j /\ handlers[k][i].id = handlers[k][j].id => handlers[k][i].backend = NoHandler

HoldenIdle == \A h \in holden : conn[h].frontend = 0

(* A live handler that was launched has its front end for itself. *)
LaunchedServe ==
  \A h \in Handlers :
    LET f == conn[h].frontend
    IN  f # 0 =>
          /\ f \in DOMAIN boards
          /\ boards[f].backend = NoHandler =>
               \A g \in Handlers : conn[g].frontend = f => g = h
          /\ boards[f].backend # NoHandler /\ ~conn[h].dead => boards[f].backend = h

DirectoryInv ==
  /\ KeysMapped /\ FrontsNamed /\ OwnersServe /\ FrontsPoint
  /\ CopiesAgree /\ LastOwns /\ HoldenIdle /\ LaunchedServe
-----------------------------------------------------------------------------
(* What a step may do, sorted by what it does to the registry.             *)

(* The registry stays as it is; handlers may die, slots be given away. *)
Plain ==
  /\ UNCHANGED registry /\ pool \subseteq pool'
  /\ \A g \in Handlers : /\ conn'[g].frontend = conn[g].frontend
                         /\ conn[g].dead => conn'[g].dead

Registers(c) == RegisterNew(c) \/ RegisterReplacing(c) \/ RegisterHolding(c)

(* The descriptors keep their names, a handler at most forgets its own. *)
NamesKept ==
  /\ \A p \in Pointers : heap'[p].name = heap[p].name
  /\ \A h \in Handlers : conn'[h].desc \in {conn[h].desc, NoPointer}
  /\ pool \subseteq pool'

LEMMA LaunchKeeps ==
  ASSUME NEW r \in Connections, NEW f
  PROVE  LET s == Launch(r, f)
         IN  s.frontend = f /\ s.desc = r.desc /\ s.dead = r.dead /\ s.id = r.id
  BY DEF Launch, Connections

(* Replace launches one handler, which may be told to reboot at once. *)
LEMMA ReplaceKeeps ==
  ASSUME Inv, NEW f \in DOMAIN boards, NEW reboot \in BOOLEAN,
         NEW k \in Pointers, NEW i, NEW h \in Handlers, Replace(f, k, i, h, reboot)
  PROVE  /\ UNCHANGED <<heap, pool, descriptor_map>>
         /\ conn'[h].frontend = f /\ conn'[h].desc = conn[h].desc
         /\ conn'[h].dead <=> (conn[h].dead \/ reboot)
         /\ \A g \in Handlers \ {h} : conn'[g] = conn[g]
  <1> DEFINE r == Launch(conn[h], f)
             s == IF reboot THEN CommandReboot(r) ELSE r
  <1>1. conn[h] \in Connections /\ f \in Nat
    BY DEF Inv, ConnOK, RegistryOK
  <1>2. /\ r \in Connections /\ r.frontend = f /\ r.desc = conn[h].desc
        /\ r.dead = conn[h].dead
    BY <1>1, LaunchFacts
  <1> HIDE DEF r
  <1>3. /\ s.frontend = f /\ s.desc = conn[h].desc
        /\ s.dead <=> (conn[h].dead \/ reboot)
    BY <1>1, <1>2, RebootFacts DEF Connections
  <1>4. conn' = [conn EXCEPT ![h] = s] /\ UNCHANGED <<heap, pool, descriptor_map>>
    BY DEF Replace, r
  <1> HIDE DEF s
  <1> QED
    BY <1>3, <1>4 DEF Inv, ConnOK

LEMMA StepKinds ==
  ASSUME Inv, [Next]_vars
  PROVE  \/ \E why : Crash(why)
         \/ Plain
         \/ \E c \in Cans : Registers(c)
         \/ \E f \in DOMAIN boards : \E reboot \in BOOLEAN : Substitute(f, reboot)
  <1> DEFINE Goal == \/ \E why : Crash(why)
                     \/ Plain
                     \/ \E c \in Cans : Registers(c)
                     \/ \E f \in DOMAIN boards : \E reboot \in BOOLEAN :
                          Substitute(f, reboot)
  <1>1. ASSUME UNCHANGED <<registry, conn>>, pool \subseteq pool'
        PROVE  Plain
    BY <1>1 DEF Plain
  <1>2. ASSUME NEW d \in Devices, Device(d)
        PROVE  Plain
    BY <1>1, <1>2
    DEF Device, PowerOn, PowerOff, Enter, Speak, Answer, Talk, process
  <1>3. ASSUME NEW c \in Cans, Bind(c) \/ Invite(c)
        PROVE  Plain
    BY <1>1, <1>3 DEF Bind, Invite, process
  <1>4. ASSUME NEW c \in Cans, KeepAliveRound(c)
        PROVE  Plain
    <2>1. \A r \in Connections : r.dead => KeepAliveRequest(r).dead
      BY DEF KeepAliveRequest, Connections
    <2>2. \A g \in Handlers : /\ conn[g] \in Connections
                              /\ conn'[g] \in {conn[g], KeepAliveRequest(conn[g])}
      BY <1>4 DEF KeepAliveRound, Inv, ConnOK
    <2>3. \A g \in Handlers : /\ conn'[g].frontend = conn[g].frontend
                              /\ conn[g].dead => conn'[g].dead
      BY <2>1, <2>2, RequestKeeps
    <2> QED
      BY <1>4, <2>3 DEF KeepAliveRound, Plain
  <1>5. ASSUME NEW c \in Cans, Receive(c)
        PROVE  Goal
    <2>1. CASE ReceiveLottery(c)
      BY <1>1, <2>1 DEF ReceiveLottery
    <2>2. CASE \/ ReceiveForDead(c) \/ ReceiveConfirm(c) \/ ReceiveName(c)
               \/ ReceiveBody(c) \/ ReceiveId(c) \/ ReceiveAlive(c) \/ ReceiveTalk(c)
      BY <2>2, HandlerKeeps DEF Plain
    <2>3. CASE Abort(c)
      BY <2>3 DEF Abort
    <2> QED
      BY <1>5, <2>1, <2>2, <2>3 DEF Receive, Registers
  <1>6. ASSUME NEW f \in DOMAIN boards, Call(f)
        PROVE  Goal
    <2>1. CASE Reboot(f) /\ ~Substitute(f, TRUE)
      <3> DEFINE b == boards[f].backend
      <3>1. /\ b \in Handlers /\ conn' = [conn EXCEPT ![b] = CommandReboot(conn[b])]
            /\ UNCHANGED <<registry, pool>>
            /\ \A g \in Handlers : conn'[g].frontend = conn[g].frontend
        BY <2>1, RebootFrontends
      <3>2. conn[b] \in Connections /\ CommandReboot(conn[b]).dead
        BY <3>1, RebootFacts DEF Inv, ConnOK
      <3> HIDE DEF b
      <3>3. \A g \in Handlers : conn[g].dead => conn'[g].dead
        BY <3>1, <3>2 DEF Inv, ConnOK
      <3> QED
        BY <3>1, <3>3 DEF Plain
    <2>2. CASE Stray(f) \/ Unnamed(f)
      BY <2>2 DEF Stray, Unnamed
    <2>3. CASE \E reboot \in BOOLEAN : Substitute(f, reboot)
      BY <2>3
    <2> QED
      BY <1>6, <2>1, <2>2, <2>3 DEF Call, Query
  <1>7. CASE Panic
    BY <1>7 DEF Panic
  <1>8. CASE UNCHANGED vars
    BY <1>1, <1>8 DEF vars, process
  <1> QED
    BY <1>2, <1>3, <1>4, <1>5, <1>6, <1>7, <1>8 DEF Next

LEMMA NamesKeptSteps ==
  ASSUME Inv, [Next]_vars, \A c \in Cans : ~ReceiveName(c)
  PROVE  NamesKept \/ \E why : Crash(why)
  <1>1. ASSUME UNCHANGED <<heap, conn>>, pool \subseteq pool'
        PROVE  NamesKept
    BY <1>1 DEF NamesKept
  <1>2. ASSUME NEW h \in Handlers, UNCHANGED <<heap, pool>>,
               \E s : /\ s.desc = conn[h].desc \/ s.desc = NoPointer
                     /\ conn' = [conn EXCEPT ![h] = s]
        PROVE  NamesKept
    <2>1. PICK s : /\ s.desc = conn[h].desc \/ s.desc = NoPointer
                   /\ conn' = [conn EXCEPT ![h] = s]
      BY <1>2
    <2>2. \A g \in Handlers : conn'[g] = IF g = h THEN s ELSE conn[g]
      BY <2>1 DEF Inv, ConnOK
    <2> QED
      BY <1>2, <2>1, <2>2 DEF NamesKept
  <1>3. ASSUME NEW d \in Devices, Device(d)
        PROVE  NamesKept
    BY <1>1, <1>3
    DEF Device, PowerOn, PowerOff, Enter, Speak, Answer, Talk, process
  <1>4. ASSUME NEW c \in Cans, Bind(c) \/ Invite(c)
        PROVE  NamesKept
    BY <1>1, <1>4 DEF Bind, Invite, process
  <1>5. ASSUME NEW c \in Cans, KeepAliveRound(c)
        PROVE  NamesKept
    <2>1. \A g \in Handlers : /\ conn[g] \in Connections
                              /\ conn'[g] \in {conn[g], KeepAliveRequest(conn[g])}
      BY <1>5 DEF KeepAliveRound, Inv, ConnOK
    <2>2. \A g \in Handlers : conn'[g].desc = conn[g].desc
      BY <2>1, RequestKeeps
    <2> QED
      BY <1>5, <2>2 DEF KeepAliveRound, NamesKept
  <1>6. ASSUME NEW c \in Cans, Receive(c), ~Abort(c)
        PROVE  NamesKept
    <2> DEFINE h == Addressee(c)
    <2>1. CASE ReceiveLottery(c)
      BY <1>1, <2>1 DEF ReceiveLottery
    <2>2. CASE ReceiveForDead(c) \/ ReceiveTalk(c) \/ RegisterHolding(c)
      BY <1>1, <2>2 DEF ReceiveForDead, ReceiveTalk, RegisterHolding, process
    <2>3. ASSUME NEW kind, Accepted(c, kind)
          PROVE  h \in Handlers /\ conn[h] \in Connections /\ Head(sock[c]) \in Frames
      BY <2>3, AcceptedFacts
    <2>4. CASE ReceiveConfirm(c)
      <3>1. h \in Handlers /\ Confirmed(conn[h]).desc = NoPointer
        BY <2>3, <2>4, ConfirmedFacts DEF ReceiveConfirm
      <3> QED
        BY <1>2, <2>4, <3>1 DEF ReceiveConfirm
    <2>5. CASE ReceiveBody(c)
      <3>1. \A p \in Pointers : heap'[p].name = heap[p].name
        BY <2>5 DEF ReceiveBody, Inv, RegistryOK, Descriptors
      <3> QED
        BY <2>5, <3>1 DEF ReceiveBody, NamesKept
    <2>6. CASE ReceiveId(c)
      <3>1. /\ h \in Handlers
            /\ Identified(conn[h], IdOf[Head(sock[c]).from]).desc = conn[h].desc
        BY <2>3, <2>6 DEF ReceiveId, Identified, Connections
      <3> QED
        BY <1>2, <2>6, <3>1 DEF ReceiveId
    <2>7. CASE ReceiveAlive(c)
      <3>1. h \in Handlers /\ KeepAliveAnswer(conn[h], TRUE).desc = conn[h].desc
        BY <2>3, <2>7, AnswerFacts DEF ReceiveAlive
      <3> QED
        BY <1>2, <2>7, <3>1 DEF ReceiveAlive
    <2>8. CASE RegisterNew(c) \/ RegisterReplacing(c)
      <3>1. Accepted(c, "init")
        BY <2>8 DEF RegisterNew, RegisterReplacing, InitAccepted, InitComplete
      <3>2. PICK n : conn' = [conn EXCEPT ![h] = Launch(@, n)]
        BY <2>8 DEF RegisterNew, RegisterReplacing
      <3>3. h \in Handlers /\ Launch(conn[h], n).desc = conn[h].desc
        BY <2>3, <3>1, LaunchKeeps
      <3> QED
        BY <1>2, <2>8, <3>2, <3>3 DEF RegisterNew, RegisterReplacing
    <2> QED
      BY <1>6, <2>1, <2>2, <2>4, <2>5, <2>6, <2>7, <2>8 DEF Receive
  <1>7. ASSUME NEW f \in DOMAIN boards, Call(f), \A why : ~Crash(why)
        PROVE  NamesKept
    <2>1. CASE Reboot(f) /\ ~Substitute(f, TRUE)
      <3>1. PICK b \in Handlers : /\ conn' = [conn EXCEPT ![b] = CommandReboot(conn[b])]
                                  /\ UNCHANGED <<heap, pool>>
        BY <2>1, RebootFrontends
      <3>2. CommandReboot(conn[b]).desc = conn[b].desc
        BY RebootFacts DEF Inv, ConnOK
      <3> QED
        BY <1>2, <3>1, <3>2
    <2>2. ASSUME NEW reboot \in BOOLEAN, Substitute(f, reboot)
          PROVE  NamesKept
      <3>1. PICK h \in Substitutes(f), i \in First(Candidates(f)) :
              Replace(f, boards[f].desc, i, h, reboot)
        BY <2>2 DEF Substitute
      <3>0. boards[f] \in Instances
        BY DEF Inv, RegistryOK
      <3>2. h \in Handlers /\ boards[f].desc \in Pointers
        BY <3>0 DEF Substitutes, Inv, RegistryOK, Instances
      <3> QED
        BY <3>1, <3>2, ReplaceKeeps DEF NamesKept
    <2> QED
      BY <1>7, <2>1, <2>2 DEF Call, Query, Stray, Unnamed
  <1>8. CASE UNCHANGED vars
    BY <1>1, <1>8 DEF vars, process
  <1> QED
    BY <1>3, <1>4, <1>5, <1>6, <1>7, <1>8 DEF Next, Panic, Abort
-----------------------------------------------------------------------------
(* Who is heard after a step was heard before it, at the same address, or   *)
(* was just given a fresh one.                                              *)

Voices ==
  /\ \A d \in Devices : OnAir(d)' =>
       (OnAir(d) /\ Slot(d)' = Slot(d)) \/ Slot(d)' \notin pool
  /\ \A c \in Cans : \A i \in Addressed(c)' :
       \/ \E k \in Addressed(c) : /\ Place(c, k) = Place(c, i)'
                                  /\ sock[c][k].from = sock'[c][i].from
       \/ \E d \in Devices : /\ OnAir(d) /\ Slot(d) = Place(c, i)'
                             /\ sock'[c][i].from = d

LEMMA TameVoices ==
  ASSUME Inv, can' = can, \A d \in Devices : Tamed(d),
         \A c \in Cans : \E s \in Nat : Dropped(c, s)
  PROVE  Voices
  <1>1. \A d \in Devices : OnAir(d)' => OnAir(d) /\ Slot(d)' = Slot(d)
    BY DEF Tamed, OnAir, Slot
  <1>2. \A c \in Cans : \A i \in Addressed(c)' : \E k \in Addressed(c) :
          Place(c, k) = Place(c, i)' /\ sock[c][k].from = sock'[c][i].from
    BY DEF Dropped, Addressed, Place
  <1> QED
    BY <1>1, <1>2 DEF Voices

LEMMA SendVoices ==
  ASSUME Inv, AddressInv, ~EarlyFrames, NEW d \in Devices, NEW kind \in Kinds,
         NEW spent, Send(d, kind, spent), can' = can, \A e \in Devices : Tamed(e),
         kind # "lottery" => device[d].node # NoNode
  PROVE  Voices
  <1> DEFINE c == BusOf[d]
             n == Len(sock[c]) + 1
             frame == [kind |-> kind, from |-> d, node |-> device[d].node]
  <1>0. c \in Cans
    BY ServerAssumption
  <1>1. CASE sock' = sock
    <2>1. \A e \in Cans : Dropped(e, 0)
      BY <1>1, SameDropped DEF Inv
    <2> QED
      BY <2>1, TameVoices
  <1>2. CASE sock' = [sock EXCEPT ![c] = Append(@, frame)] /\ Listening(c)
    <2>1. can[c] = "invited" /\ Slot(d) = <<c, device[d].node>>
      BY <1>2 DEF Listening, Slot
    <2>2. \A i \in DOMAIN sock'[c] :
            \/ i \in DOMAIN sock[c] /\ sock'[c][i] = sock[c][i]
            \/ sock'[c][i] = frame
      <3>1. sock[c] \in Seq(Frames) /\ sock'[c] = Append(sock[c], frame)
        BY <1>0, <1>2 DEF Inv, BusOK
      <3> QED
        BY <3>1, AppendProperties
    <2>3. \A e \in Cans : e # c => sock'[e] = sock[e]
      BY <1>2 DEF Inv, BusOK
    <2>4. frame.kind = kind /\ frame.from = d /\ frame.node = device[d].node
      OBVIOUS
    <2> HIDE DEF frame
    <2>5. kind # "lottery" => OnAir(d)
      BY <2>1 DEF OnAir
    <2>6. \A e \in Devices : OnAir(e)' => OnAir(e) /\ Slot(e)' = Slot(e)
      BY DEF Tamed, OnAir, Slot
    <2>7. \A e \in Cans : \A i \in Addressed(e)' :
            \/ /\ i \in Addressed(e) /\ Place(e, i) = Place(e, i)'
               /\ sock[e][i].from = sock'[e][i].from
            \/ OnAir(d) /\ Slot(d) = Place(e, i)' /\ sock'[e][i].from = d
      BY <2>1, <2>2, <2>3, <2>4, <2>5 DEF Addressed, Place
    <2> QED
      BY <2>6, <2>7 DEF Voices
  <1> QED
    BY <1>1, <1>2 DEF Send, Deliver

LEMMA DeviceVoices ==
  ASSUME Inv, AddressInv, ~EarlyFrames, NEW d \in Devices, Device(d)
  PROVE  Voices
  <1>1. \A e \in Devices : Tamed(e)
    BY DeviceTame DEF AddressInv
  <1>2. can' = can /\ (sock' = sock \/ \E kind \in Kinds : Utters(d, kind))
    BY DeviceUtters DEF AddressInv
  <1>3. CASE sock' = sock
    <2>1. \A e \in Cans : Dropped(e, 0)
      BY <1>3, SameDropped DEF Inv
    <2> QED
      BY <1>1, <1>2, <2>1, TameVoices
  <1>4. ASSUME NEW kind \in Kinds, Utters(d, kind)
        PROVE  Voices
    <2>1. PICK spent : Send(d, kind, spent)
      BY <1>4 DEF Utters
    <2> QED
      BY <1>1, <1>2, <1>4, <2>1, SendVoices DEF Utters
  <1> QED
    BY <1>2, <1>3, <1>4

LEMMA VoicesSteps ==
  ASSUME Inv, AddressInv, ~EarlyFrames, [Next]_vars
  PROVE  Voices \/ pool' = {}
  <1>1. ASSUME NEW why, Crash(why)
        PROVE  pool' = {}
    BY <1>1 DEF Crash
  <1>2. ASSUME NEW c \in Cans, Bind(c) \/ Invite(c)
        PROVE  pool' = {}
    <2>1. ~Up /\ pool' = pool
      BY <1>2 DEF Bind, Invite, Up, process
    <2> QED
      BY <2>1 DEF AddressInv, Quiet
  <1>3. ASSUME can' = can, sock' = sock, \A d \in Devices : Tamed(d)
        PROVE  Voices
    <2>1. \A e \in Cans : Dropped(e, 0)
      BY <1>3, SameDropped DEF Inv
    <2> QED
      BY <1>3, <2>1, TameVoices
  <1>4. ASSUME NEW c \in Cans, KeepAliveRound(c)
        PROVE  Voices
    <2>1. \A d \in Devices : /\ device[d] \in DeviceStates
                             /\ device'[d] \in {device[d], [device[d] EXCEPT !.asked = TRUE]}
      BY <1>4 DEF KeepAliveRound, Inv, DeviceOK
    <2>2. \A d \in Devices : /\ device'[d].node = device[d].node
                             /\ device'[d].phase = device[d].phase
      BY <2>1 DEF DeviceStates
    <2> QED
      BY <1>3, <1>4, <2>2 DEF KeepAliveRound, Tamed
  <1>5. ASSUME NEW c \in Cans, sock[c] # <<>>, Consume(c),
               \A d \in Devices : Tamed(d)
        PROVE  Voices
    BY <1>5, TailDropped, TameVoices DEF Consume, Inv
  <1>6. ASSUME NEW c \in Cans, ReceiveLottery(c)
        PROVE  Voices
    <2>1. sock[c] # <<>> /\ Head(sock[c]) \in Frames /\ Consume(c) /\ can' = can
      BY <1>6, ReceivedFacts DEF ReceiveLottery, Inv, Consume
    <2>2. PICK d \in Devices : d = Head(sock[c]).from
      BY <2>1 DEF Frames
    <2>3. BusOf[d] = c
      BY <2>1, <2>2, TailDropped DEF AddressInv, SpeakersKnown, Inv
    <2>4. PICK n \in FreeSlots(c) :
            \/ device' = device
            \/ device' = [device EXCEPT ![d] = [Without("joining") EXCEPT !.node = n]]
      BY <1>6, <2>2 DEF ReceiveLottery
    <2>5. \A e \in Devices : device'[e] = device[e] \/ (e = d /\ device'[e].node = n)
      BY <2>4 DEF Inv, DeviceOK, Without
    <2>6. <<c, n>> \notin pool
      BY DEF FreeSlots
    <2>7. \A e \in Devices : OnAir(e)' =>
            (OnAir(e) /\ Slot(e)' = Slot(e)) \/ Slot(e)' \notin pool
      BY <2>1, <2>3, <2>5, <2>6 DEF OnAir, Slot
    <2>8. \A e \in Cans : \A i \in Addressed(e)' : \E k \in Addressed(e) :
            Place(e, k) = Place(e, i)' /\ sock[e][k].from = sock'[e][i].from
      BY <2>1, TailDropped DEF Dropped, Addressed, Place, Inv
    <2> QED
      BY <2>7, <2>8 DEF Voices
  <1>7. ASSUME NEW c \in Cans, Receive(c), ~Abort(c), ~ReceiveLottery(c)
        PROVE  Voices
    <2>1. CASE \/ ReceiveForDead(c) \/ ReceiveConfirm(c) \/ ReceiveName(c)
               \/ ReceiveBody(c) \/ ReceiveId(c) \/ ReceiveAlive(c) \/ ReceiveTalk(c)
      BY <1>5, <2>1, HandlerKeeps, SameDevices
    <2>2. CASE RegisterNew(c) \/ RegisterReplacing(c) \/ RegisterHolding(c)
      <3>1. sock[c] # <<>> /\ Consume(c)
        BY <2>2, AcceptedFacts
        DEF RegisterNew, RegisterReplacing, RegisterHolding, InitAccepted, InitComplete
      <3>2. \A d \in Devices : Tamed(d)
        BY <2>2, OrdersTame, SameDevices
        DEF RegisterNew, RegisterReplacing, RegisterHolding, Start, Command, Inv
      <3> QED
        BY <1>5, <3>1, <3>2
    <2> QED
      BY <1>7, <2>1, <2>2 DEF Receive
  <1>8. ASSUME NEW f \in DOMAIN boards, Query(f) \/ Reboot(f)
        PROVE  Voices
    <2>1. can' = can /\ sock' = sock /\ \E given, spent : Orders(given, spent)
      <3>1. ASSUME NEW reboot \in BOOLEAN, Substitute(f, reboot)
            PROVE  can' = can /\ sock' = sock /\ \E given, spent : Orders(given, spent)
        <4>1. PICK k, i, h : Replace(f, k, i, h, reboot)
          BY <3>1 DEF Substitute
        <4> QED
          BY <4>1 DEF Replace
      <3>2. CASE Reboot(f) /\ ~Substitute(f, TRUE)
        BY <3>2, RebootFrontends DEF Command
      <3> QED
        BY <1>8, <3>1, <3>2 DEF Query
    <2> QED
      BY <1>3, <2>1, OrdersTame DEF Inv
  <1>9. CASE UNCHANGED vars
    BY <1>3, <1>9, SameDevices DEF vars, world
  <1> QED
    BY <1>1, <1>2, <1>4, <1>6, <1>7, <1>8, <1>9, DeviceVoices
    DEF Next, Receive, Abort, Panic, Call, Stray, Unnamed
-----------------------------------------------------------------------------
(* Names, once known, do not change.                                       *)

NamesFixed == \A p \in Pointers : Named(p) => heap'[p].name = heap[p].name

LEMMA NameReceived ==
  ASSUME Inv, AddressInv, NamesInv, NEW c \in Cans, ReceiveName(c)
  PROVE  \E a \in BOOLEAN :
           LET h == Addressee(c)
               d == Head(sock[c]).from
               p == <<h, a>>
           IN  /\ h \in Handlers /\ h \in pool /\ d \in Devices
               /\ p \in Pointers /\ conn'[h].desc = p
               /\ \A g \in Handlers \ {h} : conn'[g].desc = conn[g].desc
               /\ heap[p].name \in {NoName, NameOf[d]} /\ heap'[p].name = NameOf[d]
               /\ \A q \in Pointers \ {p} : heap'[q].name = heap[q].name
               /\ 1 \in Addressed(c) /\ Place(c, 1) = h /\ sock[c][1].from = d
               /\ pool' = pool
  <1> DEFINE h == Addressee(c)
             d == Head(sock[c]).from
             p == DescriptorOf(h, conn[h])
  <1>1. /\ h \in Handlers /\ h \in pool /\ conn[h] \in Connections
        /\ Head(sock[c]) \in Frames /\ sock[c] # <<>> /\ d \in Devices
    BY AcceptedFacts DEF ReceiveName, Accepted, Frames
  <1>2. 1 \in Addressed(c) /\ Place(c, 1) = h /\ sock[c][1].from = d
    <2>1. 1 \in DOMAIN sock[c] /\ sock[c][1] = Head(sock[c])
      BY <1>1, HeadTailProperties DEF Inv, BusOK
    <2> QED
      BY <2>1 DEF ReceiveName, Accepted, Received, Addressed, Place, Addressee
  <1>3. PICK a \in BOOLEAN : p = <<h, a>>
    BY <1>1 DEF DescriptorOf, NamesInv, HoldersNamed, Connections
  <1>4. p \in Pointers /\ Described(h, conn[h]).desc = p
    BY <1>1, DescribedFacts
  <1>5. /\ conn' = [conn EXCEPT ![h] = Described(h, conn[h])]
        /\ heap' = [heap EXCEPT ![p].name = NameOf[d]]
        /\ pool' = pool
    BY DEF ReceiveName
  <1> HIDE DEF p, h, d
  <1>6. /\ conn'[h].desc = p
        /\ \A g \in Handlers \ {h} : conn'[g].desc = conn[g].desc
    BY <1>1, <1>4, <1>5 DEF Inv, ConnOK
  <1>7. /\ heap'[p].name = NameOf[d]
        /\ \A q \in Pointers \ {p} : heap'[q].name = heap[q].name
    BY <1>4, <1>5 DEF Inv, RegistryOK, Descriptors
  <1>8. heap[p].name \in {NoName, NameOf[d]}
    BY <1>2, <1>3 DEF NamesInv, NamesTrue
  <1> QED
    BY <1>1, <1>2, <1>3, <1>4, <1>5, <1>6, <1>7, <1>8 DEF h, d

LEMMA QuietNames ==
  ASSUME AddressInv', pool' = {}
  PROVE  NamesTrue'
  BY DEF AddressInv, SpeakersKnown, NamesTrue

LEMMA KeptNames ==
  ASSUME Inv, NamesInv, AddressInv', RegistryOK', Voices, NamesKept
  PROVE  NamesTrue'
  <1> SUFFICES ASSUME NEW a \in BOOLEAN
               PROVE  /\ \A d \in Devices : OnAir(d)' =>
                           heap'[<<Slot(d)', a>>].name \in {NoName, NameOf[d]}
                      /\ \A c \in Cans : \A i \in Addressed(c)' :
                           heap'[<<Place(c, i)', a>>].name
                             \in {NoName, NameOf[sock'[c][i].from]}
    BY DEF NamesTrue
  <1>1. \A h \in pool' : /\ h \in Handlers /\ <<h, a>> \in Pointers
                         /\ heap'[<<h, a>>].name = heap[<<h, a>>].name
    BY DEF RegistryOK, NamesKept, Pointers
  <1>2. \A d \in Devices : OnAir(d)' => Slot(d)' \in pool'
    BY DEF AddressInv, SpeakersKnown
  <1>3. \A c \in Cans : \A i \in Addressed(c)' : Place(c, i)' \in pool'
    BY DEF AddressInv, SpeakersKnown
  <1>4. ASSUME NEW d \in Devices, OnAir(d)'
        PROVE  heap'[<<Slot(d)', a>>].name \in {NoName, NameOf[d]}
    <2>1. CASE OnAir(d) /\ Slot(d)' = Slot(d)
      BY <1>1, <1>2, <1>4, <2>1 DEF NamesInv, NamesTrue
    <2>2. CASE Slot(d)' \notin pool
      BY <1>1, <1>2, <1>4, <2>2 DEF NamesInv, Fresh
    <2> QED
      BY <1>4, <2>1, <2>2 DEF Voices
  <1>5. ASSUME NEW c \in Cans, NEW i \in Addressed(c)'
        PROVE  heap'[<<Place(c, i)', a>>].name \in {NoName, NameOf[sock'[c][i].from]}
    <2>1. heap[<<Place(c, i)', a>>].name \in {NoName, NameOf[sock'[c][i].from]}
      BY <1>5 DEF Voices, NamesInv, NamesTrue
    <2> QED
      BY <1>1, <1>3, <1>5, <2>1
  <1> QED
    BY <1>4, <1>5

LEMMA ReceivedNames ==
  ASSUME Inv, AddressInv, NamesInv, AddressInv', Voices,
         NEW c \in Cans, ReceiveName(c)
  PROVE  NamesInv' /\ NamesFixed
  <1> DEFINE h == Addressee(c)
             d == Head(sock[c]).from
  <1>1. PICK a \in BOOLEAN :
          LET p == <<h, a>>
          IN  /\ h \in Handlers /\ h \in pool /\ d \in Devices
              /\ p \in Pointers /\ conn'[h].desc = p
              /\ \A g \in Handlers \ {h} : conn'[g].desc = conn[g].desc
              /\ heap[p].name \in {NoName, NameOf[d]} /\ heap'[p].name = NameOf[d]
              /\ \A q \in Pointers \ {p} : heap'[q].name = heap[q].name
              /\ 1 \in Addressed(c) /\ Place(c, 1) = h /\ sock[c][1].from = d
              /\ pool' = pool
    BY NameReceived
  <1>2. PICK p : p = <<h, a>>
    OBVIOUS
  <1>3. PICK g : g = h
    OBVIOUS
  <1>4. PICK e : e = d
    OBVIOUS
  <1> HIDE DEF h, d
  <1>5. /\ g \in pool /\ pool' = pool /\ e \in Devices /\ p \in Pointers /\ p = <<g, a>>
        /\ conn'[g].desc = p /\ \A x \in Handlers \ {g} : conn'[x].desc = conn[x].desc
        /\ heap[p].name \in {NoName, NameOf[e]} /\ heap'[p].name = NameOf[e]
        /\ \A q \in Pointers \ {p} : heap'[q].name = heap[q].name
        /\ 1 \in Addressed(c) /\ Place(c, 1) = g /\ sock[c][1].from = e
    BY <1>1, <1>2, <1>3, <1>4
  <1>6. NameOf[e] \in Names /\ NoName \notin Names
    BY <1>5, ServerAssumption
  <1>7. NamesFixed
    BY <1>5, <1>6 DEF NamesFixed, Named
  <1>8. Fresh'
    <2> SUFFICES ASSUME NEW x \in Handlers \ pool'
                 PROVE  /\ conn'[x].desc = NoPointer
                        /\ \A b \in BOOLEAN : heap'[<<x, b>>].name = NoName
      BY DEF Fresh
    <2>1. x # g /\ x \in Handlers \ pool
      BY <1>5
    <2>2. \A b \in BOOLEAN : <<x, b>> \in Pointers /\ <<x, b>> # p
      BY <1>5, <2>1 DEF Pointers
    <2> QED
      BY <1>5, <2>1, <2>2 DEF NamesInv, Fresh
  <1>9. HoldersNamed'
    <2>1. Named(p)'
      BY <1>5, <1>6 DEF Named
    <2>2. \A q \in Pointers : Named(q) => Named(q)'
      BY <1>7 DEF NamesFixed, Named
    <2>3. \A x \in Handlers : conn[x].desc # NoPointer => conn[x].desc \in Pointers
      BY DEF Inv, ConnOK, Connections
    <2> QED
      BY <1>5, <2>1, <2>2, <2>3 DEF NamesInv, HoldersNamed
  <1>10. NamesTrue'
    <2> SUFFICES ASSUME NEW b \in BOOLEAN
                 PROVE  /\ \A x \in Devices : OnAir(x)' =>
                             heap'[<<Slot(x)', b>>].name \in {NoName, NameOf[x]}
                        /\ \A k \in Cans : \A i \in Addressed(k)' :
                             heap'[<<Place(k, i)', b>>].name
                               \in {NoName, NameOf[sock'[k][i].from]}
      BY DEF NamesTrue
    <2>1. \A x \in pool : <<x, b>> \in Pointers
      BY DEF Inv, RegistryOK, Pointers
    <2>2. ASSUME NEW x \in Devices, OnAir(x)'
          PROVE  heap'[<<Slot(x)', b>>].name \in {NoName, NameOf[x]}
      <3>1. OnAir(x) /\ Slot(x)' = Slot(x) /\ Slot(x) \in pool
        BY <1>5, <2>2 DEF Voices, AddressInv, SpeakersKnown
      <3>2. Slot(x) = g => x = e
        BY <1>5, <3>1 DEF AddressInv, OneSpeaker
      <3>3. heap[<<Slot(x), b>>].name \in {NoName, NameOf[x]}
        BY <3>1 DEF NamesInv, NamesTrue
      <3> QED
        BY <1>5, <2>1, <3>1, <3>2, <3>3
    <2>3. ASSUME NEW k \in Cans, NEW i \in Addressed(k)'
          PROVE  heap'[<<Place(k, i)', b>>].name \in {NoName, NameOf[sock'[k][i].from]}
      <3>1. Place(k, i)' \in pool
        BY <1>5, <2>3 DEF AddressInv, SpeakersKnown
      <3>2. /\ heap[<<Place(k, i)', b>>].name \in {NoName, NameOf[sock'[k][i].from]}
            /\ Place(k, i)' = g => sock'[k][i].from = e
        <4>1. ASSUME NEW j \in Addressed(k), Place(k, j) = Place(k, i)',
                     sock[k][j].from = sock'[k][i].from
              PROVE  /\ heap[<<Place(k, i)', b>>].name \in {NoName, NameOf[sock'[k][i].from]}
                     /\ Place(k, i)' = g => sock'[k][i].from = e
          <5>1. heap[<<Place(k, j), b>>].name \in {NoName, NameOf[sock[k][j].from]}
            BY <4>1 DEF NamesInv, NamesTrue
          <5>2. ASSUME Place(k, j) = g
                PROVE  sock[k][j].from = e
            <6>1. k = c
              BY <1>5, <5>2 DEF Place
            <6> QED
              BY <1>5, <4>1, <5>2, <6>1 DEF AddressInv, OneSpeaker
          <5> QED
            BY <4>1, <5>1, <5>2
        <4>2. ASSUME NEW x \in Devices, OnAir(x), Slot(x) = Place(k, i)',
                     sock'[k][i].from = x
              PROVE  /\ heap[<<Place(k, i)', b>>].name \in {NoName, NameOf[sock'[k][i].from]}
                     /\ Place(k, i)' = g => sock'[k][i].from = e
          BY <1>5, <4>2 DEF NamesInv, NamesTrue, AddressInv, OneSpeaker
        <4> QED
          BY <2>3, <4>1, <4>2 DEF Voices
      <3> QED
        BY <1>5, <2>1, <3>1, <3>2
    <2> QED
      BY <2>2, <2>3
  <1> QED
    BY <1>7, <1>8, <1>9, <1>10 DEF NamesInv

LEMMA NamesSteps ==
  ASSUME Inv, AddressInv, NamesInv, ~EarlyFrames, [Next]_vars, AddressInv'
  PROVE  NamesInv' /\ (NamesFixed \/ \E why : Crash(why))
  <1>0. RegistryOK'
    BY NextInv DEF Inv
  <1>1. ASSUME NEW why, Crash(why)
        PROVE  NamesInv'
    <2>1. NamesTrue'
      BY <1>1, QuietNames DEF Crash
    <2>2. \A h \in Handlers : conn'[h].desc = NoPointer
      BY <1>1 DEF Crash, NewConnection
    <2>3. \A p \in Pointers : heap'[p].name = NoName
      BY <1>1 DEF Crash, Blank
    <2>4. Fresh' /\ HoldersNamed'
      BY <2>2, <2>3 DEF Fresh, HoldersNamed, Pointers
    <2> QED
      BY <2>1, <2>4 DEF NamesInv
  <1>2. CASE NamesKept
    <2>1. NamesTrue'
      BY <1>0, <1>2, VoicesSteps, KeptNames, QuietNames
    <2>2. NamesFixed
      BY <1>2 DEF NamesKept, NamesFixed
    <2>3. Fresh'
      BY <1>2 DEF NamesKept, NamesInv, Fresh, Pointers
    <2>4. \A h \in Handlers : conn[h].desc # NoPointer => conn[h].desc \in Pointers
      BY DEF Inv, ConnOK, Connections
    <2>5. HoldersNamed'
      BY <1>2, <2>4 DEF NamesKept, NamesInv, HoldersNamed, Named
    <2> QED
      BY <2>1, <2>2, <2>3, <2>5 DEF NamesInv
  <1>3. ASSUME NEW c \in Cans, ReceiveName(c)
        PROVE  NamesInv' /\ NamesFixed
    <2>1. pool' # {}
      BY <1>3 DEF ReceiveName, Accepted
    <2> QED
      BY <1>3, <2>1, VoicesSteps, ReceivedNames
  <1> QED
    BY <1>1, <1>2, <1>3, NamesKeptSteps
-----------------------------------------------------------------------------
(* The registry.                                                           *)

LEMMA FrontFacts ==
  ASSUME Inv, NEW f \in DOMAIN boards
  PROVE  /\ f \in Nat \ {0} /\ boards[f] \in Instances
         /\ boards[f].desc \in Pointers
         /\ boards[f].backend # NoHandler => boards[f].backend \in Handlers
  <1>1. f \in Nat \ {0} /\ boards[f] \in Instances
    BY DEF Inv, RegistryOK
  <1> QED
    BY <1>1 DEF Instances, Backends

LEMMA OwnerServed ==
  ASSUME DirectoryInv, NEW k \in Pointers, NEW i \in DOMAIN handlers[k],
         NEW b, b = handlers[k][i].backend, b # NoHandler,
         NEW f, f = conn[b].frontend
  PROVE  /\ f \in DOMAIN boards /\ boards[f].backend = b
         /\ heap[boards[f].desc].name = heap[k].name
         /\ boards[f].id = handlers[k][i].id
  <1>1. /\ f \in DOMAIN boards /\ boards[f].backend = b
        /\ Identity(f) = <<heap[k].name, handlers[k][i].id>>
    BY DEF DirectoryInv, OwnersServe
  <1>2. <<heap[boards[f].desc].name, boards[f].id>>
          = <<heap[k].name, handlers[k][i].id>>
    BY <1>1 DEF Identity
  <1> QED
    BY <1>1, <1>2

(* Front end g is that of the instance in place j under k, for backend b. *)
ServesAs(g, b, k, j) ==
  /\ g \in DOMAIN boards /\ boards[g].backend = b
  /\ heap[boards[g].desc].name = heap[k].name
  /\ boards[g].id = handlers[k][j].id

LEMMA OwnersServed ==
  ASSUME DirectoryInv
  PROVE  \A k \in Pointers : \A j \in DOMAIN handlers[k] : \A b, g :
           b = handlers[k][j].backend /\ b # NoHandler /\ g = conn[b].frontend =>
             ServesAs(g, b, k, j)
  BY OwnerServed DEF ServesAs

(* Which key, and which place, an instance with a live place has. *)
LEMMA OneOwner ==
  ASSUME Inv, DirectoryInv,
         NEW k \in Pointers, NEW i \in DOMAIN handlers[k],
         NEW l \in Pointers, NEW j \in DOMAIN handlers[l],
         handlers[k][i].backend # NoHandler, handlers[l][j].backend # NoHandler,
         heap[k].name = heap[l].name, handlers[k][i].id = handlers[l][j].id
  PROVE  k = l /\ i = j
  <1>1. handlers[k] # <<>> /\ handlers[l] # <<>>
    OBVIOUS
  <1>2. k = l
    BY <1>1 DEF DirectoryInv, KeysMapped
  <1>3. i \in Nat /\ j \in Nat
    BY DEF Inv, RegistryOK
  <1> QED
    BY <1>2, <1>3 DEF DirectoryInv, LastOwns

LEMMA PlainDirectory ==
  ASSUME Inv, DirectoryInv, Plain, NamesFixed
  PROVE  DirectoryInv'
  <1>1. /\ descriptor_map' = descriptor_map /\ handlers' = handlers
        /\ holden' = holden /\ boards' = boards
        /\ \A g \in Handlers : /\ conn'[g].frontend = conn[g].frontend
                               /\ conn[g].dead => conn'[g].dead
    BY DEF Plain, registry
  <1>2. \A f \in DOMAIN boards :
          /\ heap[boards[f].desc].name \in Names
          /\ heap'[boards[f].desc].name = heap[boards[f].desc].name
    BY FrontFacts DEF DirectoryInv, FrontsNamed, NamesFixed, Named
  <1>3. \A k \in Pointers : handlers[k] # <<>> =>
          Named(k) /\ heap'[k].name = heap[k].name
    BY DEF DirectoryInv, KeysMapped, NamesFixed
  <1>4. KeysMapped'
    <2>1. \A n \in Names : descriptor_map[n] # NoPointer => descriptor_map[n] \in Pointers
      BY DEF Inv, RegistryOK
    <2> QED
      BY <1>1, <1>3, <2>1 DEF DirectoryInv, KeysMapped, Named
  <1>5. FrontsNamed'
    BY <1>1, <1>2 DEF FrontsNamed, Named
  <1>6. OwnersServe'
    <2> SUFFICES ASSUME NEW k \in Pointers, NEW i \in DOMAIN handlers[k],
                        handlers[k][i].backend # NoHandler
                 PROVE  LET b == handlers[k][i].backend
                            f == conn'[b].frontend
                        IN  /\ f \in DOMAIN boards /\ boards[f].backend = b
                            /\ heap'[boards[f].desc].name = heap'[k].name
                            /\ boards[f].id = handlers[k][i].id
      BY <1>1 DEF OwnersServe, Identity
    <2> DEFINE b == handlers[k][i].backend
               f == conn[b].frontend
    <2>1. b \in Handlers /\ handlers[k] # <<>>
      BY OwnerFacts DEF Inv
    <2>2. /\ f \in DOMAIN boards /\ boards[f].backend = b
          /\ heap[boards[f].desc].name = heap[k].name
          /\ boards[f].id = handlers[k][i].id
      BY DEF DirectoryInv, OwnersServe, Identity
    <2>3. conn'[b].frontend = f
      BY <1>1, <2>1
    <2>4. PICK g \in DOMAIN boards : g = f
      BY <2>2
    <2> HIDE DEF f
    <2> QED
      BY <1>2, <1>3, <2>1, <2>2, <2>3, <2>4
  <1>7. FrontsPoint'
    BY <1>1, FrontFacts DEF DirectoryInv, FrontsPoint
  <1>8. CopiesAgree'
    BY <1>1, <1>2 DEF DirectoryInv, CopiesAgree, Identity
  <1>9. LastOwns'
    BY <1>1 DEF DirectoryInv, LastOwns
  <1>10. HoldenIdle'
    BY <1>1 DEF DirectoryInv, HoldenIdle, Inv, RegistryOK
  <1>11. LaunchedServe'
    BY <1>1 DEF DirectoryInv, LaunchedServe
  <1> QED
    BY <1>4, <1>5, <1>6, <1>7, <1>8, <1>9, <1>10, <1>11 DEF DirectoryInv

(* A place of the registry, and a front end, are given to h. *)
PlaceChanges(k, i, h) ==
  /\ \A l \in Pointers : /\ DOMAIN handlers'[l] = DOMAIN handlers[l]
                         /\ handlers'[l] # <<>> <=> handlers[l] # <<>>
  /\ \A l \in Pointers : \A j \in DOMAIN handlers[l] :
       /\ handlers'[l][j].id = handlers[l][j].id
       /\ handlers'[l][j].backend = IF l = k /\ j = i THEN h ELSE handlers[l][j].backend

FrontChanges(f, h) ==
  /\ DOMAIN boards' = DOMAIN boards
  /\ \A g \in DOMAIN boards :
       /\ boards'[g].desc = boards[g].desc /\ boards'[g].id = boards[g].id
       /\ boards'[g].backend = IF g = f THEN h ELSE boards[g].backend

LEMMA PlaceFields ==
  ASSUME Inv, NEW k \in Pointers, NEW i \in DOMAIN handlers[k], NEW h,
         handlers' = [handlers EXCEPT ![k][i].backend = h]
  PROVE  PlaceChanges(k, i, h)
  <1>1. \A l \in Pointers : \A j \in DOMAIN handlers[l] : handlers[l][j] \in Instances
    BY DEF Inv, RegistryOK
  <1>2. \A l \in Pointers : \A j \in DOMAIN handlers[l] :
          handlers'[l][j] = IF l = k /\ j = i
                            THEN [handlers[l][j] EXCEPT !.backend = h]
                            ELSE handlers[l][j]
    BY DEF Inv, RegistryOK
  <1>3. \A l \in Pointers : /\ DOMAIN handlers'[l] = DOMAIN handlers[l]
                            /\ handlers'[l] # <<>> <=> handlers[l] # <<>>
    BY DEF Inv, RegistryOK
  <1> QED
    BY <1>1, <1>2, <1>3 DEF Instances, PlaceChanges

LEMMA FrontFields ==
  ASSUME Inv, NEW f \in DOMAIN boards, NEW h, boards' = ReplaceBackendHandler(f, h)
  PROVE  FrontChanges(f, h)
  <1>1. \A g \in DOMAIN boards : boards[g] \in Instances
    BY FrontFacts
  <1>2. /\ DOMAIN boards' = DOMAIN boards
        /\ \A g \in DOMAIN boards :
             boards'[g] = IF g = f THEN [boards[g] EXCEPT !.backend = h] ELSE boards[g]
    BY DEF ReplaceBackendHandler
  <1> QED
    BY <1>1, <1>2 DEF Instances, FrontChanges

(* The place of a dead handler, and its front end, go to a new handler.    *)
LEMMA PlaceGiven ==
  ASSUME Inv, DirectoryInv, NamesFixed,
         NEW k \in Pointers, NEW i \in DOMAIN handlers[k],
         NEW old \in Handlers, old = handlers[k][i].backend, conn[old].dead,
         NEW f \in DOMAIN boards, f = conn[old].frontend,
         NEW h \in Handlers, conn[h].frontend = 0, conn'[h].frontend = f,
         \A g \in Handlers \ {h} : conn'[g] = conn[g],
         PlaceChanges(k, i, h), FrontChanges(f, h),
         descriptor_map' = descriptor_map,
         holden' \subseteq holden, h \notin holden'
  PROVE  DirectoryInv'
  <1>0. /\ handlers[k] # <<>> /\ old # NoHandler /\ h # NoHandler
        /\ f \in Nat \ {0}
    BY FrontFacts, ConnectionAssumption
  <1>1. \A l \in Pointers : /\ DOMAIN handlers'[l] = DOMAIN handlers[l]
                            /\ handlers'[l] # <<>> <=> handlers[l] # <<>>
    BY DEF PlaceChanges
  <1>2. \A l \in Pointers : \A j \in DOMAIN handlers[l] :
          /\ handlers'[l][j].id = handlers[l][j].id
          /\ handlers'[l][j].backend = IF l = k /\ j = i THEN h
                                       ELSE handlers[l][j].backend
    BY DEF PlaceChanges
  <1>3. /\ DOMAIN boards' = DOMAIN boards
        /\ \A g \in DOMAIN boards :
             /\ boards'[g].desc = boards[g].desc /\ boards'[g].id = boards[g].id
             /\ boards'[g].backend = IF g = f THEN h ELSE boards[g].backend
    BY DEF FrontChanges
  <1>4. \A g \in DOMAIN boards :
          /\ boards[g].desc \in Pointers /\ heap[boards[g].desc].name \in Names
          /\ heap'[boards[g].desc].name = heap[boards[g].desc].name
    BY FrontFacts DEF DirectoryInv, FrontsNamed, NamesFixed, Named
  <1>5. \A l \in Pointers : handlers[l] # <<>> =>
          Named(l) /\ heap'[l].name = heap[l].name
    BY DEF DirectoryInv, KeysMapped, NamesFixed
  <1>6. /\ boards[f].backend = old /\ heap[boards[f].desc].name = heap[k].name
        /\ boards[f].id = handlers[k][i].id
    BY <1>0, OwnerServed
  <1>16. \A l \in Pointers : \A j \in DOMAIN handlers[l] : \A b, g :
           b = handlers[l][j].backend /\ b # NoHandler /\ g = conn[b].frontend =>
             ServesAs(g, b, l, j)
    BY OwnersServed
  <1>7. \A g \in Handlers \ {h} : conn'[g].frontend = conn[g].frontend
    OBVIOUS
  <1>8. KeysMapped'
    <2>1. \A n \in Names : descriptor_map[n] # NoPointer => descriptor_map[n] \in Pointers
      BY DEF Inv, RegistryOK
    <2> QED
      BY <1>1, <1>5, <2>1 DEF DirectoryInv, KeysMapped, Named
  <1>9. FrontsNamed'
    BY <1>3, <1>4 DEF FrontsNamed, Named
  <1>10. OwnersServe'
    <2> SUFFICES ASSUME NEW l \in Pointers, NEW j \in DOMAIN handlers'[l],
                        handlers'[l][j].backend # NoHandler
                 PROVE  LET b == handlers'[l][j].backend
                            g == conn'[b].frontend
                        IN  /\ g \in DOMAIN boards' /\ boards'[g].backend = b
                            /\ heap'[boards'[g].desc].name = heap'[l].name
                            /\ boards'[g].id = handlers'[l][j].id
      BY DEF OwnersServe, Identity
    <2>1. j \in DOMAIN handlers[l] /\ handlers[l] # <<>>
      BY <1>1
    <2>2. CASE l = k /\ j = i
      <3>1. handlers'[l][j].backend = h /\ handlers'[l][j].id = handlers[k][i].id
        BY <1>2, <2>1, <2>2
      <3>2. heap'[boards'[f].desc].name = heap'[k].name
        <4>1. boards'[f].desc = boards[f].desc
          BY <1>3
        <4>2. heap'[boards[f].desc].name = heap[k].name
          BY <1>4, <1>6
        <4>3. handlers[k] # <<>>
          BY <1>0
        <4>4. heap'[k].name = heap[k].name
          BY <1>5, <4>3
        <4> QED
          BY <4>1, <4>2, <4>4
      <3>3. /\ f \in DOMAIN boards' /\ boards'[f].backend = h
            /\ boards'[f].id = handlers[k][i].id /\ conn'[h].frontend = f
        BY <1>0, <1>3, <1>6
      <3> QED
        BY <2>2, <3>1, <3>2, <3>3
    <2>3. CASE ~(l = k /\ j = i)
      <3>1. PICK b : b = handlers[l][j].backend
        OBVIOUS
      <3>2. /\ b # NoHandler /\ b \in Handlers
            /\ handlers'[l][j].backend = b /\ handlers'[l][j].id = handlers[l][j].id
        BY <1>2, <2>1, <2>3, <3>1, OwnerFacts DEF Inv
      <3>3. PICK g : g = conn[b].frontend
        OBVIOUS
      <3>4. /\ g \in DOMAIN boards /\ boards[g].backend = b
            /\ heap[boards[g].desc].name = heap[l].name
            /\ boards[g].id = handlers[l][j].id
        <4>1. ServesAs(g, b, l, j)
          BY <1>16, <2>1, <3>1, <3>2, <3>3
        <4> QED
          BY <4>1 DEF ServesAs
      <3>5. b # h
        BY <3>3, <3>4, FrontFacts
      <3>6. g # f
        <4>1. ASSUME g = f
              PROVE  FALSE
          <5>1. heap[l].name = heap[k].name /\ handlers[l][j].id = handlers[k][i].id
            BY <1>6, <3>4, <4>1
          <5> QED
            BY <1>0, <2>1, <2>3, <3>1, <3>2, <5>1, OneOwner
        <4> QED
          BY <4>1
      <3> QED
        BY <1>3, <1>4, <1>5, <1>7, <2>1, <3>2, <3>3, <3>4, <3>5, <3>6
    <2> QED
      BY <2>2, <2>3
  <1>11. FrontsPoint'
    <2> SUFFICES ASSUME NEW g \in DOMAIN boards', boards'[g].backend # NoHandler
                 PROVE  conn'[boards'[g].backend].frontend = g
      BY DEF FrontsPoint
    <2>1. g \in DOMAIN boards
      BY <1>3
    <2>2. CASE g = f
      BY <1>3, <2>1, <2>2
    <2>3. CASE g # f
      <3>1. /\ boards'[g].backend = boards[g].backend
            /\ conn[boards[g].backend].frontend = g
            /\ boards[g].backend \in Handlers /\ g # 0
        BY <1>3, <2>1, <2>3, FrontFacts DEF DirectoryInv, FrontsPoint
      <3> QED
        BY <1>7, <3>1
    <2> QED
      BY <2>2, <2>3
  <1>12. CopiesAgree'
    <2> SUFFICES ASSUME NEW g \in DOMAIN boards'
                 PROVE  LET l == descriptor_map'[heap'[boards'[g].desc].name]
                        IN  /\ l # NoPointer
                            /\ \E j \in DOMAIN handlers'[l] :
                                 /\ handlers'[l][j].id = boards'[g].id
                                 /\ handlers'[l][j].backend = boards'[g].backend
      BY DEF CopiesAgree, Identity
    <2>1. /\ g \in DOMAIN boards
          /\ heap'[boards'[g].desc].name = heap[boards[g].desc].name
          /\ boards'[g].id = boards[g].id
      BY <1>3, <1>4
    <2>2. PICK l : l = descriptor_map[heap[boards[g].desc].name]
      OBVIOUS
    <2>3. l # NoPointer /\ \E j \in DOMAIN handlers[l] :
            /\ handlers[l][j].id = boards[g].id
            /\ handlers[l][j].backend = boards[g].backend
      BY <2>1, <2>2 DEF DirectoryInv, CopiesAgree, Identity
    <2>4. l \in Pointers
      BY <1>4, <2>1, <2>2, <2>3 DEF Inv, RegistryOK
    <2>5. \E j \in DOMAIN handlers[l] :
            /\ handlers'[l][j].id = boards'[g].id
            /\ handlers'[l][j].backend = boards'[g].backend
      <3>1. CASE g = f
        <4>1. l = k
          BY <1>0, <1>6, <2>2, <3>1 DEF DirectoryInv, KeysMapped
        <4>2. handlers'[k][i].id = boards'[g].id /\ handlers'[k][i].backend = boards'[g].backend
          BY <1>2, <1>3, <1>6, <3>1
        <4> QED
          BY <4>1, <4>2
      <3>2. CASE g # f
        <4>1. PICK j \in DOMAIN handlers[l] :
                /\ handlers[l][j].id = boards[g].id
                /\ handlers[l][j].backend = boards[g].backend
          BY <2>3
        <4>2. boards[g].backend # old
          BY <1>0, <2>1, <3>2 DEF DirectoryInv, FrontsPoint
        <4>3. ~(l = k /\ j = i)
          BY <4>1, <4>2
        <4>4. /\ handlers'[l][j].id = boards'[g].id
              /\ handlers'[l][j].backend = boards'[g].backend
          BY <1>2, <1>3, <2>1, <2>4, <3>2, <4>1, <4>3
        <4> QED
          BY <4>4
      <3> QED
        BY <3>1, <3>2
    <2>6. DOMAIN handlers'[l] = DOMAIN handlers[l]
      BY <1>1, <2>4
    <2>7. l = descriptor_map'[heap'[boards'[g].desc].name]
      BY <2>1, <2>2
    <2> QED
      BY <2>3, <2>5, <2>6, <2>7
  <1>13. LastOwns'
    <2> SUFFICES ASSUME NEW l \in Pointers, NEW x \in DOMAIN handlers'[l],
                        NEW j \in DOMAIN handlers'[l],
                        x < j, handlers'[l][x].id = handlers'[l][j].id
                 PROVE  handlers'[l][x].backend = NoHandler
      BY DEF LastOwns
    <2>1. x \in DOMAIN handlers[l] /\ j \in DOMAIN handlers[l]
      BY <1>1
    <2>2. handlers[l][x].id = handlers[l][j].id
      BY <1>2, <2>1
    <2>3. handlers[l][x].backend = NoHandler
      BY <2>1, <2>2 DEF DirectoryInv, LastOwns
    <2> QED
      BY <1>0, <1>2, <2>1, <2>3
  <1>14. HoldenIdle'
    <2>1. \A g \in holden' : g \in holden /\ g \in Handlers \ {h}
      BY DEF Inv, RegistryOK
    <2> QED
      BY <1>7, <2>1 DEF DirectoryInv, HoldenIdle
  <1>15. LaunchedServe'
    <2> SUFFICES ASSUME NEW g \in Handlers, conn'[g].frontend # 0
                 PROVE  LET e == conn'[g].frontend
                        IN  /\ e \in DOMAIN boards'
                            /\ boards'[e].backend = NoHandler =>
                                 \A x \in Handlers : conn'[x].frontend = e => x = g
                            /\ boards'[e].backend # NoHandler /\ ~conn'[g].dead =>
                                 boards'[e].backend = g
      BY DEF LaunchedServe
    <2>1. CASE g = h
      BY <1>0, <1>3, <2>1
    <2>2. CASE g # h
      <3>1. PICK e : e = conn[g].frontend
        OBVIOUS
      <3>2. conn'[g].frontend = e /\ conn'[g].dead = conn[g].dead /\ e # 0
        BY <2>2, <3>1
      <3>3. /\ e \in DOMAIN boards
            /\ boards[e].backend = NoHandler =>
                 \A x \in Handlers : conn[x].frontend = e => x = g
            /\ boards[e].backend # NoHandler /\ ~conn[g].dead => boards[e].backend = g
        BY <3>1, <3>2 DEF DirectoryInv, LaunchedServe
      <3>4. CASE e = f
        <4>1. conn[g].dead
          BY <1>0, <1>6, <3>3, <3>4
        <4> QED
          BY <1>0, <1>3, <3>2, <3>3, <3>4, <4>1
      <3>5. CASE e # f
        BY <1>3, <1>7, <3>2, <3>3, <3>5
      <3> QED
        BY <3>4, <3>5
    <2> QED
      BY <2>1, <2>2
  <1> QED
    BY <1>8, <1>9, <1>10, <1>11, <1>12, <1>13, <1>14, <1>15 DEF DirectoryInv

(* A place is added to the registry, and a front end. *)
PlaceAdded(k, m, e) ==
  /\ \A l \in Pointers \ {k} : handlers'[l] = handlers[l]
  /\ m \in Nat /\ \A j \in DOMAIN handlers[k] : j \in Nat /\ j < m
  /\ DOMAIN handlers'[k] = DOMAIN handlers[k] \cup {m}
  /\ handlers'[k][m] = e
  /\ \A j \in DOMAIN handlers[k] : handlers'[k][j] = handlers[k][j]

FrontAdded(w, e) ==
  /\ w \in Nat \ {0} /\ w \notin DOMAIN boards
  /\ DOMAIN boards' = DOMAIN boards \cup {w}
  /\ boards'[w] = e
  /\ \A f \in DOMAIN boards : boards'[f] = boards[f]

LEMMA AddedFields ==
  ASSUME Inv, NEW k \in Pointers, NEW e \in Instances,
         handlers' = [handlers EXCEPT ![k] = Append(@, e)],
         boards' = Append(boards, e)
  PROVE  /\ PlaceAdded(k, Len(handlers[k]) + 1, e)
         /\ FrontAdded(Len(boards) + 1, e) /\ Len(boards') = Len(boards) + 1
  <1>1. handlers[k] \in Seq(Instances) /\ boards \in Seq(Instances)
    BY DEF Inv, RegistryOK
  <1>2. \A l \in Pointers \ {k} : handlers'[l] = handlers[l]
    BY DEF Inv, RegistryOK
  <1>3. handlers'[k] = Append(handlers[k], e)
    BY DEF Inv, RegistryOK
  <1>4. \A s \in Seq(Instances) :
          /\ Len(s) + 1 \in Nat \ {0} /\ Len(s) + 1 \notin DOMAIN s
          /\ \A j \in DOMAIN s : j \in Nat /\ j < Len(s) + 1
          /\ DOMAIN Append(s, e) = DOMAIN s \cup {Len(s) + 1}
          /\ Append(s, e)[Len(s) + 1] = e
          /\ \A j \in DOMAIN s : Append(s, e)[j] = s[j]
          /\ Len(Append(s, e)) = Len(s) + 1
    BY AppendProperties
  <1> QED
    BY <1>1, <1>2, <1>3, <1>4 DEF PlaceAdded, FrontAdded

(* A board of a new instance, or of one all of whose handlers never got    *)
(* an address, gets a place and a front end of its own.                    *)
LEMMA PlaceNew ==
  ASSUME Inv, DirectoryInv, NamesFixed,
         NEW k \in Pointers, NEW n \in Names, heap[k].name = n,
         descriptor_map[n] = k \/ descriptor_map[n] = NoPointer,
         descriptor_map'[n] = k,
         \A x \in Names \ {n} : descriptor_map'[x] = descriptor_map[x],
         NEW e \in Instances, NEW m, NEW w, PlaceAdded(k, m, e), FrontAdded(w, e),
         heap[e.desc].name = n,
         \A j \in DOMAIN handlers[k] :
           handlers[k][j].id = e.id => handlers[k][j].backend = NoHandler,
         NEW h \in Handlers, e.backend = h \/ e.backend = NoHandler,
         conn[h].frontend = 0, conn'[h].frontend = w,
         \A g \in Handlers \ {h} : conn'[g] = conn[g],
         holden' = holden, h \notin holden
  PROVE  DirectoryInv'
  <1>0. /\ h # NoHandler /\ w # 0 /\ \A f \in DOMAIN boards : f # w
        /\ e.desc \in Pointers
    BY ConnectionAssumption DEF FrontAdded, Instances
  <1>1. \A l \in Pointers : \A j \in DOMAIN handlers'[l] :
          \/ j \in DOMAIN handlers[l] /\ handlers'[l][j] = handlers[l][j]
          \/ l = k /\ j = m /\ handlers'[l][j] = e
    BY DEF PlaceAdded
  <1>2. \A l \in Pointers : \A j \in DOMAIN handlers[l] :
          j \in DOMAIN handlers'[l] /\ handlers'[l][j] = handlers[l][j]
    BY DEF PlaceAdded
  <1>3. /\ m \in DOMAIN handlers'[k] /\ handlers'[k][m] = e
        /\ \A l \in Pointers : handlers'[l] # <<>> <=> handlers[l] # <<>> \/ l = k
    BY <1>2 DEF PlaceAdded
  <1>4. /\ DOMAIN boards' = DOMAIN boards \cup {w} /\ boards'[w] = e
        /\ \A f \in DOMAIN boards : boards'[f] = boards[f]
    BY DEF FrontAdded
  <1>5. \A f \in DOMAIN boards :
          /\ boards[f].desc \in Pointers /\ heap[boards[f].desc].name \in Names
          /\ heap'[boards[f].desc].name = heap[boards[f].desc].name
    BY FrontFacts DEF DirectoryInv, FrontsNamed, NamesFixed, Named
  <1>6. \A l \in Pointers : handlers[l] # <<>> \/ l = k \/ l = e.desc =>
          heap[l].name \in Names /\ heap'[l].name = heap[l].name
    BY DEF DirectoryInv, KeysMapped, NamesFixed, Named
  <1>7. \A x \in Names : descriptor_map[x] # NoPointer =>
          /\ descriptor_map[x] \in Pointers /\ descriptor_map'[x] = descriptor_map[x]
    BY DEF Inv, RegistryOK
  <1>8. \A g \in Handlers \ {h} : conn'[g].frontend = conn[g].frontend
    OBVIOUS
  <1>9. KeysMapped'
    <2>1. ASSUME NEW l \in Pointers, handlers'[l] # <<>>
          PROVE  heap'[l].name \in Names /\ descriptor_map'[heap'[l].name] = l
      <3>1. CASE l = k
        BY <1>6, <3>1
      <3>2. CASE l # k
        <4>1. handlers[l] # <<>> /\ heap[l].name \in Names /\ heap'[l].name = heap[l].name
          BY <1>3, <1>6, <2>1, <3>2
        <4>2. descriptor_map[heap[l].name] = l /\ l # NoPointer
          BY <4>1, ConnectionAssumption DEF DirectoryInv, KeysMapped
        <4> QED
          BY <1>7, <4>1, <4>2
      <3> QED
        BY <3>1, <3>2
    <2>2. ASSUME NEW x \in Names, descriptor_map'[x] # NoPointer
          PROVE  /\ heap'[descriptor_map'[x]].name = x
                 /\ handlers'[descriptor_map'[x]] # <<>>
      <3>1. CASE x = n
        BY <1>3, <1>6, <3>1
      <3>2. CASE x # n
        <4>1. /\ descriptor_map'[x] = descriptor_map[x] /\ descriptor_map[x] \in Pointers
              /\ heap[descriptor_map[x]].name = x /\ handlers[descriptor_map[x]] # <<>>
          BY <1>7, <2>2, <3>2 DEF DirectoryInv, KeysMapped
        <4> QED
          BY <1>3, <1>6, <4>1
      <3> QED
        BY <3>1, <3>2
    <2> QED
      BY <2>1, <2>2 DEF KeysMapped, Named
  <1>10. FrontsNamed'
    BY <1>0, <1>4, <1>5, <1>6 DEF FrontsNamed, Named
  <1>11. OwnersServe'
    <2> SUFFICES ASSUME NEW l \in Pointers, NEW j \in DOMAIN handlers'[l],
                        handlers'[l][j].backend # NoHandler
                 PROVE  LET b == handlers'[l][j].backend
                            g == conn'[b].frontend
                        IN  /\ g \in DOMAIN boards' /\ boards'[g].backend = b
                            /\ heap'[boards'[g].desc].name = heap'[l].name
                            /\ boards'[g].id = handlers'[l][j].id
      BY DEF OwnersServe, Identity
    <2>1. CASE l = k /\ j = m /\ handlers'[l][j] = e
      <3>1. handlers'[l][j].backend = h
        BY <2>1
      <3>2. heap'[e.desc].name = heap'[k].name
        BY <1>0, <1>6
      <3> QED
        BY <1>4, <2>1, <3>1, <3>2
    <2>2. CASE j \in DOMAIN handlers[l] /\ handlers'[l][j] = handlers[l][j]
      <3>1. PICK b : b = handlers[l][j].backend
        OBVIOUS
      <3>2. b # NoHandler /\ b \in Handlers /\ handlers[l] # <<>>
        BY <2>2, <3>1, OwnerFacts DEF Inv
      <3>3. PICK g : g = conn[b].frontend
        OBVIOUS
      <3>4. /\ g \in DOMAIN boards /\ boards[g].backend = b
            /\ heap[boards[g].desc].name = heap[l].name
            /\ boards[g].id = handlers[l][j].id
        BY <2>2, <3>1, <3>2, <3>3, OwnerServed
      <3>5. b # h
        BY <3>3, <3>4, FrontFacts
      <3>6. heap'[boards'[g].desc].name = heap'[l].name
        BY <1>4, <1>5, <1>6, <3>2, <3>4
      <3>7. /\ handlers'[l][j].backend = b /\ conn'[b].frontend = g
            /\ boards'[g] = boards[g] /\ g \in DOMAIN boards'
        BY <1>4, <1>8, <2>2, <3>1, <3>2, <3>3, <3>4, <3>5
      <3> QED
        BY <2>2, <3>4, <3>6, <3>7
    <2> QED
      BY <1>1, <2>1, <2>2
  <1>12. FrontsPoint'
    <2>1. \A f \in DOMAIN boards : boards[f].backend # NoHandler =>
            /\ conn[boards[f].backend].frontend = f /\ f # 0
            /\ boards[f].backend \in Handlers
      BY FrontFacts DEF DirectoryInv, FrontsPoint
    <2> QED
      BY <1>4, <1>8, <2>1 DEF FrontsPoint
  <1>13. CopiesAgree'
    <2> SUFFICES ASSUME NEW f \in DOMAIN boards'
                 PROVE  LET l == descriptor_map'[heap'[boards'[f].desc].name]
                        IN  /\ l # NoPointer
                            /\ \E j \in DOMAIN handlers'[l] :
                                 /\ handlers'[l][j].id = boards'[f].id
                                 /\ handlers'[l][j].backend = boards'[f].backend
      BY DEF CopiesAgree, Identity
    <2>1. CASE f = w
      <3>1. descriptor_map'[heap'[boards'[f].desc].name] = k /\ k # NoPointer
        BY <1>0, <1>4, <1>6, <2>1, ConnectionAssumption
      <3> QED
        BY <1>3, <1>4, <2>1, <3>1
    <2>2. CASE f \in DOMAIN boards
      <3>1. PICK l : l = descriptor_map[heap[boards[f].desc].name]
        OBVIOUS
      <3>2. l # NoPointer /\ \E j \in DOMAIN handlers[l] :
              /\ handlers[l][j].id = boards[f].id
              /\ handlers[l][j].backend = boards[f].backend
        BY <2>2, <3>1 DEF DirectoryInv, CopiesAgree, Identity
      <3>3. /\ l \in Pointers /\ descriptor_map'[heap'[boards'[f].desc].name] = l
            /\ boards'[f] = boards[f]
        BY <1>4, <1>5, <1>7, <2>2, <3>1, <3>2
      <3> QED
        BY <1>2, <3>2, <3>3
    <2> QED
      BY <1>4, <2>1, <2>2
  <1>14. LastOwns'
    <2> SUFFICES ASSUME NEW l \in Pointers, NEW x \in DOMAIN handlers'[l],
                        NEW j \in DOMAIN handlers'[l],
                        x < j, handlers'[l][x].id = handlers'[l][j].id
                 PROVE  handlers'[l][x].backend = NoHandler
      BY DEF LastOwns
    <2>1. m \in Nat /\ \A y \in DOMAIN handlers[k] : y \in Nat /\ y < m
      BY DEF PlaceAdded
    <2>2. CASE x \in DOMAIN handlers[l] /\ j \in DOMAIN handlers[l]
      BY <1>2, <2>2 DEF DirectoryInv, LastOwns
    <2>3. CASE ~(x \in DOMAIN handlers[l] /\ j \in DOMAIN handlers[l])
      <3>1. l = k /\ (x = m \/ j = m)
        BY <1>1, <2>3
      <3>2. x # m
        BY <1>1, <2>1, <3>1
      <3>3. x \in DOMAIN handlers[k] /\ handlers'[k][x] = handlers[k][x]
        BY <1>1, <3>1, <3>2
      <3> QED
        BY <1>3, <3>1, <3>2, <3>3
    <2> QED
      BY <2>2, <2>3
  <1>15. HoldenIdle'
    BY <1>8 DEF DirectoryInv, HoldenIdle, Inv, RegistryOK
  <1>16. LaunchedServe'
    <2> SUFFICES ASSUME NEW g \in Handlers, conn'[g].frontend # 0
                 PROVE  LET f == conn'[g].frontend
                        IN  /\ f \in DOMAIN boards'
                            /\ boards'[f].backend = NoHandler =>
                                 \A x \in Handlers : conn'[x].frontend = f => x = g
                            /\ boards'[f].backend # NoHandler /\ ~conn'[g].dead =>
                                 boards'[f].backend = g
      BY DEF LaunchedServe
    <2>1. \A x \in Handlers \ {h} : conn'[x].frontend # w
      <3>1. \A x \in Handlers : conn[x].frontend # 0 => conn[x].frontend \in DOMAIN boards
        BY DEF DirectoryInv, LaunchedServe
      <3> QED
        BY <1>0, <1>8, <3>1
    <2>2. CASE g = h
      BY <1>4, <2>1, <2>2
    <2>3. CASE g # h
      <3>1. PICK f : f = conn[g].frontend
        OBVIOUS
      <3>2. conn'[g] = conn[g] /\ f # 0
        BY <2>3, <3>1
      <3>3. /\ f \in DOMAIN boards
            /\ boards[f].backend = NoHandler =>
                 \A x \in Handlers : conn[x].frontend = f => x = g
            /\ boards[f].backend # NoHandler /\ ~conn[g].dead => boards[f].backend = g
        BY <3>1, <3>2 DEF DirectoryInv, LaunchedServe
      <3> QED
        BY <1>0, <1>4, <1>8, <3>1, <3>2, <3>3
    <2> QED
      BY <2>2, <2>3
  <1> QED
    BY <1>9, <1>10, <1>11, <1>12, <1>13, <1>14, <1>15, <1>16 DEF DirectoryInv

(* What RegisterNewHandler starts from: a handler that serves nobody yet,  *)
(* and the one key for its name.                                           *)
LEMMA RegisterFacts ==
  ASSUME Inv, AddressInv, NamesInv, DirectoryInv, NEW c \in Cans, InitAccepted(c)
  PROVE  \E k \in Pointers :
           LET h == Addressee(c)
               p == conn[h].desc
               n == heap[p].name
           IN  /\ h \in Handlers /\ h \in pool /\ conn[h] \in Connections /\ ~conn[h].dead
               /\ h \notin holden /\ conn[h].frontend = 0
               /\ p \in Pointers /\ n \in Names
               /\ Keys(p) = {k} /\ heap[k].name = n
               /\ descriptor_map[n] = k \/ descriptor_map[n] = NoPointer
               /\ descriptor_map[n] = NoPointer => handlers[k] = <<>>
               /\ descriptor_map'[n] = k
               /\ \A x \in Names \ {n} : descriptor_map'[x] = descriptor_map[x]
  <1> DEFINE h == Addressee(c)
             p == conn[h].desc
             n == heap[p].name
             k == IF descriptor_map[n] = NoPointer THEN p ELSE descriptor_map[n]
  <1>1. /\ Accepted(c, "init") /\ h \in Handlers /\ h \in pool
        /\ conn[h] \in Connections /\ ~conn[h].dead /\ sock[c] # <<>> /\ p \in Pointers
    BY AcceptedFacts, InitAcceptedFacts DEF Accepted
  <1>2. h \notin Registered
    <2>1. 1 \in Inits(c) /\ Place(c, 1) = h
      BY <1>1, HeadTailProperties
      DEF Accepted, Received, Inits, Place, Addressee, Inv, BusOK
    <2> QED
      BY <2>1 DEF AddressInv, RegisteredOnce
  <1>3. h \notin holden /\ conn[h].frontend = 0
    BY <1>1, <1>2 DEF Registered
  <1>4. n \in Names
    BY <1>1, ConnectionAssumption DEF NamesInv, HoldersNamed, Named
  <1>5. descriptor_map[n] # NoPointer =>
          /\ descriptor_map[n] \in Pointers
          /\ heap[descriptor_map[n]].name = n /\ handlers[descriptor_map[n]] # <<>>
    BY <1>4 DEF DirectoryInv, KeysMapped, Inv, RegistryOK
  <1>6. k \in Pointers /\ heap[k].name = n /\ k # NoPointer
    BY <1>1, <1>5, ConnectionAssumption
  <1>7. \A l \in Pointers : handlers[l] # <<>> /\ heap[l].name = n => descriptor_map[n] = l
    BY DEF DirectoryInv, KeysMapped
  <1>8. Keys(p) = {k}
    <2>1. CASE descriptor_map[n] = NoPointer
      <3>1. {l \in Pointers : handlers[l] # <<>> /\ heap[l].name = n} = {}
        BY <1>7, <2>1, ConnectionAssumption
      <3> QED
        BY <2>1, <3>1 DEF Keys
    <2>2. CASE descriptor_map[n] # NoPointer
      <3>1. {l \in Pointers : handlers[l] # <<>> /\ heap[l].name = n} = {descriptor_map[n]}
        BY <1>5, <1>7, <2>2
      <3> QED
        BY <2>2, <3>1 DEF Keys
    <2> QED
      BY <2>1, <2>2
  <1>9. /\ descriptor_map'[n] = k
        /\ \A x \in Names \ {n} : descriptor_map'[x] = descriptor_map[x]
    BY <1>4 DEF InitAccepted, Inv, RegistryOK
  <1>10. descriptor_map[n] = NoPointer => handlers[k] = <<>>
    BY <1>6, <1>7
  <1> QED
    BY <1>1, <1>3, <1>4, <1>6, <1>8, <1>9, <1>10

LEMMA RegisterDirectory ==
  ASSUME Inv, AddressInv, NamesInv, DirectoryInv, NamesFixed,
         NEW c \in Cans, Registers(c)
  PROVE  DirectoryInv'
  <1> DEFINE h == Addressee(c)
             p == conn[h].desc
             n == heap[p].name
  <1>0. InitAccepted(c)
    BY DEF Registers, RegisterNew, RegisterReplacing, RegisterHolding
  <1>1. PICK k \in Pointers :
          /\ h \in Handlers /\ h \in pool /\ conn[h] \in Connections /\ ~conn[h].dead
          /\ h \notin holden /\ conn[h].frontend = 0
          /\ p \in Pointers /\ n \in Names
          /\ Keys(p) = {k} /\ heap[k].name = n
          /\ descriptor_map[n] = k \/ descriptor_map[n] = NoPointer
          /\ descriptor_map[n] = NoPointer => handlers[k] = <<>>
          /\ descriptor_map'[n] = k
          /\ \A x \in Names \ {n} : descriptor_map'[x] = descriptor_map[x]
    BY <1>0, RegisterFacts
  <1>2. PICK g : g = h
    OBVIOUS
  <1>3. PICK nm : nm = n
    OBVIOUS
  <1>4. CASE RegisterNew(c)
    <2> DEFINE e == GetBoard(h)
               w == Len(boards) + 1
    <2>1. /\ handlers' = [handlers EXCEPT ![k] = Append(@, e)]
          /\ Owners(k, conn[h].id) = {}
          /\ boards' = Append(boards, e)
          /\ conn' = [conn EXCEPT ![h] = Launch(@, Len(boards'))]
          /\ holden' = holden
      BY <1>1, <1>4 DEF RegisterNew
    <2>2. e \in Instances /\ e.desc = p /\ e.id = conn[h].id /\ e.backend \in {h, NoHandler}
      BY <1>1, GetBoardFacts DEF GetBoard, Inv
    <2>3. \A j \in DOMAIN handlers[k] :
            handlers[k][j].id = e.id => handlers[k][j].backend = NoHandler
      BY <2>1, <2>2 DEF Owners
    <2> HIDE DEF e
    <2>4. PlaceAdded(k, Len(handlers[k]) + 1, e) /\ FrontAdded(w, e) /\ Len(boards') = w
      BY <2>1, <2>2, AddedFields
    <2> HIDE DEF w
    <2>5. conn'[h].frontend = w /\ \A x \in Handlers \ {h} : conn'[x] = conn[x]
      BY <1>1, <2>1, <2>4, LaunchKeeps DEF Inv, ConnOK
    <2>6. PICK v : v = w
      OBVIOUS
    <2>7. PICK b : b = e
      OBVIOUS
    <2>8. PICK m : m = Len(handlers[k]) + 1
      OBVIOUS
    <2> HIDE DEF h, n, p
    <2>9. /\ b \in Instances /\ heap[b.desc].name = nm
          /\ b.backend = g \/ b.backend = NoHandler
          /\ \A j \in DOMAIN handlers[k] :
               handlers[k][j].id = b.id => handlers[k][j].backend = NoHandler
          /\ PlaceAdded(k, m, b) /\ FrontAdded(v, b)
      BY <1>2, <1>3, <2>2, <2>3, <2>4, <2>6, <2>7, <2>8 DEF n
    <2>10. /\ g \in Handlers /\ g \notin holden /\ conn[g].frontend = 0
           /\ nm \in Names /\ heap[k].name = nm
           /\ descriptor_map[nm] = k \/ descriptor_map[nm] = NoPointer
           /\ descriptor_map'[nm] = k
           /\ \A x \in Names \ {nm} : descriptor_map'[x] = descriptor_map[x]
      BY <1>1, <1>2, <1>3
    <2>11. /\ conn'[g].frontend = v /\ \A x \in Handlers \ {g} : conn'[x] = conn[x]
           /\ holden' = holden
      BY <1>2, <2>1, <2>5, <2>6
    <2> QED
      BY <2>9, <2>10, <2>11, PlaceNew, SMTT(20)
  <1>5. CASE RegisterReplacing(c)
    <2>1. PICK i \in First(Owners(k, conn[h].id)) :
            LET old == handlers[k][i].backend
            IN  /\ conn[old].dead
                /\ handlers' = [handlers EXCEPT ![k][i].backend = h]
                /\ boards' = ReplaceBackendHandler(conn[old].frontend, h)
                /\ conn' = [conn EXCEPT ![h] = Launch(@, conn[old].frontend)]
      BY <1>1, <1>5 DEF RegisterReplacing
    <2>2. i \in DOMAIN handlers[k] /\ handlers[k][i].backend # NoHandler
      BY DEF First, Owners
    <2>3. PICK old : old = handlers[k][i].backend
      OBVIOUS
    <2>4. PICK f : f = conn[old].frontend
      OBVIOUS
    <2>5. old \in Handlers /\ old # NoHandler /\ f \in DOMAIN boards
      BY <2>2, <2>3, <2>4, OwnerFacts, OwnerServed DEF Inv
    <2>6. /\ conn[old].dead
          /\ handlers' = [handlers EXCEPT ![k][i].backend = g]
          /\ boards' = ReplaceBackendHandler(f, g)
          /\ conn' = [conn EXCEPT ![g] = Launch(conn[g], f)]
      BY <1>2, <2>1, <2>3, <2>4
    <2>7. PlaceChanges(k, i, g) /\ FrontChanges(f, g)
      BY <2>2, <2>5, <2>6, PlaceFields, FrontFields
    <2>8. conn'[g].frontend = f /\ \A x \in Handlers \ {g} : conn'[x] = conn[x]
      BY <1>1, <1>2, <2>6, LaunchKeeps DEF Inv, ConnOK
    <2>9. descriptor_map' = descriptor_map /\ holden' = holden
      <3>1. descriptor_map[n] = k
        BY <1>1, <2>2
      <3>2. \A x \in Names : descriptor_map'[x] = descriptor_map[x]
        BY <1>1, <3>1
      <3>3. descriptor_map' \in [Names -> Pointers \cup {NoPointer}]
        BY <1>0, InitAcceptedFacts
      <3> QED
        BY <1>5, <3>2, <3>3 DEF RegisterReplacing, Inv, RegistryOK
    <2>10. /\ g \in Handlers /\ g \notin holden' /\ conn[g].frontend = 0
           /\ conn[old].dead
      BY <1>1, <1>2, <2>6, <2>9
    <2> QED
      BY <2>2, <2>3, <2>4, <2>5, <2>7, <2>8, <2>9, <2>10, PlaceGiven
  <1>6. CASE RegisterHolding(c)
    <2>1. Owners(k, conn[h].id) # {} /\ holden' = holden \cup {h}
      BY <1>1, <1>6 DEF RegisterHolding, First
    <2>2. descriptor_map[n] = k
      BY <1>1, <2>1 DEF Owners
    <2>3. descriptor_map' = descriptor_map
      <3>1. \A x \in Names : descriptor_map'[x] = descriptor_map[x]
        BY <1>1, <2>2
      <3>2. descriptor_map' \in [Names -> Pointers \cup {NoPointer}]
        BY <1>0, InitAcceptedFacts
      <3> QED
        BY <3>1, <3>2 DEF Inv, RegistryOK
    <2>4. UNCHANGED <<conn, heap, handlers, boards>>
      BY <1>6 DEF RegisterHolding
    <2>5. HoldenIdle'
      BY <1>1, <2>1, <2>4 DEF DirectoryInv, HoldenIdle
    <2>6. KeysMapped' /\ FrontsNamed'
      BY <2>3, <2>4 DEF DirectoryInv, KeysMapped, FrontsNamed, Named
    <2>7. OwnersServe' /\ FrontsPoint'
      BY <2>4 DEF DirectoryInv, OwnersServe, FrontsPoint, Identity
    <2>8. CopiesAgree'
      BY <2>3, <2>4 DEF DirectoryInv, CopiesAgree, Identity
    <2>9. LastOwns' /\ LaunchedServe'
      BY <2>4 DEF DirectoryInv, LastOwns, LaunchedServe
    <2> QED
      BY <2>5, <2>6, <2>7, <2>8, <2>9 DEF DirectoryInv
  <1> QED
    BY <1>4, <1>5, <1>6 DEF Registers

(* RequestNewHandler replaces the dead backend of the front end itself: the *)
(* first instance of its identity with a handler is its own.                *)
LEMMA SubstituteFacts ==
  ASSUME Inv, DirectoryInv, NEW f \in DOMAIN boards, NEW reboot \in BOOLEAN,
         Substitute(f, reboot)
  PROVE  \E k \in Pointers : \E i \in DOMAIN handlers[k] :
         \E old \in Handlers : \E h \in Handlers :
           /\ Replace(f, k, i, h, reboot)
           /\ old = handlers[k][i].backend /\ old = boards[f].backend
           /\ conn[old].dead /\ conn[old].frontend = f
           /\ h \in holden /\ ~conn[h].dead /\ conn[h].frontend = 0
           /\ h \in Substitutes(f)
           /\ heap[k].name = heap[boards[f].desc].name
  <1>1. PICK h \in Substitutes(f), i \in First(Candidates(f)) :
          Replace(f, boards[f].desc, i, h, reboot)
    BY DEF Substitute
  <1>2. PICK k : k = boards[f].desc
    OBVIOUS
  <1>3. PICK b : b = boards[f].backend
    OBVIOUS
  <1>4. k \in Pointers /\ (b # NoHandler => b \in Handlers)
    BY <1>2, <1>3, FrontFacts
  <1>5. /\ i \in DOMAIN handlers[k] /\ handlers[k][i].id = boards[f].id
        /\ \A j \in DOMAIN handlers[k] : handlers[k][j].id = boards[f].id => i <= j
    BY <1>2 DEF First, Candidates
  <1>6. h \in holden /\ h \in Handlers /\ ~conn[h].dead /\ conn[h].frontend = 0
    BY DEF Substitutes, DirectoryInv, HoldenIdle, Inv, RegistryOK
  <1>7. handlers[k][i].backend # NoHandler
    BY <1>1, <1>2 DEF Replace
  <1>8. descriptor_map[heap[k].name] = k
    BY <1>4, <1>5 DEF DirectoryInv, KeysMapped
  <1>9. PICK j \in DOMAIN handlers[k] :
          handlers[k][j].id = boards[f].id /\ handlers[k][j].backend = b
    BY <1>2, <1>3, <1>8 DEF DirectoryInv, CopiesAgree, Identity
  <1>10. i = j
    <2>1. i \in Nat /\ j \in Nat /\ i <= j
      BY <1>4, <1>5, <1>9 DEF Inv, RegistryOK
    <2>2. ~(i < j)
      BY <1>4, <1>5, <1>7, <1>9 DEF DirectoryInv, LastOwns
    <2> QED
      BY <2>1, <2>2
  <1>11. b # NoHandler /\ b \in Handlers /\ b = handlers[k][i].backend
    BY <1>4, <1>7, <1>9, <1>10
  <1>12. conn[b].dead /\ conn[b].frontend = f
    BY <1>3, <1>11 DEF Substitute, Stale, DirectoryInv, FrontsPoint
  <1> QED
    BY <1>1, <1>2, <1>3, <1>4, <1>5, <1>6, <1>11, <1>12

LEMMA SubstituteDirectory ==
  ASSUME Inv, DirectoryInv, NamesFixed, NEW f \in DOMAIN boards,
         NEW reboot \in BOOLEAN, Substitute(f, reboot)
  PROVE  DirectoryInv'
  <1>1. PICK k \in Pointers : \E i \in DOMAIN handlers[k] :
          \E old \in Handlers : \E h \in Handlers :
            /\ Replace(f, k, i, h, reboot)
            /\ old = handlers[k][i].backend /\ old = boards[f].backend
            /\ conn[old].dead /\ conn[old].frontend = f
            /\ h \in holden /\ ~conn[h].dead /\ conn[h].frontend = 0
            /\ heap[k].name = heap[boards[f].desc].name
    BY SubstituteFacts
  <1>2. PICK i \in DOMAIN handlers[k], old \in Handlers, h \in Handlers :
          /\ Replace(f, k, i, h, reboot)
          /\ old = handlers[k][i].backend /\ conn[old].dead /\ conn[old].frontend = f
          /\ h \in holden /\ conn[h].frontend = 0
    BY <1>1
  <1>3. /\ handlers' = [handlers EXCEPT ![k][i].backend = h]
        /\ boards' = ReplaceBackendHandler(f, h)
        /\ holden' \subseteq holden /\ h \notin holden'
    <2>1. holden' = (holden \ {h}) \cup {}
      BY <1>2 DEF Replace
    <2> QED
      BY <1>2, <2>1 DEF Replace
  <1>4. PlaceChanges(k, i, h) /\ FrontChanges(f, h)
    BY <1>3, PlaceFields, FrontFields
  <1>5. /\ descriptor_map' = descriptor_map /\ conn'[h].frontend = f
        /\ \A g \in Handlers \ {h} : conn'[g] = conn[g]
    BY <1>2, ReplaceKeeps
  <1>6. holden' \subseteq holden /\ h \notin holden'
    BY <1>3
  <1> QED
    BY <1>2, <1>4, <1>5, <1>6, PlaceGiven
-----------------------------------------------------------------------------
(* The directory holds in the beginning and after every step.              *)

LEMMA InitDirectory == Init => NamesInv /\ DirectoryInv
  <1> SUFFICES ASSUME Init
               PROVE  NamesInv /\ DirectoryInv
    OBVIOUS
  <1>1. /\ \A p \in Pointers : heap[p].name = NoName /\ handlers[p] = <<>>
        /\ \A h \in Handlers : conn[h].desc = NoPointer /\ conn[h].frontend = 0
        /\ DOMAIN boards = {} /\ holden = {}
        /\ \A n \in Names : descriptor_map[n] = NoPointer
    BY DEF Init, Blank, NewConnection
  <1>2. \A d \in Devices : ~OnAir(d)
    BY ServerAssumption DEF Init, OnAir
  <1>3. \A c \in Cans : DOMAIN sock[c] = {}
    <2>1. \A c \in Cans : sock[c] = <<>>
      BY DEF Init
    <2>2. DOMAIN <<>> = {}
      OBVIOUS
    <2> QED
      BY <2>1, <2>2, Zenon
  <1>4. NamesInv
    BY <1>1, <1>2, <1>3
    DEF NamesInv, Fresh, NamesTrue, HoldersNamed, Pointers, Addressed
  <1>5. KeysMapped /\ FrontsNamed /\ OwnersServe /\ LastOwns
    BY <1>1 DEF KeysMapped, FrontsNamed, OwnersServe, LastOwns
  <1>6. FrontsPoint /\ CopiesAgree /\ HoldenIdle /\ LaunchedServe
    BY <1>1 DEF FrontsPoint, CopiesAgree, HoldenIdle, LaunchedServe
  <1> QED
    BY <1>4, <1>5, <1>6 DEF DirectoryInv

LEMMA CrashDirectory ==
  ASSUME NEW why, Crash(why)
  PROVE  DirectoryInv'
  <1>1. /\ \A p \in Pointers : handlers'[p] = <<>>
        /\ \A h \in Handlers : conn'[h].frontend = 0
        /\ DOMAIN boards' = {} /\ holden' = {}
        /\ \A n \in Names : descriptor_map'[n] = NoPointer
    BY DEF Crash, NewConnection
  <1>2. KeysMapped' /\ FrontsNamed' /\ OwnersServe' /\ LastOwns'
    BY <1>1 DEF KeysMapped, FrontsNamed, OwnersServe, LastOwns
  <1>3. FrontsPoint' /\ CopiesAgree' /\ HoldenIdle' /\ LaunchedServe'
    BY <1>1 DEF FrontsPoint, CopiesAgree, HoldenIdle, LaunchedServe
  <1> QED
    BY <1>2, <1>3 DEF DirectoryInv

LEMMA DirectorySteps ==
  ASSUME Inv, AddressInv, NamesInv, DirectoryInv, ~EarlyFrames,
         [Next]_vars, AddressInv'
  PROVE  NamesInv' /\ DirectoryInv'
  <1>1. NamesInv' /\ (NamesFixed \/ \E why : Crash(why))
    BY NamesSteps
  <1>2. CASE \E why : Crash(why)
    BY <1>1, <1>2, CrashDirectory
  <1>3. CASE NamesFixed
    <2>1. CASE \E why : Crash(why)
      BY <1>1, <2>1, CrashDirectory
    <2>2. CASE Plain
      BY <1>1, <1>3, <2>2, PlainDirectory
    <2>3. CASE \E c \in Cans : Registers(c)
      BY <1>1, <1>3, <2>3, RegisterDirectory
    <2>4. CASE \E f \in DOMAIN boards : \E reboot \in BOOLEAN : Substitute(f, reboot)
      BY <1>1, <1>3, <2>4, SubstituteDirectory
    <2> QED
      BY <2>1, <2>2, <2>3, <2>4, StepKinds
  <1> QED
    BY <1>1, <1>2, <1>3

LEMMA OnlyOneLive ==
  ASSUME Inv, AddressInv, DirectoryInv
  PROVE  OneLiveBackend
  <1>1. \A g, h \in pool :
          /\ conn[g].frontend = conn[h].frontend /\ conn[g].frontend # 0
          /\ ~conn[g].dead /\ ~conn[h].dead
          => g = h
    BY DEF Inv, RegistryOK, DirectoryInv, LaunchedServe
  <1> QED
    BY <1>1 DEF OneLiveBackend, DirectoryInv, HoldenIdle

(* The names the server has for its boards do not change hands, and the    *)
(* registry of BoardManager, the front ends of RosModule and the handlers  *)
(* that are on hold fit together, through any history of boards that join, *)
(* die, come back and replace each other.                                  *)
THEOREM RegistryFits ==
  ASSUME ~EarlyFrames
  PROVE  Spec /\ Heard => [](NamesInv /\ DirectoryInv)
  <1>1. /\ Inv /\ AddressInv /\ AddressInv' /\ NamesInv /\ DirectoryInv /\ [Next]_vars
        => (NamesInv /\ DirectoryInv)'
    BY DirectorySteps
  <1> QED
    BY <1>1, InitInv, NextInv, InitDirectory, OneBoardPerAddress, PTL DEF Spec

(* A handler on hold (board.cpp:89) serves nobody, and no two live handlers *)
(* serve one front end: not after RegisterNewHandler replaced a dead one,  *)
(* nor after RequestNewHandler did, in any order of the two.               *)
THEOREM OneLiveBackendAlways ==
  ASSUME ~EarlyFrames
  PROVE  Spec /\ Heard => []OneLiveBackend
  <1>1. Inv /\ AddressInv /\ DirectoryInv => OneLiveBackend
    BY OnlyOneLive
  <1> QED
    BY <1>1, InitInv, NextInv, RegistryFits, OneBoardPerAddress, PTL DEF Spec

(* BoardManager and RosModule each keep a copy of every BoardInstance; the *)
(* one found by the name of a front end has the same backend.              *)
THEOREM CopiesAlwaysAgree ==
  ASSUME ~EarlyFrames
  PROVE  Spec /\ Heard => []CopiesAgree
  <1>1. DirectoryInv => CopiesAgree
    BY DEF DirectoryInv
  <1> QED
    BY <1>1, RegistryFits, PTL

(* The same while no frame is lost, without a word about the invitation.   *)
LosslessDirectory == NothingLost => NamesInv /\ DirectoryInv

LEMMA LosslessDirectorySteps ==
  ASSUME ~EarlyFrames, Inv, LosslessInv, LosslessInv', LosslessDirectory, [Next]_vars
  PROVE  LosslessDirectory'
  <1> SUFFICES ASSUME NothingLost'
               PROVE  (NamesInv /\ DirectoryInv)'
    BY DEF LosslessDirectory
  <1>1. NothingLost
    BY NextInv, LostIsCounted DEF Inv
  <1>2. AddressInv /\ AddressInv' /\ NamesInv /\ DirectoryInv
    BY <1>1 DEF LosslessInv, LosslessDirectory
  <1> QED
    BY <1>2, DirectorySteps

(* Without a lost frame the two invariants hold whatever boards do.        *)
THEOREM DirectoryUnlessLost ==
  ASSUME ~EarlyFrames
  PROVE  Spec => [](NothingLost => OneLiveBackend /\ CopiesAgree)
  <1>1. Init => LosslessInv /\ LosslessDirectory
    BY InitAddress, InitDirectory
    DEF Init, LosslessInv, LosslessDirectory, AddressesKnown
  <1>2. Inv /\ LosslessInv /\ [Next]_vars => LosslessInv'
    BY LosslessSteps
  <1>3. Inv /\ LosslessInv /\ LosslessInv' /\ LosslessDirectory /\ [Next]_vars
          => LosslessDirectory'
    BY LosslessDirectorySteps
  <1>4. Inv /\ LosslessInv /\ LosslessDirectory
          => (NothingLost => OneLiveBackend /\ CopiesAgree)
    BY OnlyOneLive DEF LosslessInv, LosslessDirectory, DirectoryInv
  <1> QED
    BY <1>1, <1>2, <1>3, <1>4, InitInv, NextInv, PTL DEF Spec
-----------------------------------------------------------------------------
(* The registry implements the abstract directory of links.                *)

LEMMA LinkedFacts ==
  ASSUME Inv, DirectoryInv
  PROVE  /\ \A x \in Identities : \A g, h \in Linked(x) : g = h
         /\ \A x \in Identities : LinkMap[x] \in Linked(x) \cup {NoHandler}
         /\ \A x \in Identities : \A h \in Linked(x) :
              /\ LinkMap[x] = h /\ conn[h].frontend \in DOMAIN boards
              /\ Identity(conn[h].frontend) = x
              /\ boards[conn[h].frontend].backend = h
         /\ \A f \in DOMAIN boards : Identity(f) \in Identities
  <1>1. ASSUME NEW x \in Identities, NEW g \in Linked(x), NEW h \in Linked(x)
        PROVE  g = h
    <2> DEFINE k == descriptor_map[x[1]]
    <2>1. /\ k # NoPointer
          /\ \E i \in DOMAIN handlers[k] :
               handlers[k][i].id = x[2] /\ handlers[k][i].backend = g
          /\ \E i \in DOMAIN handlers[k] :
               handlers[k][i].id = x[2] /\ handlers[k][i].backend = h
      BY DEF Linked, DirectoryInv, CopiesAgree
    <2>2. k \in Pointers
      BY <2>1 DEF Identities, Inv, RegistryOK
    <2> HIDE DEF k
    <2>3. PICK i \in DOMAIN handlers[k], j \in DOMAIN handlers[k] :
            /\ handlers[k][i].id = handlers[k][j].id
            /\ handlers[k][i].backend = g /\ handlers[k][j].backend = h
      BY <2>1
    <2>4. g # NoHandler /\ h # NoHandler
      BY ConnectionAssumption DEF Linked
    <2>5. i \in Nat /\ j \in Nat
      BY <2>2 DEF Inv, RegistryOK
    <2>6. i = j
      BY <2>2, <2>3, <2>4, <2>5 DEF DirectoryInv, LastOwns
    <2> QED
      BY <2>3, <2>6
  <1>2. ASSUME NEW x \in Identities
        PROVE  LinkMap[x] = LinkOf(x)
    BY DEF LinkMap
  <1>3. ASSUME NEW x \in Identities
        PROVE  LinkMap[x] \in Linked(x) \cup {NoHandler}
    BY <1>2 DEF LinkOf
  <1>4. ASSUME NEW x \in Identities, NEW h \in Linked(x)
        PROVE  LinkMap[x] = h
    BY <1>1, <1>2 DEF LinkOf
  <1>5. ASSUME NEW x \in Identities, NEW h \in Linked(x)
        PROVE  /\ conn[h].frontend \in DOMAIN boards
               /\ Identity(conn[h].frontend) = x
               /\ boards[conn[h].frontend].backend = h
    <2>1. PICK f \in DOMAIN boards : Identity(f) = x /\ boards[f].backend = h
      BY DEF Linked
    <2>2. h # NoHandler
      BY ConnectionAssumption DEF Linked
    <2>3. conn[h].frontend = f
      BY <2>1, <2>2 DEF DirectoryInv, FrontsPoint
    <2> QED
      BY <2>1, <2>3
  <1>6. ASSUME NEW f \in DOMAIN boards
        PROVE  Identity(f) \in Identities
    BY FrontFacts DEF Identity, Identities, Instances, DirectoryInv, FrontsNamed, Named
  <1> QED
    BY <1>1, <1>3, <1>4, <1>5, <1>6

LEMMA SameLinks ==
  ASSUME \A x \in Identities : Linked(x)' = Linked(x)
  PROVE  LinkMap' = LinkMap
  <1>1. \A x \in Identities : LinkOf(x)' = LinkOf(x)
    <2> SUFFICES ASSUME NEW x \in Identities
                 PROVE  LinkOf(x)' = LinkOf(x)
      OBVIOUS
    <2>1. Linked(x)' = Linked(x)
      OBVIOUS
    <2> QED
      BY <2>1 DEF LinkOf
  <1> QED
    BY <1>1, Zenon DEF LinkMap

LEMMA PlainLinks ==
  ASSUME Inv, Inv', DirectoryInv, Plain, NamesFixed
  PROVE  Directory!Next
  <1>1. \A x \in Identities : Linked(x)' = Linked(x)
    <2>1. \A f \in DOMAIN boards : /\ boards'[f] = boards[f]
                                   /\ heap'[boards[f].desc].name = heap[boards[f].desc].name
      BY FrontFacts DEF Plain, registry, DirectoryInv, FrontsNamed, NamesFixed, Named
    <2>2. boards' = boards
      BY DEF Plain, registry
    <2> QED
      BY <2>1, <2>2 DEF Linked, Identity
  <1>2. LinkMap' = LinkMap
    BY <1>1, SameLinks
  <1>3. Abandoned \subseteq Abandoned' /\ Abandoned' \subseteq Handlers
    BY DEF Plain, Abandoned, Inv, RegistryOK
  <1>4. Directory!GiveUp(Abandoned')
    BY <1>2, <1>3 DEF Directory!GiveUp
  <1> QED
    BY <1>3, <1>4 DEF Directory!Next

LEMMA CrashLinks ==
  ASSUME NEW why, Crash(why)
  PROVE  Directory!Next
  <1>1. boards' = <<>> /\ pool' = {}
    BY DEF Crash
  <1>2. DOMAIN boards' = {}
    <2>1. DOMAIN <<>> = {}
      OBVIOUS
    <2> QED
      BY <1>1, <2>1, Zenon
  <1>3. \A x \in Identities : Linked(x)' = {}
    BY <1>2 DEF Linked
  <1>4. LinkMap' = [x \in Identities |-> NoHandler]
    BY <1>3 DEF LinkMap, LinkOf
  <1>5. Abandoned' = {}
    BY <1>1 DEF Abandoned
  <1> QED
    BY <1>4, <1>5 DEF Directory!Next, Directory!Restart

(* A handler that serves nobody is given to an identity whose link, if any, *)
(* is dead: what it was linked to and what becomes of it say the rest.      *)
LEMMA LinkMoves ==
  ASSUME Inv, Inv', DirectoryInv, NEW x \in Identities, NEW h \in Handlers,
         h \in pool, ~conn[h].dead, conn[h].frontend = 0, pool' = pool,
         \A g \in Linked(x) : g \in pool /\ conn[g].dead,
         Linked(x)' = {h},
         \A y \in Identities \ {x} : Linked(y)' = Linked(y),
         \A g \in Handlers \ {h} : conn'[g] = conn[g]
  PROVE  Directory!Next
  <1>1. LinkMap[x] = NoHandler \/ LinkMap[x] \in Abandoned
    BY LinkedFacts DEF Abandoned, Linked
  <1>2. h \notin Abandoned
    BY DEF Abandoned
  <1>3. \A y \in Identities : LinkMap[y] # h
    <2> SUFFICES ASSUME NEW y \in Identities, LinkMap[y] = h
                 PROVE  FALSE
      OBVIOUS
    <2>1. h \in Linked(y)
      BY LinkedFacts, ConnectionAssumption
    <2>2. 0 \in DOMAIN boards
      BY <2>1, LinkedFacts
    <2> QED
      BY <2>2, FrontFacts
  <1>4. h \notin Directory!Used
    BY <1>2, <1>3 DEF Directory!Used
  <1>5. LinkMap' = [LinkMap EXCEPT ![x] = h]
    <2>1. \A y \in Identities : LinkOf(y)' = IF y = x THEN h ELSE LinkOf(y)
      <3>1. LinkOf(x)' = h
        BY DEF LinkOf
      <3>2. ASSUME NEW y \in Identities, y # x
            PROVE  LinkOf(y)' = LinkOf(y)
        <4>1. Linked(y)' = Linked(y)
          BY <3>2
        <4> QED
          BY <4>1 DEF LinkOf
      <3> QED
        BY <3>1, <3>2
    <2>2. LinkMap' = [y \in Identities |-> IF y = x THEN h ELSE LinkOf(y)]
      BY <2>1 DEF LinkMap
    <2>3. [LinkMap EXCEPT ![x] = h] = [y \in Identities |-> IF y = x THEN h ELSE LinkOf(y)]
      BY DEF LinkMap
    <2> QED
      BY <2>2, <2>3
  <1>6. Abandoned' \in {Abandoned, Abandoned \cup {h}}
    BY DEF Abandoned, Inv, RegistryOK
  <1>7. Directory!Attach(x, h)
    BY <1>1, <1>4, <1>5, <1>6 DEF Directory!Attach
  <1> QED
    BY <1>7 DEF Directory!Next

LEMMA GivenLinked ==
  ASSUME Inv, DirectoryInv, NamesFixed, NEW f \in DOMAIN boards,
         NEW x, x = Identity(f), NEW old \in Handlers, old = boards[f].backend,
         NEW h \in Handlers, FrontChanges(f, h)
  PROVE  /\ x \in Identities /\ Linked(x) = {old} /\ Linked(x)' = {h}
         /\ \A y \in Identities \ {x} : Linked(y)' = Linked(y)
  <1>1. x \in Identities /\ old \in Linked(x)
    BY LinkedFacts DEF Linked
  <1>2. Linked(x) = {old}
    BY <1>1, LinkedFacts
  <1>3. \A y : Linked(y)' = {g \in Handlers : \E e \in DOMAIN boards :
                               Identity(e) = y /\ boards'[e].backend = g}
    <2>1. \A e \in DOMAIN boards :
            <<heap'[boards'[e].desc].name, boards'[e].id>> = Identity(e)
      <3>1. \A e \in DOMAIN boards :
              heap'[boards[e].desc].name = heap[boards[e].desc].name
        BY FrontFacts DEF DirectoryInv, FrontsNamed, NamesFixed, Named
      <3> QED
        BY <3>1 DEF FrontChanges, Identity
    <2>2. DOMAIN boards' = DOMAIN boards
      BY DEF FrontChanges
    <2>3. \A y : Linked(y)' =
            {g \in Handlers : \E e \in DOMAIN boards' :
               <<heap'[boards'[e].desc].name, boards'[e].id>> = y /\ boards'[e].backend = g}
      BY DEF Linked, Identity
    <2> QED
      BY <2>1, <2>2, <2>3
  <1>4. \A e \in DOMAIN boards : boards'[e].backend = IF e = f THEN h ELSE boards[e].backend
    BY DEF FrontChanges
  <1>5. \A e \in DOMAIN boards \ {f} : Identity(e) = x => boards[e].backend \notin Handlers
    <2> SUFFICES ASSUME NEW e \in DOMAIN boards, Identity(e) = x,
                        boards[e].backend \in Handlers
                 PROVE  e = f
      OBVIOUS
    <2>1. boards[e].backend \in Linked(x)
      BY DEF Linked
    <2>2. boards[e].backend = old /\ old # NoHandler
      BY <1>2, <2>1, ConnectionAssumption
    <2> QED
      BY <2>2 DEF DirectoryInv, FrontsPoint
  <1>6. Linked(x)' = {h}
    BY <1>3, <1>4, <1>5
  <1>7. ASSUME NEW y \in Identities \ {x}
        PROVE  Linked(y)' = Linked(y)
    BY <1>3, <1>4 DEF Linked
  <1> QED
    BY <1>1, <1>2, <1>6, <1>7

LEMMA AddedLinked ==
  ASSUME Inv, DirectoryInv, NamesFixed, NEW w, NEW e \in Instances, FrontAdded(w, e),
         NEW n \in Names, heap[e.desc].name = n, NEW x, x = <<n, e.id>>
  PROVE  /\ x \in Identities
         /\ \A y : y # x => Linked(y)' = Linked(y)
         /\ Linked(x)' = Linked(x) \cup ({e.backend} \cap Handlers)
  <1>1. \A f \in DOMAIN boards :
          <<heap'[boards'[f].desc].name, boards'[f].id>> = Identity(f)
    <2>1. \A f \in DOMAIN boards :
            heap'[boards[f].desc].name = heap[boards[f].desc].name
      BY FrontFacts DEF DirectoryInv, FrontsNamed, NamesFixed, Named
    <2> QED
      BY <2>1 DEF FrontAdded, Identity
  <1>2. e.desc \in Pointers /\ e.id \in Ids \cup {NoId}
    BY DEF Instances
  <1>3. <<heap'[boards'[w].desc].name, boards'[w].id>> = x
    BY <1>2 DEF FrontAdded, NamesFixed, Named
  <1>4. \A y : Linked(y)' =
          {g \in Handlers : \E f \in DOMAIN boards' :
             <<heap'[boards'[f].desc].name, boards'[f].id>> = y /\ boards'[f].backend = g}
    BY DEF Linked, Identity
  <1>5. \A y : Linked(y)' =
          {g \in Handlers :
             \/ \E f \in DOMAIN boards : Identity(f) = y /\ boards[f].backend = g
             \/ x = y /\ e.backend = g}
    BY <1>1, <1>3, <1>4 DEF FrontAdded
  <1>6. ASSUME NEW y, y # x
        PROVE  Linked(y)' = Linked(y)
    <2>1. Linked(y)' = {g \in Handlers :
                          \E f \in DOMAIN boards : Identity(f) = y /\ boards[f].backend = g}
      BY <1>5, <1>6
    <2> QED
      BY <2>1 DEF Linked
  <1>7. Linked(x)' = Linked(x) \cup ({e.backend} \cap Handlers)
    BY <1>5 DEF Linked
  <1>8. x \in Identities
    BY <1>2 DEF Identities
  <1> QED
    BY <1>6, <1>7, <1>8

LEMMA RegisterLinks ==
  ASSUME Inv, Inv', AddressInv, NamesInv, DirectoryInv, NamesFixed,
         NEW c \in Cans, Registers(c)
  PROVE  [Directory!Next]_<<LinkMap, Abandoned>>
  <1> DEFINE h == Addressee(c)
             p == conn[h].desc
             n == heap[p].name
  <1>0. InitAccepted(c)
    BY DEF Registers, RegisterNew, RegisterReplacing, RegisterHolding
  <1>1. PICK k \in Pointers :
          /\ h \in Handlers /\ h \in pool /\ conn[h] \in Connections /\ ~conn[h].dead
          /\ conn[h].frontend = 0 /\ p \in Pointers /\ n \in Names
          /\ Keys(p) = {k} /\ heap[k].name = n
          /\ descriptor_map[n] = k \/ descriptor_map[n] = NoPointer
          /\ descriptor_map[n] = NoPointer => handlers[k] = <<>>
    BY <1>0, RegisterFacts
  <1>2. PICK g : g = h
    OBVIOUS
  <1>3. PICK nm : nm = n
    OBVIOUS
  <1>4. CASE RegisterNew(c)
    <2> DEFINE e == GetBoard(h)
    <2>1. /\ handlers' = [handlers EXCEPT ![k] = Append(@, e)]
          /\ Owners(k, conn[h].id) = {}
          /\ boards' = Append(boards, e)
          /\ conn' = [conn EXCEPT ![h] = Launch(@, Len(boards'))]
          /\ pool' = pool
      BY <1>1, <1>4 DEF RegisterNew
    <2>2. e \in Instances /\ e.desc = p /\ e.id = conn[h].id /\ e.backend \in {h, NoHandler}
      BY <1>1, GetBoardFacts DEF GetBoard, Inv
    <2>3. \A j \in DOMAIN handlers[k] :
            handlers[k][j].id = e.id => handlers[k][j].backend = NoHandler
      BY <2>1, <2>2 DEF Owners
    <2> HIDE DEF e
    <2>4. PICK w \in Nat : FrontAdded(w, e) /\ w = Len(boards')
      <3>1. Len(boards) + 1 \in Nat
        BY DEF Inv, RegistryOK
      <3> QED
        BY <2>1, <2>2, <3>1, AddedFields
    <2>5. /\ conn'[h].dead = conn[h].dead
          /\ \A x \in Handlers \ {h} : conn'[x] = conn[x]
      BY <1>1, <2>1, <2>4, LaunchKeeps DEF Inv, ConnOK
    <2>6. PICK b : b = e
      OBVIOUS
    <2>7. PICK x : x = <<nm, b.id>>
      OBVIOUS
    <2> HIDE DEF h, n, p
    <2>8. /\ b \in Instances /\ heap[b.desc].name = nm /\ nm \in Names
          /\ b.backend \in {g, NoHandler} /\ FrontAdded(w, b)
          /\ g \in Handlers /\ g \in pool /\ ~conn[g].dead /\ conn[g].frontend = 0
      BY <1>1, <1>2, <1>3, <2>2, <2>4, <2>6 DEF n
    <2>9. /\ x \in Identities
          /\ \A y : y # x => Linked(y)' = Linked(y)
          /\ Linked(x)' = Linked(x) \cup ({b.backend} \cap Handlers)
      BY <2>7, <2>8, AddedLinked
    <2>10. Linked(x) = {}
      <3> SUFFICES ASSUME NEW l \in Linked(x)
                   PROVE  FALSE
        OBVIOUS
      <3>1. /\ descriptor_map[nm] # NoPointer
            /\ \E i \in DOMAIN handlers[descriptor_map[nm]] :
                 /\ handlers[descriptor_map[nm]][i].id = b.id
                 /\ handlers[descriptor_map[nm]][i].backend = l
        BY <2>7 DEF Linked, DirectoryInv, CopiesAgree
      <3>2. descriptor_map[nm] = k
        BY <1>1, <1>3, <3>1
      <3> QED
        BY <2>3, <2>6, <3>1, <3>2, ConnectionAssumption DEF Linked
    <2>11. pool' = pool /\ \A y \in Handlers \ {g} : conn'[y] = conn[y]
      BY <1>2, <2>1, <2>5
    <2>12. CASE b.backend = g
      BY <2>8, <2>9, <2>10, <2>11, <2>12, LinkMoves
    <2>13. CASE b.backend = NoHandler
      <3>1. LinkMap' = LinkMap
        BY <2>9, <2>13, ConnectionAssumption, SameLinks
      <3>2. Abandoned' = Abandoned
        BY <1>2, <2>5, <2>11 DEF Abandoned, Inv, RegistryOK
      <3> QED
        BY <3>1, <3>2
    <2> QED
      BY <2>8, <2>12, <2>13
  <1>5. CASE RegisterReplacing(c)
    <2>1. PICK i \in First(Owners(k, conn[h].id)) :
            LET old == handlers[k][i].backend
            IN  /\ conn[old].dead
                /\ boards' = ReplaceBackendHandler(conn[old].frontend, h)
                /\ conn' = [conn EXCEPT ![h] = Launch(@, conn[old].frontend)]
      BY <1>1, <1>5 DEF RegisterReplacing
    <2>2. i \in DOMAIN handlers[k] /\ handlers[k][i].backend # NoHandler
      BY DEF First, Owners
    <2>3. PICK old : old = handlers[k][i].backend
      OBVIOUS
    <2>4. PICK f : f = conn[old].frontend
      OBVIOUS
    <2>5. old \in Handlers /\ f \in DOMAIN boards /\ boards[f].backend = old
      BY <2>2, <2>3, <2>4, OwnerFacts, OwnerServed DEF Inv
    <2>6. /\ conn[old].dead /\ boards' = ReplaceBackendHandler(f, g)
          /\ conn' = [conn EXCEPT ![g] = Launch(conn[g], f)]
      BY <1>2, <2>1, <2>3, <2>4
    <2>7. /\ FrontChanges(f, g) /\ pool' = pool
          /\ \A x \in Handlers \ {g} : conn'[x] = conn[x]
      BY <1>5, <2>5, <2>6, FrontFields DEF RegisterReplacing, Inv, ConnOK
    <2>8. PICK x : x = Identity(f)
      OBVIOUS
    <2>9. old \in pool
      BY <2>4, <2>5, FrontFacts DEF AddressInv, RegisteredOnce, Registered
    <2>10. /\ x \in Identities /\ Linked(x) = {old} /\ Linked(x)' = {g}
           /\ \A y \in Identities \ {x} : Linked(y)' = Linked(y)
      BY <1>1, <1>2, <2>5, <2>7, <2>8, GivenLinked
    <2> QED
      BY <1>1, <1>2, <2>6, <2>7, <2>9, <2>10, LinkMoves
  <1>6. CASE RegisterHolding(c)
    <2>1. UNCHANGED <<conn, heap, pool, boards>>
      BY <1>6 DEF RegisterHolding
    <2>2. \A x \in Identities : Linked(x)' = Linked(x)
      BY <2>1 DEF Linked, Identity
    <2> QED
      BY <2>1, <2>2, SameLinks DEF Abandoned
  <1> QED
    BY <1>4, <1>5, <1>6 DEF Registers

LEMMA SubstituteLinks ==
  ASSUME Inv, Inv', AddressInv, DirectoryInv, NamesFixed,
         NEW f \in DOMAIN boards, NEW reboot \in BOOLEAN, Substitute(f, reboot)
  PROVE  Directory!Next
  <1>1. PICK k \in Pointers : \E i \in DOMAIN handlers[k] :
          \E old \in Handlers : \E h \in Handlers :
            /\ Replace(f, k, i, h, reboot)
            /\ old = boards[f].backend /\ conn[old].dead /\ conn[old].frontend = f
            /\ h \in holden /\ ~conn[h].dead /\ conn[h].frontend = 0
    BY SubstituteFacts
  <1>2. PICK i \in DOMAIN handlers[k], old \in Handlers, h \in Handlers :
          /\ Replace(f, k, i, h, reboot)
          /\ old = boards[f].backend /\ conn[old].dead /\ conn[old].frontend = f
          /\ h \in holden /\ ~conn[h].dead /\ conn[h].frontend = 0
    BY <1>1
  <1>3. FrontChanges(f, h)
    BY <1>2, FrontFields DEF Replace
  <1>4. pool' = pool /\ \A g \in Handlers \ {h} : conn'[g] = conn[g]
    BY <1>2, ReplaceKeeps
  <1>5. old \in pool /\ h \in pool
    BY <1>2, FrontFacts DEF AddressInv, RegisteredOnce, Registered
  <1>6. PICK x : x = Identity(f)
    OBVIOUS
  <1>7. /\ x \in Identities /\ Linked(x) = {old} /\ Linked(x)' = {h}
        /\ \A y \in Identities \ {x} : Linked(y)' = Linked(y)
    BY <1>2, <1>3, <1>6, GivenLinked
  <1> QED
    BY <1>2, <1>4, <1>5, <1>7, LinkMoves

LEMMA InitLinks == Init => Directory!Init
  <1> SUFFICES ASSUME Init
               PROVE  Directory!Init
    OBVIOUS
  <1>1. DOMAIN boards = {} /\ pool = {}
    BY DEF Init
  <1>2. \A x \in Identities : LinkOf(x) = NoHandler
    BY <1>1 DEF LinkOf, Linked
  <1> QED
    BY <1>1, <1>2 DEF Directory!Init, LinkMap, Abandoned

LEMMA LinkSteps ==
  ASSUME Inv, Inv', AddressInv, AddressInv', NamesInv, DirectoryInv,
         ~EarlyFrames, [Next]_vars
  PROVE  [Directory!Next]_<<LinkMap, Abandoned>>
  <1>1. CASE \E why : Crash(why)
    BY <1>1, CrashLinks
  <1>2. CASE NamesFixed
    <2>1. CASE Plain
      BY <1>2, <2>1, PlainLinks
    <2>2. CASE \E c \in Cans : Registers(c)
      BY <1>2, <2>2, RegisterLinks
    <2>3. CASE \E f \in DOMAIN boards : \E reboot \in BOOLEAN : Substitute(f, reboot)
      BY <1>2, <2>3, SubstituteLinks
    <2> QED
      BY <1>1, <2>1, <2>2, <2>3, StepKinds
  <1> QED
    BY <1>1, <1>2, NamesSteps

(* The server implements LinkDirectory: whatever happens on the buses, each *)
(* identity has one link to a board, and the next only after the server has *)
(* given that one up for good.                                             *)
THEOREM ServerImplementsDirectory ==
  ASSUME ~EarlyFrames
  PROVE  Spec /\ Heard => ImplementsDirectory
  <1>1. /\ Inv /\ Inv' /\ AddressInv /\ AddressInv' /\ NamesInv /\ DirectoryInv
        /\ [Next]_vars
        => [Directory!Next]_<<LinkMap, Abandoned>>
    BY LinkSteps
  <1> QED
    BY <1>1, InitInv, NextInv, InitLinks, RegistryFits, OneBoardPerAddress, PTL
    DEF Spec, ImplementsDirectory, Directory!Spec

(* While no frame is lost, the order to reboot is heard.                   *)
THEOREM HeardUnlessLost == Spec /\ []NothingLost => Heard
  <1>1. Inv /\ Inv' /\ [Next]_vars /\ NothingLost' => [InvitationHeard]_vars
    BY LostIsCounted DEF Inv
  <1> QED
    BY <1>1, InitInv, NextInv, PTL DEF Spec, Heard
=============================================================================

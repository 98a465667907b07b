# rubi_server: specifications, checks and proofs

`rubi_server` runs on a robot's main computer. It gives addresses to
microcontroller boards on one or more CAN buses, learns from each what it is,
and connects its fields to ROS topics. This directory holds TLA+ models of the
server, the configurations that model-check them and machine-checked proofs.

Run `tlc -config X.cfg MCM.tla` for a configuration (the table of runs names
the module) and `tlapm M.tla` for the proofs, with M one of `ConnectionFacts`,
`KeepAliveProofs`, `RubiServerProofs`, `HandshakeProofs`, `FragmentFacts`,
`TxRingProofs`, `BlockReceiverProofs` and `RosFrontendProofs`.

## 1. The system

The program has one thread. `main` calls `BoardManager::Spin`, which lets each
`CanHandler` poll its boards and read its socket, and then `RosModule::Spin`,
which runs ROS callbacks. What makes it hard is outside: boards that lose power
at any point of a handshake and join again, several buses, frames that are
queued, lost or from an earlier life of the process, ROS calls at any time, and
a process that ends at the first failed `ASSERT` and is started again.

| component | source | state | operations | correct if |
|---|---|---|---|---|
| `CanHandler`, one per bus | `can_handler.cpp` | `address_pool` (slot -> handler), time of the last keep-alive round | constructor (bind, order all boards to reboot), `NewBoard`, `Tick` (keep-alive round, dispatch of frames) | a frame reaches the handler of its sender; a handler that is dead hears nothing; a free slot is found |
| `BoardCommunicationHandler`, one per address | `communication.cpp` | addressed, dead, lost, wake, keep-alive counters, descriptor and id, front end | `ConfirmAddress`, `DescriptionDataInbound`, `CommandInbound`, `KeepAliveRequest`, `HandshakeComplete`, `Launch`, `Hold`, `CommandReboot` | dead exactly after five unanswered rounds or an order; death is final |
| `BoardManager` | `board.cpp` | `descriptor_map` (name -> descriptor), `handlers` (descriptor -> instances), `holden_handlers` | `RegisterNewHandler`, `RequestNewHandler` | one front end per instance; one live backend per front end; a board on hold takes over when its predecessor is dead |
| `RosModule`, `RosBoardHandler` (front end) | `ros_frontend.cpp` | the list of front ends, in each a copy of the `BoardInstance` | `NewBoard`, `BackendReady`, `ReplaceBackendHandler`, callbacks for fields, reboot, sleep, wake, panic, services | calls reach the board they are for; the copy agrees with the registry |
| `ProtocolHandler`, one per handler | `protocol.cpp` | transmit ring and cursors, header being sent; receive buffer and block counter | `SendFFData`, `rubi_continue_tx`, `SendCommand`, `rubi_inbound` | what is sent is the message; what is handed on is a message the board sent |
| descriptors | `descriptors.cpp` | name, version, driver, fields and functions of a board type | `ApplyInfo`, `Build`, equality | a description with a gap is never taken for the whole one |
| `SocketCan` | `socketcan.cpp` | the socket, the last frame, counters | `Send`, `Receive` | a frame that is handed on twice does no harm |
| main loop | `main.cpp`, `BoardManager::Spin` | the clock reading of the turn | `Spin` | every bus and ROS get their turn; slow turns cost no board its connection |
| fake server, a second program | `fake_server.cpp`, `fake_communication.cpp` | wake flags of its handlers | makes up three boards, feeds two of them with data | its data fits its descriptions |
| logger, exceptions, ROS messages and services | | | | - |

How they interact: a frame with a lottery id makes `CanHandler::NewBoard` create
a handler; a frame with an address goes through `ProtocolHandler` to the handler
of that address; `INIT_COMPLETE` calls `BoardManager::RegisterNewHandler`, which
makes a new front end, gives the front end of a dead handler a new backend, or
puts the new handler on hold; a ROS callback calls `BackendReady`, which may
call `BoardManager::RequestNewHandler` to take a handler off hold. All of these
are direct calls; only frames are asynchronous. The state the calls share is
the `BoardInstance`: the handler, the registry and the front end each hold a
*copy* of it, and each copy is updated by other code.

The boards run `rubi_client`, a separate repository. Their behaviour is modelled
from what the server expects of them and marked external in the map.

## 2. Modules

| module | models | builds on |
|---|---|---|
| `Connection` | the record of one `BoardCommunicationHandler` and what each method does to it, as operators | |
| `KeepAlive` | one connection, its rounds, requests and answers in transit, a board that falls silent, a reboot order, a failing `recvmsg` | `Connection` |
| `ReceiveLoop` | the loop of `main`, `Tick` and `SocketCan` with time: what drives the steps of `KeepAlive` | `KeepAlive` |
| `RubiServer` | the server with all its connections: `CanHandler`, `BoardManager`, the backend of `RosBoardHandler`, and the boards and buses around them | `Connection` |
| `LinkDirectory` | abstract: what the server promises the ROS side | |
| `Fragmentation` | the format of messages in frames | |
| `TxRing` | `SendFFData` and `rubi_continue_tx`: the ring, the cursors and what goes out | `Fragmentation` |
| `BlockReceiver` | `rubi_inbound`: reassembly when frames are lost | `Fragmentation` |
| `Descriptors` | descriptions as records, and what a line does to them | |
| `RosFrontend` | the tables of a `RosBoardHandler`, field data to and from ROS, the services that describe boards, as operators | `Descriptors` |
| `RosFields` | one board from the first line of its description to its ROS topics and back, across rejoins and new firmware | `RosFrontend` |
| `FakeServer` | the second program of the repository | `RosFrontend` |
| `ConnectionFacts`, `KeepAliveProofs` | lemmas and theorems about one connection and the loop that drives it | `Connection`, `ReceiveLoop` |
| `RubiServerProofs`, `HandshakeProofs` | theorems about the server: types, who speaks at an address and the registry; what the server knows of boards and why it does not die | `RubiServer`, the second on the first |
| `FragmentFacts`, `TxRingProofs`, `BlockReceiverProofs` | lemmas about the frames of a message; theorems about the ring that sends them and the buffer that gathers them | `Fragmentation`, `TxRing`, `BlockReceiver` |
| `RosFrontendProofs` | theorems about descriptions, the tables made of them and the data that goes through the tables | `RosFields`, `FakeServer` |
| `MC...` | the constants of the configurations; `MCRosFields` also composes the two programs that link the ROS front end | |

**Connection and KeepAlive.** `KeepAliveRequest` is the method of that name:
it first settles the previous request (`missed`, `lost`, `dead`), then asks
again. Requests carry no number (`TODO keep-alive id`), so the model counts
requests and answers in transit, lets any be lost or late, and keeps in the
history variable `quiet` how many rounds have really passed since the last
answer was processed. The properties compare the flags of the code with it.
`SocketCan` keeps the last frame in a member and ignores the result of
`recvmsg`; `ReadAgain` is the call that fails and hands that frame on again.

**ReceiveLoop.** `stage` is where the one thread is, seen from one link: before
its bus, in `Send`, in the drain of its bus, or after it. `age` and `since` are
the ages of the two clock readings the code keeps (`time`, read once per turn,
and `last_keepalive`). Time passes anywhere, so a turn, a blocked `Send` and a
drain that other boards prolong (`noise`) can be long, and meanwhile boards
answer. `ImplementsKeepAlive` says that the loop does what `KeepAlive` assumes
of it, its fairness included; `excused` remembers whether, since the last
processed answer, something was lost or late for which the board or the bus is
to blame.

**RubiServer.** A handler is identified with its slot (a bus and a node id),
because the pool never frees one; a pointer to a `BoardDescriptor` with the
handler that made it and whether it had confirmed its address; a front end with
its index in `RosModule::boards`. `conn`, `pool`, `heap`, `descriptor_map`,
`handlers`, `holden` and `boards` are the program's state, `sock` the receive
queues, `device` the boards. One step is one frame (`Receive`), one keep-alive
round of a bus, one ROS call (`Query`: any that does not order a reboot;
`Reboot`), the start of a bus (`Bind`, `Invite`) or the end of the process
(`Abort`, `Stray`, `Unnamed`, `Panic`). The loop visits these in a fixed order,
but frames and calls arrive when they like and each bus has a clock of its own,
so every order of steps can happen. A failed `ASSERT` and a null pointer that
is followed are steps to a fresh process, with the reason in `fault`: the boards
go on, with addresses the new process does not know. What a board says of
itself is a name, a body (all the rest) and an optional id.

The boards: without an address they enter the lottery, again while the server has
not read their last entry (each of which costs a slot, since `NewBoard` does not know
who asks); they learn their address at once when the server assigns it; they send their script (confirm,
name, body, id, init), answer keep-alives, send data when operational and events
when addressed. They may lose power at any time. Frames of one bus stay in order.
Any frame and any command may be lost (`FrameIsLost`): what goes to the server
in `Deliver`, what goes to boards in `Orders`, where each board on the bus hears
a broadcast or not. `failures` counts lost frames and everything else that goes
wrong with boards (power, ordered reboots, repeated lottery entries) against one
budget. The commands of one step of the code arrive together: `Replace` tells the
new board OPERATIONAL and the old one REBOOT, and each may be lost, but no frame of
a board comes between the two.

**Descriptors, RosFrontend and RosFields.** `ApplyInfo` takes a line (a tag and
a value) as the code does: a name starts a new field or function, every other
attribute goes to the newest. `InfoFaults` is why a line fails. `RosFrontend`
has the numberings of the code: `fftable`, `fieldtable`, one publisher per
field (or none), subscribers only where ROS may write; `InboundFaults`,
`Published`, `OutboundFaults`, `Outbound` are the checks and conversions of field
data, with eight-bit lengths and integers cut to their width. The callback of bools
reads the handler's descriptor where the others read the front end's; both are the
same object or compared equal. A ROS client
may send one value too many or too few (`Messages`); the assertions on lengths
are computed from the sizes of the description, as in the code. `FieldCount` is the counter
`fc` of `Init`. `RosFields` sends the lines of
one board through this (`told` is the position of the board in what it says: a
part, which is its introduction or one of its fields, and a line of that), loses some, lets the board rejoin with the same or other
firmware, sleep and wake, and exchanges data; `exchange` is the last value on both
sides. What `RubiServer` models in detail (who serves a front end when) is one
variable here, `link`; that data never comes to a handler without a front end
(`communication.cpp:158`) is `NoFault` there, and a guard here (`MaySend`).

**FakeServer** makes its boards without a handshake and feeds data for fields it
finds by number; the wake flags of its handlers are never initialized, so they
start with either value.

**LinkDirectory.** Each identity (name and id) has at most one link. A link that
is given up stays so and is not handed out again, and another takes its place
only afterwards. `RubiServer` implements it with the backend of the identity's
front end as its link and the dead handlers as those given up
(`ImplementsDirectory`): replacing, holding, taking off hold, rebooting and
crashing are all steps of it.

**TxRing.** The code's cursors keep their names. `Written` and `Advanced` are
the two-piece copy and the cursor arithmetic of `rubi_tx_enqueue_back`;
`TakeHeader`, `SendBlock` and `SendLast` are the iterations of
`rubi_continue_tx`. Bytes are told apart by message and place, so a byte that is
read twice or left over from an earlier message shows.

**BlockReceiver.** `received` is the used part of `rubi_rx_buffer`, `count` is
`blocks_received`, which starts with any of `InitialCounts` because it has no
initializer (a `uint32_t`, `protocol.h:45`: no run of blocks that the buffer can
hold reaches its end, so the model does not wrap it); `SizeLimit` is the 256 of the `uint8_t` that holds the length of
what was reassembled. The board's messages go through a link that loses frames.

## 3. Runs

`DeadAfter`, the limit of missed keep-alives, is 5 in `KeepAlive` (the code's
value, where it matters) and 2 elsewhere (the smallest that still tells a lost
board from a dead one).

| run | instance | checks |
|---|---|---|
| KeepAlive | one connection, limit 5, three requests and answers in transit, one failing `recvmsg`; a second is 2 ticks, boards are late after 1, a turn takes up to 4 | `TypeOK`; `CountersExact`: the counters equal the history; `DeathJustified`: dead iff rebooted or five rounds unanswered; `DeathIsFinal`: no late answer changes a dead connection; `MissesNeedCause`: a board that answers in time misses two rounds in a row at most, however slow the loop; `SilenceIsNoticed`: a silent board is dead in the end; `ImplementsKeepAlive` |
| Rejoin | one board, 3 slots, 2 failures, reboots, repeated entries or lost frames, data | `TypeOK`; `CopiesAgree`, `OneLiveBackend` whatever is lost; `SlotsAccounted`: no more addresses are taken than one for each board and each failure; `OneFrontEnd`; `OperationalIffServed`: of the boards that are connected, those told to operate are those that are the backend of their front end; `NoFault`; `ImplementsDirectory` |
| Spare | two interchangeable boards (symmetry), 3 slots, 1 failure | `CopiesAgree`: registry and front ends name the same backend, and the services find every instance; `OneLiveBackend`: a handler on hold serves nobody and a front end has one live handler; `ImplementsDirectory` |
| Fleet | two instances of a type on a bus, 3 slots, data and events, 1 failure, 1 panic | `OneFrontEnd`; `RightBoard`: who listens at the address of a front end's live backend is the board of that identity; `RightSource`: queued data will be published as its sender's |
| Recovery | one board, 3 slots, 2 failures, 1 panic, frames heard before the reboot order | `AllComeOnline`: a board that fails no more is online for good; `StaysAcquainted`: a process that knows all boards and frames goes on knowing them, so `can_handler.cpp:90` ends it only for what an earlier process left behind |
| TxRing | ring of 11 bytes, header 2, messages of 0 to 7 bytes, blocks of 3 | `CursorsExact`, `WireIsMessage`, no deadlock |
| BlockLoss | 4 messages of 1, 4, 6 or 9 bytes, lengths modulo 8, 5 losses, counter from 0, 1 or 2 | `IntactIsDelivered`: after a final frame, whatever was lost and whatever the counter started with, a whole transfer is delivered whole (modulo 8); `DamageIsNoticed`; `OnlyLossFillsBuffer` |
| Fields | three firmwares of three fields (all message types but `float`, gaps in both directions, subfields, a field too big for the protocol), 2 lost lines, 1 change of firmware; the fake server | `SpeaksTheSameLanguage`: a launched board has the fields its topics were made for; `RightTopic`, `RightField`: values come out at the field they were meant for, unchanged if it can hold them; `ServicesMatchTopics`; `OnlyDamageKills`: nothing a sound board says, when it loses nothing, ends the server, and no ROS message with as many values as its field has; `WakeIsLearned`; `FakesAreShown` |
| HotPlug, StaleFrames, BlockSplice, Functions | small instances | counterexamples, below |

Why these bounds are enough. Three slots for one board are its first connection,
its replacement and one more, so a replaced connection is replaced again and a
handler waits on hold behind a dead or a live one; for two boards a failure of
either meets every stage of the other. A queue of one or two frames lets a
frame wait while a round, a call or a frame of the other board is handled; a
queue longer than that only delays frames behind others in the same order. The
ring is only just longer than a message, so within a few messages each length
starts at each place and wraps at each byte, the sizes around `Inline` and
around multiples of `Chunk` included. Two lost runs in up to four messages
reach every way a final frame can meet blocks of another transfer. A turn of four
ticks is two seconds long, so the loop misses a whole second, and the answer and
the next round can meet in either order. Two lost lines are enough to lose a name
and an attribute, or one line in each of two handshakes.

`Timely` (boards answer before the next round, a second later) is assumed in
Fleet, Recovery and HotPlug to bound them, and not in Rejoin and Spare, where
connections are lost and die with their board alive. `EarlyFrames` says whether
the server reads frames that boards sent between its `bind` and its order to
reboot; they are in Recovery and StaleFrames. `Chatter` is what boards send
besides their handshake; one that sends an event before its name ends the
process (`communication.cpp:78`), so Rejoin, which checks `NoFault`, has data
only. Every bound is a constant: `QueueLimit`, `MaxFailures` (power and frames
together), `MaxLost`, `MaxPanics`, `MaxFlight`, `MaxErrors`, `MaxTurn`,
`MaxMessages`, `MaxFlashes`, `Values`.

Where something was lost, only the properties that the code keeps then are
claimed: `OneFrontEnd`, `OperationalIffServed` and `NoFault` are about a bus that
loses nothing (`NothingLost`), since a lost name ends the process and a lost
confirmation makes a front end without a backend. `CopiesAgree`,
`OneLiveBackend`, `SlotsAccounted` and `ImplementsDirectory` are checked whatever is lost, and hold
within the bounds of the runs; the proof (section 5) shows the one loss that they
would not survive with more failures, a board that misses the order to reboot
which opens its bus. In the same way the properties of `RosFields` that compare the server with the board are stated for
a handshake or a known description that is whole (`Trusted`): the comparison of
the two is all the code has, and two descriptions with the same gap are equal.

Deadlock is not checked for `RubiServer`, `BlockReceiver` and `RosFields` (the
bounded environment runs dry, the program ends); it is for `ReceiveLoop`, whose
loop never stops, and for `TxRing`, where it would mean a header that is not in
the ring.

**Fairness.** Only liveness uses it. The main loop turns for ever, so received
frames are handled, rounds happen, and a process that died is started again
(weak fairness of `Receive`, `KeepAliveRound`, `Bind`, `Invite`). Boards that
lost power get it back (weak), and what they have to send gets on the bus in the
end, although the queue may be full now and again (strong fairness of `Enter`,
`Speak`, `Answer`: CAN arbitration and the lottery retry). The ROS side keeps
calling (weak fairness of `Query` or `Stray`: the GUI polls `is_online`);
without it a board on hold stays there, since nothing else calls
`RequestNewHandler`. Nothing is assumed of failures, reboots or panics, except
that they end.

`KeepAlive` assumes that rounds go on and received answers are handled; board,
bus and operator owe nothing. `ReceiveLoop` derives this from the loop and the
outside: the thread runs and time passes (weak fairness of each step), the bus
takes what is sent to it at some time (weak fairness of `Sent`; else the server
stands still at `socketcan.cpp:42`), and the other boards leave the bus silent
for a millisecond again and again (strong fairness of `EndDrain`; else `Tick` never
returns, `can_handler.cpp:68`). The last two are what the code cannot do itself;
without either `SilenceIsNoticed` fails. `WakeIsLearned` needs keep-alives that
go on and a board that answers them (weak fairness of `KeepAlive`
in `MCRosFields`).

## 4. What the code does otherwise than it says

- **HotPlug.** A second instance of a type keeps a descriptor that is not a key
  of the registry (`board.cpp:64` assigns to a temporary). When its front end
  needs a handler from hold, `RequestNewHandler` looks under that descriptor and
  follows the end iterator (`board.cpp:157-159`) or a null `old_handler`
  (`board.cpp:180-182`): the process dies.
- **StaleFrames.** The socket is bound before the order to reboot is sent. A
  restarted process reads frames of boards that still use addresses of the last
  one, and `ASSERT(address_pool[id] != boost::none)` ends it. Recovery shows that
  on one bus this stops after some restarts.
- **BlockSplice.** A transfer is checked by the number of its blocks. When the
  frames lost include a final frame, blocks of two messages may add up to the
  right number and are delivered as one.
- **Functions.** The README offers the functions of boards, and descriptions of
  functions are parsed. But `NewBoard` casts them to `FieldDescriptor` and asserts
  (`ros_frontend.cpp:526-534`), so the first board that has one ends the server.

Seen in the models, not runs of their own:

- A lost name frame ends the process (`communication.cpp:44`), as do events before
  the name, a full address pool (`can_handler.cpp:48`), a lost line of a
  description or new firmware under an old name (`communication.cpp:222`), and a
  ROS message with more or fewer values than its field (`ros_frontend.cpp:290`).
- With `EarlyFrames`, a stale description can register a slot that has been given
  to another board, so `OneFrontEnd` and `RightBoard` are checked without.
- `blocks_received` has no initial value, so the first block transfer of a
  connection may be thrown away; `IntactIsDelivered` says that it is at most the
  first.
- A string field with subfields publishes its first value for all of them:
  `InterpretString` does not use its index (`ros_frontend.cpp:94`). `RightTopic`
  states it so.
- A field of 256 bytes or more can be described; data for it ends the server in
  either direction.
- After a turn of more than a second the next round follows before the answers in
  the queue are read: `MissesNeedCause` with a bound of one is violated.
- `README.md:75` says that `/rubi/new_boards` carries `std_msgs::Empty`, the code
  publishes `BoardAnnounce`; `README.md:94` calls `online` the service that the code
  advertises as `is_online`.

## 5. Proofs

`KeepAliveProofs` proves, for every `DeadAfter >= 2`, every `MaxFlight >= 1` and
any sets of buses, nodes and ids, and any number of failing `recvmsg` calls: `TypeCorrect`, `CountersAreExact`,
`DeathIsJustified` (`Spec => []...`) and `DeathStays` (`Spec => DeathIsFinal`).

The invariant is the conjunction `TypeOK /\ CountersExact /\ DeathJustified`.
None of the parts is inductive alone: that `missed` stays within `DeadAfter`
needs that a connection is dead when it gets there, which needs that `quiet`
and `missed` run together, which needs `answered <=> quiet = 0`. With all three
a round is the only hard step, and it splits on whether the last request was
answered; an answer is handled alike when it is new and when it is read again
(`HandleInv`). `ConnectionFacts` says what each method of `Connection` does to each
field (`RequestAfterAnswer`, `RequestAfterSilence`, `AnswerFacts` ...), so that
the proofs of the steps never open a record. `DeathStays` needs no invariant:
every action that changes the connection has a guard that it is not dead.

The second part of `KeepAliveProofs` proves that the loop implements this connection:
`LoopImplementsKeepAlive`, `LoopSpec => Spec`, for a second, a turn and an answer
of any length. Each step of the loop is a step of `KeepAlive` under more guards
(`WorkSteps`, `OtherSteps`) or leaves the connection alone (`IdleSteps`). So
`LoopCountsExactly`, `LoopKillsJustly` and `LoopNeverRevives` follow from the
theorems of the first part. That the loop is also as fair as `KeepAlive` assumes
is checked by TLC.

`MissesHaveCause` is about the loop itself: `LoopSpec => []MissesNeedCause`, if a
board answers within a second (`AnswerTime < Second`), the only thing it needs
to know of the clocks. Its invariant `CauseInv` follows one answer: while nothing
was lost or late, an unanswered request is on its way, with an age that the
clock of the round bounds (`AnswersOwed`, `FirstOwed`, `SecondOwed`), and once two
requests are unanswered the drain of the same turn will find an answer
(`ThirdRead`): a third round may start before it is read, a fourth may not.

`RubiServerProofs` proves `TypeCorrect`, `Spec => []TypeOK`, for any boards,
buses, pools and bounds, early or lost frames included. `TypeOK` needs two more
facts, which its `Inv` adds: a handler that is not dead has missed fewer than
`DeadAfter` keep-alives (`Link`; the round that would count one more polls only
those), and a board in its handshake has something left to say (`Board`). The
lemmas first say what each building block does (`ObeyedFacts`, `FailureFacts`,
`DeliverFacts`, `OrdersFacts`, `ConsumeFacts`, `CrashFacts`, `InstanceUpdate`, `RegistryUpdate` ...); then one
lemma per group of actions (`DeviceSteps`, `ProcessSteps`, `HandlerSteps`,
`LotterySteps`, `RegisterSteps`, `ReplaceSteps`, `CallSteps`, `CrashSteps`) has a
case per action. The hard ones are the two that follow an entry of the registry
to the handler it names (`RegisterReplacing`, `Replace`).

On the types stand five more layers, each an invariant that is inductive given those
below, for any boards (several instances, several of one identity), buses, pools,
bounds and restarts.

| where | invariant | what it says | theorems |
|---|---|---|---|
| `RubiServerProofs`, second part | `AddressInv` | a frame or a board is at an address of the pool; one board at most speaks there; an INIT is in the queue or still to come, never both; a handler is registered at most once (`SpeakersKnown`, `OneSpeaker`, `InitOnce`, `RegisteredOnce`) | `OneBoardPerAddress` |
| `RubiServerProofs`, end of the second part | `BoardsTidy`, `OwnBus` | a board without an address owes no answer and is in no handshake; the frames of a queue are of boards on that bus | `AcquaintedForLife` |
| `RubiServerProofs`, third part | `NamesInv`, `DirectoryInv` | a descriptor keeps the one name it was given; keys and names are one to one; an entry of the registry, the front end of its identity and the handler point at one another; the last in a front end owns it; who is on hold serves nobody | `OneLiveBackendAlways`, `CopiesAlwaysAgree`, `ServerImplementsDirectory` |
| `HandshakeProofs` | `HandshakeInv` | a line in the queue has all earlier lines of the script before it, in the queue or known to the handler (`OrderInv`, over `Rank` and `Known`); so ids and registrations are true (`IdsTrue`, `RegisteredRight`, `ServedRight`), front ends have backends, and boards operate exactly if they are served (`InService`) | `OneFrontEndUnlessLost`, `ServiceUnlessLost`, `RightBoardUnlessLost`, `RightSourceUnlessLost` |
| `HandshakeProofs`, second part | `FaultInv` | an address is confirmed once; queued data has a front end or a dead handler; descriptors have the body of their boards; keys of the registry are described | `NoAssertFails`, `NoFaultUnlessFull` |

Why each is needed. `CopiesAgree` breaks if a descriptor changes its name after it
became a key, which a second board that speaks at the same address could bring
about, so the registry rests on `OneSpeaker`. That two live handlers never share a
front end needs to know who owns it, the last one that was launched
(`LastOwns`), through every replacement and every handler taken off hold. In
`HandshakeInv` the order of the frames is the hard part: the code takes a missing
line for a short description, so "known" has to say what survives
`ConfirmAddress`, which discards all that was described before it. In
`ServerImplementsDirectory` (`LinkSteps`) most steps are stutters of
`LinkDirectory`; a registration, a replacement, a handler taken off hold, a death
and a crash are its steps, and `RegisteredOnce` is why a link is not handed out
again.

`AcquaintedForLife` has no hypothesis: with frames read before the order to reboot,
lost frames, repeated entries and restarts, a process with no board and no frame of
an earlier one (`Acquainted`) never gets one again, and the assertion of
`can_handler.cpp:90` does not fail in it. So what StaleFrames shows, boards that still
use addresses of a process that died, is the only way there is. The step behind it
(`AcquaintedSteps`) is that whatever a board can send (`HeardFromPool`) comes from a
slot of the pool, which only grows while the process lives.

The hypotheses of the other theorems are conditions under which the code is right, and
each is there because the code is wrong without it:

- `~EarlyFrames`: nothing is heard between `bind` and the order to reboot.
  StaleFrames is the counterexample.
- `Heard`: every board on a bus that is opened hears the order to reboot. A
  board that misses it goes on with an address of the last process; when the new
  one gives that address away, two boards speak there. `NothingLost`, the
  condition of the properties themselves, implies it (`HeardUnlessLost`,
  `DirectoryUnlessLost`). The runs do not reach this
  case, which takes more failures than they have; the proof attempt did.
- `Uniform`: boards of one name describe themselves alike; `communication.cpp:222`
  asserts it.
- `"event" \notin Chatter`: no board sends an event before its name
  (`communication.cpp:78`).
- `OneInstance`, only in `NoFaultUnlessFull`: one instance of each type. HotPlug
  shows what happens with two, and `NoAssertFails`, without it, leaves that one
  reason (`bank_missing`) open. A full pool (`pool_exhausted`) is left open by both,
  as addresses are never given back.

The two directions of `ProtocolHandler` are proved for messages, headers, chunks
and buffers of any size, and any number of messages and losses. `FragmentFacts`
has the arithmetic they share: how many blocks a message has (`CountFacts`),
which bytes each carries (`PieceFacts`), that the first `i` blocks carry the first
`i * Chunk` bytes (`AllPieces`), what the row of frames is (`RowFacts`).

`TxRingProofs` proves `TypeCorrect`, `CursorsAreExact` and `WireIsExact`. Its
`RingInv` says where each byte is: `low` is `Pending` places after `high` around
the ring (`Apart`), and at the i-th of these places is the i-th byte still to be
read (`Stored`), header first. All of the ring is in the lemmas about `Wrap`, so
the steps that follow only count: a write in one piece or in two
(`WrittenFacts`), a read, a block (`BlockKeeps`), the last frame (`LastKeeps`).
`CursorsExact` alone would not be inductive: it says how many bytes there are,
and `WireIsMessage` needs to know which. `TxRingAssumption` is what the proof
needs of the sizes: a header and the longest message do not fill the ring, so its
special value for "full" never occurs.

`BlockReceiverProofs` proves `TypeCorrect`, `LossAloneFillsBuffer`,
`IntactTransfersArrive` and `DamagedTransfersFail`. The receiver knows nothing of
a transfer but the number of its blocks; `BlockInv` says what that number is
worth. What is on the bus is the end of the current message (`InTransit`), with
`Gone` frames read or lost; the buffer holds bytes of this message or of one that
lost a frame (`Owned`); if no frame was lost since the last final frame it holds
exactly the first `Gone` blocks (`InStep`); if only this message lost some, it
has counted fewer than `Gone` (`Short`), and the final frame notices. That
`count` bounds the length of the buffer (`Bounded`) ties the two.

`RosFrontendProofs` proves what the runs check of `RosFields` and `FakeServer`,
but for liveness, for descriptions of any number of fields and functions, with
any names, types, accesses and subfields, any number of lost lines and changes
of firmware. Its `FieldsInv` is `TypeOK` and seven more parts:

| part | what it says | needed because |
|---|---|---|
| `Positioned` | the position in the description is one: a line of a part, or the end | `ToldMore` has to reach the end exactly |
| `Faithful` | while no line of this handshake was lost, the handler knows what the board has said and nothing else (`Knows`: the parts that are over, and of the present one what `Begun` says of its first lines) | at the end it is the firmware itself (`Described`), the only reason why the description is true |
| `Mapped` | the front end is what `Init` makes of the description in the map, and `Init` accepted that | the tables are made once and used by every later connection |
| `Settled` | who is registered has said all and is what the map says | `INIT_COMPLETE` compares; nothing changes a description after it |
| `Remembered` | if the first handshake lost nothing, the map has all of the firmware it was with | the other way to be `Trusted` |
| `Accounted` | only lost lines make gaps, only a flash another firmware | without damage everything is trusted |
| `Connected` | only a launched connection exchanges data | data is only as right as the tables at that time |

The hard step is one more line: for each kind of line (`NextLine`), what
`ApplyInfo` makes of the newest field is what `Begun` says one line later
(`Heeds`, over `HearName`, `HearMore` and `HearLast`); `TypeOK` needs the same
of a description with gaps, where a line may be applied to the wrong field
(`ApplyTyped`, `LineSayable`). No step needs induction over the lines. The tables
are about a list in which all are fields, since `NewBoardFaults` refuses every
other: then `fftable` and `fieldtable` are the identity and everything else
follows place by place (`AllFields`, `FrontEndFacts`, `Tables`).

From `FieldsInv` follow `NeverAnotherLanguage` and, with the steps that kill the
process or exchange data, `DamageAlone`, `OnItsOwnTopic` and `ToItsOwnField`;
the last rests on the arithmetic of `DeinterpretInt` (`Narrowed`: a value the
narrower type can hold is not changed, for both signs and widths).
`DescribedAsServed` has a hypothesis, `NamesDiffer`: no two fields of a board
have one name. Without it the theorem is false, as `get_field_descriptor` describes
the first field of a name (`ros_frontend.cpp:247`). With it the names in a
description with gaps differ too (`NamesOnce`), as a name is added only by the line
that says it. `FakesShown` is about
`FakeSpec`: the data that `main` makes up by number (four bytes for every four
bytes of the third field, one for every byte of the fourth) has the size of the
fields of both boards that get it.

Assumed are `ConnectionAssumption`, `ServerAssumption`, `MaxFlightAssumption`,
`LoopAssumption`, `FragmentationAssumption`, `TxRingAssumption`,
`BlockReceiverAssumption` and `RosFieldsAssumption` (a board says of itself what
its lines can carry: every field has a name, no list of subfields ends with an
empty one, functions name no arguments); TLC evaluates them all.

Only model-checked are liveness and fairness (`SilenceIsNoticed`, `AllComeOnline`,
`WakeIsLearned`, the fairness in `ImplementsKeepAlive`), for which TLAPS has no
rules here. `SlotsAccounted` is only model-checked too. Every other
invariant and action property that a passing run checks is also
a theorem; those of `RubiServer` that are about a bus without losses have the
hypotheses named above.

## 6. Not modelled

- ROS itself, the names of topics beyond the name of board and field, the load
  report and the traffic counters behind it, the lists of buses and boards:
  no state that anything else depends on. Logging.
- Frames that are only logged (wrong protocol version, unknown ids) and foreign
  nodes that use the ids of boards: nothing in the code says what these would send,
  and address 62 of `can_handler.cpp:23` is reached by nothing else.
- Collisions in the lottery: two boards that answer to one lottery id. The bus
  arbitrates between ids; the code has only a FIXME (`communication.cpp:167`).
- Errors of the constructor of `SocketCan`, and loss of power of the main computer
  as distinct from a crash.
- Functions never called: `rubi_tx_enqueue_front`, `rubi_wait_for_tx_and_flock`,
  `rubi_packed_size`, `GetFunctionFfid`, `Shutdown`, `ConnectionLost`.
- Fields by value where it makes no difference: floats and strings are opaque, and
  a string that is longer than its field (`strcpy`, `ros_frontend.cpp:131`) is left
  out.

`PROJECT.json` lists every hazard with the properties that cover it, or why none
does.

## 7. Plan

1. Done: `Connection`, `KeepAlive`, `ReceiveLoop` and their proofs; `RubiServer`
   with `LinkDirectory`, lost frames and commands, and the proof of its types;
   `Fragmentation`, `TxRing`, `BlockReceiver`; `Descriptors`, `RosFrontend`,
   `RosFields`, `FakeServer`.
2. Done: the proofs of `RubiServer`'s safety properties, of `ImplementsDirectory`,
   of `MissesNeedCause`, of all that `TxRing` and `BlockReceiver` claim, and of the
   invariants of `RosFields` and `FakeServer`.
3. Left: a run of `RubiServer` with two buses. The proofs are for any number of
   them; the runs have one, as two multiply the states.
